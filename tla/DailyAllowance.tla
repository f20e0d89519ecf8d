---------------------------- MODULE DailyAllowance ----------------------------
(***************************************************************************)
(* What a provider's allowance promises the refreshes that spend it, with  *)
(* no rows, statements, transactions or clock: a call is granted on a day  *)
(* that has room, in one step; who holds a grant makes its one call or     *)
(* wastes it; nobody calls without a grant, and a day's grants are not     *)
(* handed back.                                                            *)
(***************************************************************************)
EXTENDS Naturals

CONSTANTS
    Jobs,           \* who may ask for a call
    Days,           \* the days of the provider's calendar
    Limit,          \* calls a day; 0 for no limit
    NoGrant         \* of a job that holds none: not a day

VARIABLES
    granted,        \* per day: the calls granted
    held,           \* per job: the day of the grant it holds
    made            \* per day: the calls made

vars == <<granted, held, made>>

Init ==
    /\ granted = [d \in Days |-> 0]
    /\ held = [j \in Jobs |-> NoGrant]
    /\ made = [d \in Days |-> 0]

Grant(j, d) ==
    /\ held[j] = NoGrant
    /\ Limit = 0 \/ granted[d] < Limit
    /\ granted' = [granted EXCEPT ![d] = @ + 1]
    /\ held' = [held EXCEPT ![j] = d]
    /\ UNCHANGED made

Call(j) ==
    /\ held[j] \in Days
    /\ made' = [made EXCEPT ![held[j]] = @ + 1]
    /\ held' = [held EXCEPT ![j] = NoGrant]
    /\ UNCHANGED granted

(* The holder is gone, or fails before it calls. *)
Waste(j) ==
    /\ held[j] \in Days
    /\ held' = [held EXCEPT ![j] = NoGrant]
    /\ UNCHANGED <<granted, made>>

Next ==
    \E j \in Jobs :
        \/ \E d \in Days : Grant(j, d)
        \/ Call(j)
        \/ Waste(j)

Spec == Init /\ [][Next]_vars
=============================================================================
