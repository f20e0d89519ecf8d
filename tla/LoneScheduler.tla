---------------------------- MODULE LoneScheduler ----------------------------
(***************************************************************************)
(* What any number of schedulers, with their elections, leases, failed     *)
(* passes and shutdowns, must look like to the schedule they serve: a      *)
(* single scheduler that never fails.  It queues the due time once, no     *)
(* earlier than its clock says, and sets the next one after that clock.    *)
(***************************************************************************)
EXTENDS Integers

CONSTANTS
    Period,         \* longest time between two due times
    MaxLag,         \* how far the clock it goes by may lie behind
    MaxDue          \* bound: due times

VARIABLES
    due,            \* the number of the due time ahead, and how far away it is
    keys            \* the due times queued

vars == <<due, keys>>

Init ==
    /\ due = [number |-> 0, wait |-> 1]
    /\ keys = {}

(* Queue the due time and set the next, by a clock that is behind. *)
Serve(behind, w) ==
    /\ due.number < MaxDue
    /\ due.number \notin keys
    /\ due.wait + behind <= 0
    /\ keys' = keys \cup {due.number}
    /\ due' = [number |-> due.number + 1, wait |-> w - behind]

(* A unit of time; due times further past than the clock are all the same. *)
TimePasses ==
    /\ due' = [due EXCEPT !.wait = IF @ > -MaxLag THEN @ - 1 ELSE @]
    /\ UNCHANGED keys

Next ==
    \/ \E behind \in 0..MaxLag, w \in 1..Period : Serve(behind, w)
    \/ TimePasses

Spec == Init /\ [][Next]_vars
=============================================================================
