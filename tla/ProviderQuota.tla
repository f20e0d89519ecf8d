---------------------------- MODULE ProviderQuota ----------------------------
(***************************************************************************)
(* The daily allowance of a data provider (aidss/jobs/quota.py) and the    *)
(* handler that spends it (refresh_fundamentals in aidss/jobs/handlers.py).*)
(*                                                                         *)
(* A refresh reserves one call on a transaction of its own, commits it,    *)
(* and only then calls the provider; refused, it defers its job to the     *)
(* next UTC midnight.  Each SQL statement of the reservation is a step, as *)
(* PostgreSQL runs it at READ COMMITTED: a statement reads what is         *)
(* committed when it starts, and waits for the row another transaction     *)
(* has written and not yet committed.  Every reservation is for one call,  *)
(* the only count any caller asks for.                                     *)
(***************************************************************************)
EXTENDS Integers, FiniteSets

CONSTANTS
    Jobs,           \* fundamentals.refresh jobs
    Limit,          \* fundamentals_daily_quota; 0 is UNLIMITED
    DayLength,      \* units of time in a UTC day
    MaxNow,         \* bound: the last instant
    MaxMishaps      \* bound: attempts that crash or fail

ASSUME JobsAssumption == IsFiniteSet(Jobs)
ASSUME NumbersAssumption ==
    /\ {Limit, MaxNow, MaxMishaps} \subseteq Nat
    /\ DayLength \in Nat \ {0}

VARIABLES
    now,        \* the clock
    used,       \* provider_quota_usage, committed: calls per UTC day, 0 for no row
    pc,         \* where each refresh is
    day,        \* the day its reservation is for
    pending,    \* what its open transaction has written to that day's row
    due,        \* available_at of its job
    calls,      \* requests sent, by the day of their reservation
    mishaps

vars == <<now, used, pc, day, pending, due, calls, mishaps>>

Day(t) == t \div DayLength
Days == 0..Day(MaxNow)

(* The coming UTC midnight. *)
NextReset(t) == (Day(t) + 1) * DayLength

Unlimited == Limit = 0
Reserving == {"update", "get", "insert", "retry", "commit"}
Busy == Reserving \cup {"calling", "refused"}

Init ==
    /\ now = 0
    /\ used = [d \in Days |-> 0]
    /\ pc = [j \in Jobs |-> "waiting"]
    /\ day = [j \in Jobs |-> 0]
    /\ pending = [j \in Jobs |-> "none"]
    /\ due = [j \in Jobs |-> 0]
    /\ calls = [d \in Days |-> 0]
    /\ mishaps = 0

Goto(j, label) == pc' = [pc EXCEPT ![j] = label]

(* A worker takes the job; reserve reads the day once. *)
Begin(j) ==
    /\ pc[j] = "waiting" /\ due[j] <= now
    /\ Goto(j, "update")
    /\ day' = [day EXCEPT ![j] = Day(now)]
    /\ UNCHANGED <<now, used, pending, due, calls, mishaps>>

Locked(d) == \E k \in Jobs : pending[k] # "none" /\ day[k] = d

(* Whether the conditional UPDATE matches the day's committed row. *)
Fits(d) == used[d] > 0 /\ (Unlimited \/ used[d] <= Limit - 1)

Increment(j) ==
    /\ Fits(day[j]) /\ ~Locked(day[j])
    /\ pending' = [pending EXCEPT ![j] = "increment"]
    /\ Goto(j, "commit")

(* The UPDATE that checks and counts in one statement. *)
Update(j) ==
    /\ pc[j] = "update"
    /\ \/ Increment(j)
       \/ /\ ~Fits(day[j])
          /\ Goto(j, IF Unlimited THEN "insert" ELSE "get")
          /\ UNCHANGED pending
    /\ UNCHANGED <<now, used, day, due, calls, mishaps>>

(* No row was updated: is there one? *)
Get(j) ==
    /\ pc[j] = "get"
    /\ Goto(j, IF used[day[j]] > 0 THEN "refused" ELSE "insert")
    /\ UNCHANGED <<now, used, day, pending, due, calls, mishaps>>

(* The first use of the day, or an IntegrityError and a rollback. *)
Insert(j) ==
    /\ pc[j] = "insert"
    /\ \/ /\ used[day[j]] > 0
          /\ Goto(j, "retry")
          /\ UNCHANGED pending
       \/ /\ used[day[j]] = 0 /\ ~Locked(day[j])
          /\ pending' = [pending EXCEPT ![j] = "insert"]
          /\ Goto(j, "commit")
    /\ UNCHANGED <<now, used, day, due, calls, mishaps>>

(* Mutant: the second UPDATE does not repeat the check. *)
RetryUnchecked(j) ==
    /\ pc[j] = "retry" /\ ~Locked(day[j])
    /\ pending' = [pending EXCEPT ![j] = "increment"]
    /\ Goto(j, "commit")
    /\ UNCHANGED <<now, used, day, due, calls, mishaps>>

(* The row exists now: the UPDATE once more. *)
Retry(j) ==
    /\ pc[j] = "retry"
    /\ \/ Increment(j)
       \/ /\ ~Fits(day[j])
          /\ Goto(j, "refused")
          /\ UNCHANGED pending
    /\ UNCHANGED <<now, used, day, due, calls, mishaps>>

(* reserve_durably commits before it returns. *)
Commit(j) ==
    /\ pc[j] = "commit"
    /\ used' = [used EXCEPT ![day[j]] = @ + 1]
    /\ pending' = [pending EXCEPT ![j] = "none"]
    /\ Goto(j, "calling")
    /\ UNCHANGED <<now, day, due, calls, mishaps>>

(* The request reaches the provider; the job ends, or fails and is retried. *)
Request(j) ==
    /\ pc[j] = "calling"
    /\ calls' = [calls EXCEPT ![day[j]] = @ + 1]
    /\ \/ Goto(j, "done") /\ UNCHANGED <<due, mishaps>>
       \/ /\ mishaps < MaxMishaps /\ mishaps' = mishaps + 1
          /\ Goto(j, "waiting")
          /\ due' = [due EXCEPT ![j] = now]
    /\ UNCHANGED <<now, used, day, pending>>

(* JobDeferred to next_reset(), which reads the clock again. *)
Defer(j) ==
    /\ pc[j] = "refused"
    /\ due' = [due EXCEPT ![j] = NextReset(now)]
    /\ Goto(j, "waiting")
    /\ UNCHANGED <<now, used, day, pending, calls, mishaps>>

(* The worker crashes, the database refuses a statement or the connection  *)
(* to the provider fails: what is uncommitted is gone, the job comes back. *)
Abort(j) ==
    /\ pc[j] \in Busy
    /\ mishaps < MaxMishaps /\ mishaps' = mishaps + 1
    /\ pending' = [pending EXCEPT ![j] = "none"]
    /\ Goto(j, "waiting")
    /\ due' = [due EXCEPT ![j] = now]
    /\ UNCHANGED <<now, used, day, calls>>

Tick ==
    /\ now < MaxNow /\ now' = now + 1
    /\ UNCHANGED <<used, pc, day, pending, due, calls, mishaps>>

Next ==
    \/ \E j \in Jobs :
        \/ Begin(j) \/ Update(j) \/ Get(j) \/ Insert(j) \/ Retry(j) \/ Commit(j)
        \/ Request(j) \/ Defer(j) \/ Abort(j)
    \/ Tick

Spec == Init /\ [][Next]_vars

-----------------------------------------------------------------------------
(* Properties *)

TypeOK ==
    /\ now \in 0..MaxNow
    /\ used \in [Days -> Nat]
    /\ pc \in [Jobs -> Busy \cup {"waiting", "done"}]
    /\ day \in [Jobs -> Days]
    /\ pending \in [Jobs -> {"none", "increment", "insert"}]
    /\ \A j \in Jobs : pending[j] # "none" <=> pc[j] = "commit"
    /\ due \in [Jobs -> Nat]
    /\ calls \in [Days -> Nat]
    /\ mishaps \in 0..MaxMishaps

(* "Two workers must not both see the last slot": a day's reservations     *)
(* never exceed the limit, whatever the statements interleave with.        *)
WithinAllowance == Limit > 0 => \A d \in Days : used[d] <= Limit

Calling(d) == {j \in Jobs : pc[j] = "calling" /\ day[j] = d}

(* Every request sent, and every one about to be, is on record for its     *)
(* day: a crash or a failing job may waste a reservation, never lose one.  *)
SpendOnRecord == \A d \in Days : calls[d] + Cardinality(Calling(d)) <= used[d]

(* The day a job has a committed reservation for and has not yet called on. *)
Holding(j) == IF pc[j] = "calling" THEN day[j] ELSE -1

Allowance == INSTANCE DailyAllowance
             WITH NoGrant <- -1, granted <- used, held <- [j \in Jobs |-> Holding(j)],
                  made <- calls

(* Read from outside, the statements, the lost races, the crashes and the  *)
(* two clocks are an allowance that is checked and counted in one step: a  *)
(* commit grants a call of a day that still has room, and every request    *)
(* the provider sees spends a grant of its own.                            *)
ImplementsAllowance == Allowance!Spec

=============================================================================
