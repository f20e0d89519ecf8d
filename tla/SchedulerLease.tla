--------------------------- MODULE SchedulerLease ---------------------------
(***************************************************************************)
(* The leader lease (aidss/jobs/leader.py), the scheduler's pass that runs *)
(* under it (Scheduler in aidss/jobs/worker.py) and the two ways a process *)
(* hosts a scheduler (aidss/jobs/__main__.py).                             *)
(*                                                                         *)
(* A pass is one transaction: the statement that takes or renews the lease *)
(* writes its row, so that, until the pass commits, another scheduler's    *)
(* UPDATE of the row waits for it.  The pass then queues what is due and   *)
(* advances the schedule, and commits everything together.                 *)
(*                                                                         *)
(* Time is relative: the lease keeps how far away its expires_at is        *)
(* (left), the schedule how far away its next_run_at is (wait), a pass how *)
(* long ago it read the clock (lag).  One news schedule stands for what a  *)
(* pass queues; its due times are numbered and its dedup key is the number.*)
(***************************************************************************)
EXTENDS Integers

CONSTANTS
    Schedulers,     \* processes that run a scheduler
    NoOne,          \* no lease row
    Daemons,        \* those of Schedulers that run it on a daemon thread beside a worker
    LeaseTime,      \* DEFAULT_LEASE_SECONDS, in units of Tick
    Period,         \* longest time between two due times of the schedule
    MaxLag,         \* longest pass (assumed, not enforced by the code)
    MaxDue,         \* bound: due times
    MaxFaults,      \* bound: crashes and failed passes
    MaxStops,       \* bound: shutdown signals
    MaxCollisions   \* bound: passes that lose the insert of a dedup key

ASSUME NamesAssumption == NoOne \notin Schedulers /\ Daemons \subseteq Schedulers
ASSUME NumbersAssumption ==
    /\ {LeaseTime, Period} \subseteq Nat \ {0}
    /\ {MaxLag, MaxDue, MaxFaults, MaxStops, MaxCollisions} \subseteq Nat

VARIABLES
    lease,      \* the committed row of leader_leases
    due,        \* the schedule's committed next_run_at
    keys,       \* dedup keys of the jobs queued for it
    pc,         \* where each scheduler is
    lag,        \* how long ago its pass read the clock
    wrote,      \* whether its open transaction has written the lease row
    queued,     \* whether its open transaction has queued the due job
    leader,     \* Scheduler._was_leader
    stopping,   \* Scheduler._stopping
    faults, stops, collisions

vars == <<lease, due, keys, pc, lag, wrote, queued, leader, stopping, faults, stops, collisions>>
tables == <<lease, due, keys>>
counters == <<faults, stops, collisions>>

InPass == {"begin", "probe", "insert", "leading", "queued", "closing"}
Locations == InPass \cup {"down", "asleep", "releasing"}

NoLease == [holder |-> NoOne, left |-> 0]

Init ==
    /\ lease = NoLease
    /\ due = [number |-> 0, wait |-> 1]
    /\ keys = {}
    /\ pc = [s \in Schedulers |-> "asleep"]
    /\ lag = [s \in Schedulers |-> 0]
    /\ wrote = [s \in Schedulers |-> FALSE]
    /\ queued = [s \in Schedulers |-> FALSE]
    /\ leader = [s \in Schedulers |-> FALSE]
    /\ stopping = [s \in Schedulers |-> FALSE]
    /\ faults = 0 /\ stops = 0 /\ collisions = 0

Goto(s, label) == pc' = [pc EXCEPT ![s] = label]

(* The pass is over; what its transaction wrote is gone or committed. *)
Close(s, label) ==
    /\ Goto(s, label)
    /\ lag' = [lag EXCEPT ![s] = 0]
    /\ wrote' = [wrote EXCEPT ![s] = FALSE]
    /\ queued' = [queued EXCEPT ![s] = FALSE]

-----------------------------------------------------------------------------
(* LeaseHolder.acquire *)

LeaseLocked == \E t \in Schedulers : wrote[t]

(* The WHERE of the conditional UPDATE, with the clock as this pass read it. *)
Matches(s) ==
    /\ lease.holder # NoOne
    /\ lease.holder = s \/ lease.left + lag[s] <= 0

(* The loop wakes up and the pass reads the clock. *)
Wake(s) ==
    /\ pc[s] = "asleep" /\ ~stopping[s]
    /\ Goto(s, "begin")
    /\ UNCHANGED <<tables, lag, wrote, queued, leader, stopping, counters>>

(* Mutant: whoever asks takes the lease. *)
RenewAnyway(s) ==
    /\ pc[s] = "begin" /\ lease.holder # NoOne /\ ~LeaseLocked
    /\ wrote' = [wrote EXCEPT ![s] = TRUE]
    /\ leader' = [leader EXCEPT ![s] = TRUE]
    /\ Goto(s, "leading")
    /\ UNCHANGED <<tables, lag, queued, stopping, counters>>

(* Mutant: an expired lease is its holder's for ever. *)
RenewOwn(s) ==
    /\ pc[s] = "begin" /\ lease.holder = s /\ ~LeaseLocked
    /\ wrote' = [wrote EXCEPT ![s] = TRUE]
    /\ leader' = [leader EXCEPT ![s] = TRUE]
    /\ Goto(s, "leading")
    /\ UNCHANGED <<tables, lag, queued, stopping, counters>>

(* Mutant: the lease is committed before the pass does its work. *)
RenewAndCommit(s) ==
    /\ pc[s] = "begin" /\ Matches(s) /\ ~LeaseLocked
    /\ lease' = [holder |-> s, left |-> LeaseTime - lag[s]]
    /\ leader' = [leader EXCEPT ![s] = TRUE]
    /\ Goto(s, "leading")
    /\ UNCHANGED <<due, keys, lag, wrote, queued, stopping, counters>>

(* The conditional UPDATE renews or takes over. *)
Renew(s) ==
    /\ pc[s] = "begin" /\ Matches(s) /\ ~LeaseLocked
    /\ wrote' = [wrote EXCEPT ![s] = TRUE]
    /\ leader' = [leader EXCEPT ![s] = TRUE]
    /\ Goto(s, "leading")
    /\ UNCHANGED <<tables, lag, queued, stopping, counters>>

(* The UPDATE matches nothing. *)
Miss(s) ==
    /\ pc[s] = "begin" /\ ~Matches(s)
    /\ Goto(s, "probe")
    /\ UNCHANGED <<tables, lag, wrote, queued, leader, stopping, counters>>

(* Not the leader: the pass commits nothing and the loop sleeps. *)
Follow(s) ==
    /\ Close(s, "asleep")
    /\ leader' = [leader EXCEPT ![s] = FALSE]
    /\ UNCHANGED <<tables, stopping, counters>>

(* Is there a row? *)
Probe(s) ==
    /\ pc[s] = "probe"
    /\ \/ lease.holder # NoOne /\ Follow(s)
       \/ /\ lease.holder = NoOne
          /\ Goto(s, "insert")
          /\ UNCHANGED <<tables, lag, wrote, queued, leader, stopping, counters>>

(* The first claim of the role, or an IntegrityError and a rollback. *)
Insert(s) ==
    /\ pc[s] = "insert"
    /\ \/ lease.holder # NoOne /\ Follow(s)
       \/ /\ lease.holder = NoOne /\ ~LeaseLocked
          /\ wrote' = [wrote EXCEPT ![s] = TRUE]
          /\ leader' = [leader EXCEPT ![s] = TRUE]
          /\ Goto(s, "leading")
          /\ UNCHANGED <<tables, lag, queued, stopping, counters>>

-----------------------------------------------------------------------------
(* Scheduler.tick under the lease *)

IsDue(s) == due.number < MaxDue /\ due.wait + lag[s] <= 0

(* Mutant: the schedule is advanced on a transaction of its own. *)
EnqueueDueAdvancing(s) ==
    /\ pc[s] = "leading"
    /\ due' = IF IsDue(s) THEN [number |-> due.number + 1, wait |-> 1] ELSE due
    /\ queued' = [queued EXCEPT ![s] = IsDue(s)]
    /\ Goto(s, "queued")
    /\ UNCHANGED <<lease, keys, lag, wrote, leader, stopping, counters>>

(* Queue the due job under its dedup key and advance the schedule. *)
EnqueueDue(s) ==
    /\ pc[s] = "leading"
    /\ queued' = [queued EXCEPT ![s] = IsDue(s) /\ due.number \notin keys]
    /\ Goto(s, "queued")
    /\ UNCHANGED <<tables, lag, wrote, leader, stopping, counters>>

(* The last enqueue of the pass, the trading summary's, loses its key to   *)
(* the admin endpoint that queues the same date, and rolls the whole       *)
(* transaction back: the pass goes on with neither lease nor job.          *)
Collide(s) ==
    /\ pc[s] = "queued"
    /\ collisions < MaxCollisions /\ collisions' = collisions + 1
    /\ wrote' = [wrote EXCEPT ![s] = FALSE]
    /\ queued' = [queued EXCEPT ![s] = FALSE]
    /\ Goto(s, "closing")
    /\ UNCHANGED <<tables, lag, leader, stopping, faults, stops>>

(* The lease, the job and the next due time, later than the pass's clock,  *)
(* are committed together.                                                 *)
CommitPass(s) ==
    /\ pc[s] \in {"queued", "closing"}
    /\ lease' = IF wrote[s] THEN [holder |-> s, left |-> LeaseTime - lag[s]] ELSE lease
    /\ \/ /\ queued[s]
          /\ keys' = keys \cup {due.number}
          /\ \E w \in 1..Period : due' = [number |-> due.number + 1, wait |-> w - lag[s]]
       \/ ~queued[s] /\ UNCHANGED <<keys, due>>
    /\ Close(s, "asleep")
    /\ UNCHANGED <<leader, stopping, counters>>

(* An exception rolls the pass back; the loop outlives it. *)
FailPass(s) ==
    /\ pc[s] \in InPass
    /\ faults < MaxFaults /\ faults' = faults + 1
    /\ Close(s, "asleep")
    /\ UNCHANGED <<tables, leader, stopping, stops, collisions>>

-----------------------------------------------------------------------------
(* Processes *)

(* SIGTERM raises the flag the loop reads when it has slept. *)
Stop(s) ==
    /\ pc[s] # "down" /\ ~stopping[s]
    /\ stops < MaxStops /\ stops' = stops + 1
    /\ stopping' = [stopping EXCEPT ![s] = TRUE]
    /\ UNCHANGED <<tables, pc, lag, wrote, queued, leader, faults, collisions>>

(* The loop ends; its finally clause releases. *)
Leave(s) ==
    /\ pc[s] = "asleep" /\ stopping[s]
    /\ Goto(s, "releasing")
    /\ UNCHANGED <<tables, lag, wrote, queued, leader, stopping, counters>>

Reset(s) ==
    /\ Close(s, "down")
    /\ leader' = [leader EXCEPT ![s] = FALSE]
    /\ stopping' = [stopping EXCEPT ![s] = FALSE]

(* Mutant: the DELETE is never committed. *)
ReleaseUncommitted(s) ==
    /\ pc[s] = "releasing"
    /\ Reset(s)
    /\ UNCHANGED <<tables, counters>>

(* Scheduler.release: delete the row if this process still holds it. *)
Release(s) ==
    /\ pc[s] = "releasing"
    /\ LET mine == leader[s] /\ lease.holder = s
       IN  /\ mine => ~LeaseLocked
           /\ lease' = IF mine THEN NoLease ELSE lease
    /\ Reset(s)
    /\ UNCHANGED <<due, keys, counters>>

(* The worker's loop has ended on the main thread: the interpreter exits   *)
(* and the daemon thread ends wherever it is.                              *)
EndDaemon(s) ==
    /\ s \in Daemons /\ stopping[s]
    /\ Reset(s)
    /\ UNCHANGED <<tables, counters>>

Crash(s) ==
    /\ pc[s] # "down"
    /\ faults < MaxFaults /\ faults' = faults + 1
    /\ Reset(s)
    /\ UNCHANGED <<tables, stops, collisions>>

Start(s) ==
    /\ pc[s] = "down"
    /\ Goto(s, "asleep")
    /\ UNCHANGED <<tables, lag, wrote, queued, leader, stopping, counters>>

(* One unit of time; instants more than MaxLag ago are the same to a pass. *)
Tick ==
    /\ \A s \in Schedulers : pc[s] \in InPass => lag[s] < MaxLag
    /\ lease' = [lease EXCEPT !.left = IF @ > -MaxLag THEN @ - 1 ELSE @]
    /\ due' = [due EXCEPT !.wait = IF @ > -MaxLag THEN @ - 1 ELSE @]
    /\ lag' = [s \in Schedulers |-> IF pc[s] \in InPass THEN lag[s] + 1 ELSE 0]
    /\ UNCHANGED <<keys, pc, wrote, queued, leader, stopping, counters>>

(* What a scheduler does of its own accord. *)
Step(s) ==
    \/ Wake(s) \/ Renew(s) \/ Miss(s) \/ Probe(s) \/ Insert(s)
    \/ EnqueueDue(s) \/ CommitPass(s) \/ Leave(s) \/ Release(s)

Next ==
    \/ \E s \in Schedulers :
        \/ Step(s) \/ Collide(s) \/ FailPass(s)
        \/ Stop(s) \/ EndDaemon(s) \/ Crash(s) \/ Start(s)
    \/ Tick

Spec == Init /\ [][Next]_vars

(* Processes that are up keep looping, and time passes.  Nothing restarts  *)
(* a process that is down.                                                 *)
Fairness == WF_vars(Tick) /\ \A s \in Schedulers : WF_vars(Step(s))

FairSpec == Spec /\ Fairness

-----------------------------------------------------------------------------
(* Properties *)

TypeOK ==
    /\ lease \in [holder : Schedulers \cup {NoOne}, left : -MaxLag..LeaseTime]
    /\ due \in [number : 0..MaxDue, wait : -MaxLag..Period]
    /\ keys \subseteq 0..MaxDue
    /\ pc \in [Schedulers -> Locations]
    /\ lag \in [Schedulers -> 0..MaxLag]
    /\ wrote \in [Schedulers -> BOOLEAN] /\ queued \in [Schedulers -> BOOLEAN]
    /\ \A s \in Schedulers : wrote[s] <=> pc[s] \in {"leading", "queued"}
    /\ leader \in [Schedulers -> BOOLEAN] /\ stopping \in [Schedulers -> BOOLEAN]
    /\ faults \in 0..MaxFaults /\ stops \in 0..MaxStops /\ collisions \in 0..MaxCollisions

(* Only one scheduler is ever past the election and queueing work, however *)
(* long its pass takes against the lease: "exactly one scheduler" is kept  *)
(* by the row its transaction has written, not only by the expiry.         *)
OneTick ==
    \A s, t \in Schedulers :
        pc[s] \in {"leading", "queued"} /\ pc[t] \in {"leading", "queued"} => s = t

(* A live lease leaves its holder only because the holder gives it up.     *)
LeaseRespected ==
    [][\A s \in Schedulers :
          lease.holder = s /\ lease.left > 0 => lease'.holder = s \/ pc[s] = "releasing"]_vars

(* Every due time the schedule has moved past was queued, and the next one *)
(* is not queued yet: no failure or lost key between the two leaves a due  *)
(* time skipped, or stuck behind a key that is already taken.              *)
QueuedExactlyWhenPast == keys = 0..due.number - 1

Lone == INSTANCE LoneScheduler

(* However many schedulers there are, whoever of them leads and whichever  *)
(* passes fail, the schedule is served as by one that never does: no due   *)
(* time is queued twice, before it is due, or out of turn, and none is     *)
(* moved past without being queued.                                        *)
ImplementsLoneScheduler == Lone!Spec

(* A scheduler in a process of its own that ends cleanly leaves no lease   *)
(* behind: a peer takes over at once instead of after the expiry.          *)
CleanExitReleases ==
    faults = 0 => \A s \in Schedulers \ Daemons : pc[s] = "down" => lease.holder # s

(* So does one on a daemon thread: "its finally still releases the lease". *)
DaemonExitReleases ==
    faults = 0 => \A s \in Daemons : pc[s] = "down" => lease.holder # s

(* A due time is served as long as some scheduler is up: a follower takes  *)
(* over from a leader that stopped renewing.                               *)
ScheduleServed ==
    \A n \in 0..MaxDue - 1 :
        due.number = n ~> n \in keys \/ \A s \in Schedulers : pc[s] = "down"
=============================================================================
