--------------------------- MODULE JobQueue_proofs ---------------------------
(***************************************************************************)
(* Proofs about JobQueue for every set of jobs and workers, both dialects  *)
(* and every value of the timeouts and bounds.                             *)
(***************************************************************************)
EXTENDS JobQueue, TLAPS

USE DEF rowVars, workerVars, counters

LEMMA Bounds == {MaxRetries, LockTimeout, MaxRun, MaxFaults} \subseteq Nat
  BY NumbersAssumption

(* A retry delay is a number of units whatever the attempt. *)
LEMMA RetryDelayType == \A n \in Nat : RetryDelay(n) \in Nat
  <1> SUFFICES ASSUME NEW n \in Nat PROVE RetryDelay(n) \in Nat
    OBVIOUS
  <1> DEFINE grown == RetryBase * 2 ^ (IF n > 1 THEN n - 1 ELSE 0)
  <1>1. RetryDelay(n) = IF grown \in 0..RetryCap THEN grown ELSE RetryCap
    BY DEF RetryDelay
  <1> HIDE DEF grown
  <1>2. RetryCap \in Nat
    BY NumbersAssumption
  <1> QED
    BY <1>1, <1>2

LEMMA SnapshotType == \A r \in Row : SnapshotOf(r) \in Snapshot
  BY DEF Row, Snapshot, SnapshotOf, Status, Final

LEMMA AbsentType == AbsentRow \in Row /\ Unread \in Snapshot
  BY NumbersAssumption DEF AbsentRow, Unread, SnapshotOf, Row, Snapshot, Status, Final

LEMMA RowTypes ==
  /\ \A n \in Nat, d \in Int : PendingRow(n, d) \in Row
  /\ \A n \in Nat, w \in Workers : RunningRow(n, w) \in Row
  /\ \A r \in Row : Older(r) \in Row
  BY NumbersAssumption DEF PendingRow, RunningRow, Older, Row, Status

LEMMA RowFields ==
  /\ \A n, d : /\ PendingRow(n, d).status = "PENDING"
              /\ PendingRow(n, d).retry = n
              /\ PendingRow(n, d).by = NoWorker
  /\ \A n, w : /\ RunningRow(n, w).status = "RUNNING"
              /\ RunningRow(n, w).retry = n
              /\ RunningRow(n, w).age = 0
              /\ RunningRow(n, w).by = w
  /\ \A r : /\ Older(r).status = r.status
           /\ Older(r).retry = r.retry
           /\ Older(r).by = r.by
           /\ Older(r).age = IF r.by # NoWorker /\ r.age <= LockTimeout THEN r.age + 1 ELSE r.age
  BY DEF PendingRow, RunningRow, Older

(* What a flush stores is a row, whatever was loaded before. *)
LEMMA FlushedType ==
  ASSUME TypeOK, NEW w \in Workers, job[w] \in Jobs,
         NEW s \in Status, NEW r \in Nat, NEW d \in Int
  PROVE  Flushed(w, s, r, d) \in Row
  <1>1. row[job[w]] \in Row /\ seen[w] \in Snapshot
    BY DEF TypeOK
  <1> QED
    BY <1>1, NumbersAssumption DEF Flushed, Row, Snapshot

LEMMA FailedType ==
  ASSUME TypeOK, NEW w \in Workers, job[w] \in Jobs, NEW retryable \in BOOLEAN
  PROVE  Failed(w, retryable) \in Row
  <1>1. seen[w].retry + 1 \in Nat
    BY DEF TypeOK, Snapshot
  <1>2. RetryDelay(seen[w].retry + 1) \in Int
    BY <1>1, RetryDelayType
  <1>3. Flushed(w, "PENDING", seen[w].retry + 1, RetryDelay(seen[w].retry + 1)) \in Row
    BY <1>1, <1>2, FlushedType DEF Status
  <1>4. Flushed(w, "DEAD", seen[w].retry + 1, 0) \in Row
    BY <1>1, FlushedType DEF Status, Final
  <1> QED
    BY <1>3, <1>4 DEF Failed

-----------------------------------------------------------------------------
(* Type correctness *)

LEMMA TypeInit == Init => TypeOK
  BY AbsentType, NamesAssumption, NumbersAssumption
     DEF Init, TypeOK, Locations, Executing

(* Letting go of a row keeps the workers' variables well typed. *)
LEMMA LetGoType ==
  ASSUME TypeOK, NEW w \in Workers, NEW to \in {"idle", "down"}, LetGo(w, to)
  PROVE  /\ pc' \in [Workers -> Locations]
         /\ job' \in [Workers -> Jobs \cup {NoJob}]
         /\ \A v \in Workers : pc'[v] \in Executing \cup {"picked"} <=> job'[v] # NoJob
         /\ ran' \in [Workers -> 0..MaxRun]
         /\ seen' \in [Workers -> Snapshot]
         /\ work' \in [Workers -> {"none", "some", "all"}]
  BY AbsentType, NumbersAssumption DEF TypeOK, LetGo, Locations, Executing

(* A worker that is not between two jobs has a row. *)
LEMMA BusyHasJob ==
  ASSUME TypeOK, NEW w \in Workers, pc[w] \in Executing \cup {"picked"}
  PROVE  job[w] \in Jobs
  BY DEF TypeOK

LEMMA TypeStep == TypeOK /\ [Next]_vars => TypeOK'
  <1> SUFFICES ASSUME TypeOK, [Next]_vars PROVE TypeOK'
    OBVIOUS
  <1> USE NamesAssumption, NumbersAssumption
  <1>1. ASSUME NEW j \in Jobs, Enqueue(j) PROVE TypeOK'
    <2>3. row' \in [Jobs -> Row]
      BY <1>1, RowTypes DEF Enqueue, TypeOK
    <2> QED
      BY <1>1, <2>3 DEF Enqueue, TypeOK
  <1>2. ASSUME NEW w \in Workers, Pick(w) PROVE TypeOK'
    BY <1>2 DEF Pick, Due, TypeOK, Locations, Executing
  <1>3. ASSUME NEW w \in Workers, Claim(w) PROVE TypeOK'
    <2>1. job[w] \in Jobs
      BY <1>3, BusyHasJob DEF Claim
    <2>2. row[job[w]].retry \in Nat
      BY <2>1 DEF TypeOK, Row
    <2>3. row' \in [Jobs -> Row]
      BY <1>3, <2>1, <2>2, RowTypes DEF Claim, TypeOK
    <2> QED
      BY <1>3, <2>3 DEF Claim, TypeOK, Locations, Executing
  <1>4. ASSUME NEW w \in Workers, ClaimMissed(w) PROVE TypeOK'
    BY <1>4, LetGoType DEF ClaimMissed, TypeOK
  <1>5. ASSUME NEW w \in Workers, Load(w) PROVE TypeOK'
    <2>1. job[w] \in Jobs
      BY <1>5, BusyHasJob DEF Load, Executing
    <2>2. SnapshotOf(row[job[w]]) \in Snapshot
      BY <2>1, SnapshotType DEF TypeOK
    <2> QED
      BY <1>5, <2>2 DEF Load, TypeOK, Locations, Executing
  <1>6. ASSUME NEW w \in Workers, Progress(w) PROVE TypeOK'
    BY <1>6 DEF Progress, TypeOK
  <1>7. ASSUME NEW w \in Workers, Succeed(w) PROVE TypeOK'
    <2>1. job[w] \in Jobs
      BY <1>7, BusyHasJob DEF Succeed, Executing
    <2>2. Flushed(w, "SUCCEEDED", seen[w].retry, 0) \in Row
      BY <2>1, FlushedType DEF TypeOK, Snapshot, Status, Final
    <2>3. row' \in [Jobs -> Row]
      BY <1>7, <2>2 DEF Succeed, TypeOK
    <2>4. applied' \in [Jobs -> 0..2]
      BY <1>7, <2>1 DEF Succeed, TypeOK
    <2> QED
      BY <1>7, <2>3, <2>4, LetGoType DEF Succeed, TypeOK
  <1>8. ASSUME NEW w \in Workers, Defer(w) PROVE TypeOK'
    <2>1. job[w] \in Jobs
      BY <1>8, BusyHasJob DEF Defer, Executing
    <2>2. PICK d \in DeferDelays :
            row' = [row EXCEPT ![job[w]] = Flushed(w, "PENDING", seen[w].retry, d)]
      BY <1>8 DEF Defer
    <2>3. Flushed(w, "PENDING", seen[w].retry, d) \in Row
      BY <2>1, FlushedType DEF TypeOK, Snapshot, Status
    <2>4. row' \in [Jobs -> Row]
      BY <2>2, <2>3 DEF TypeOK
    <2>5. defers' \in 0..MaxDefers
      BY <1>8 DEF Defer, TypeOK
    <2> QED
      BY <1>8, <2>4, <2>5, LetGoType DEF Defer, TypeOK
  <1>9. ASSUME NEW w \in Workers, FailPermanently(w) PROVE TypeOK'
    <2>1. job[w] \in Jobs
      BY <1>9, BusyHasJob DEF FailPermanently, Executing
    <2>2. row' \in [Jobs -> Row]
      BY <1>9, <2>1, FailedType DEF FailPermanently, TypeOK
    <2>3. leftover' \subseteq Jobs /\ refused' \subseteq Jobs
      BY <1>9, <2>1 DEF FailPermanently, KeepsPartialWork, TypeOK
    <2>4. raised' \in [Jobs -> Nat]
      BY <1>9, <2>1 DEF FailPermanently, TypeOK
    <2> QED
      BY <1>9, <2>2, <2>3, <2>4, LetGoType DEF FailPermanently, TypeOK
  <1>10. ASSUME NEW w \in Workers, FailRetryably(w) PROVE TypeOK'
    <2>1. job[w] \in Jobs
      BY <1>10, BusyHasJob DEF FailRetryably, Executing
    <2>2. row' \in [Jobs -> Row]
      BY <1>10, <2>1, FailedType DEF FailRetryably, TypeOK
    <2>3. leftover' \subseteq Jobs /\ refused' \subseteq Jobs
      BY <1>10, <2>1 DEF FailRetryably, KeepsPartialWork, TypeOK
    <2>4. raised' \in [Jobs -> Nat]
      BY <1>10, <2>1 DEF FailRetryably, TypeOK
    <2> QED
      BY <1>10, <2>2, <2>3, <2>4, LetGoType DEF FailRetryably, TypeOK
  <1>11. ASSUME NEW w \in Workers, Raise(w) PROVE TypeOK'
    <2>1. job[w] \in Jobs
      BY <1>11, BusyHasJob DEF Raise, Executing
    <2>2. SnapshotOf(row[job[w]]) \in Snapshot
      BY <2>1, SnapshotType DEF TypeOK
    <2> QED
      BY <1>11, <2>1, <2>2 DEF Raise, TypeOK, Locations, Executing
  <1>12. ASSUME NEW w \in Workers, RecordFailure(w) PROVE TypeOK'
    <2>1. job[w] \in Jobs
      BY <1>12, BusyHasJob DEF RecordFailure, Executing
    <2>2. row' \in [Jobs -> Row]
      BY <1>12, <2>1, FailedType DEF RecordFailure, TypeOK
    <2> QED
      BY <1>12, <2>2, LetGoType DEF RecordFailure, TypeOK
  <1>13. ASSUME NEW w \in Workers, Exit(w) PROVE TypeOK'
    BY <1>13, LetGoType DEF Exit, TypeOK
  <1>14. ASSUME NEW w \in Workers, DatabaseError(w) PROVE TypeOK'
    BY <1>14, LetGoType DEF DatabaseError, TypeOK
  <1>15. ASSUME NEW w \in Workers, Crash(w) PROVE TypeOK'
    BY <1>15, LetGoType DEF Crash, TypeOK
  <1>16. ASSUME NEW w \in Workers, Stop(w) PROVE TypeOK'
    BY <1>16 DEF Stop, TypeOK
  <1>17. ASSUME NEW w \in Workers, Start(w) PROVE TypeOK'
    BY <1>17 DEF Start, TypeOK, Locations, Executing
  <1>18. CASE Reclaim
    <2>1. \A j \in Jobs : row[j].retry \in Nat
      BY DEF TypeOK, Row
    <2>2. row' \in [Jobs -> Row]
      BY <1>18, <2>1, RowTypes DEF Reclaim, TypeOK
    <2> QED
      BY <1>18, <2>2 DEF Reclaim, TypeOK
  <1>19. CASE Tick
    <2>1. row' \in [Jobs -> Row]
      BY <1>19, RowTypes DEF Tick, TypeOK
    <2>2. ran' \in [Workers -> 0..MaxRun]
      <3>1. ASSUME NEW w \in Workers
            PROVE  (IF pc[w] \in Executing THEN ran[w] + 1 ELSE ran[w]) \in 0..MaxRun
        <4>1. ran[w] \in 0..MaxRun /\ (pc[w] \in Executing => ran[w] < MaxRun)
          BY <1>19 DEF Tick, TypeOK
        <4> QED
          BY <4>1
      <3> QED
        BY <1>19, <3>1 DEF Tick
    <2> QED
      BY <1>19, <2>1, <2>2 DEF Tick, TypeOK
  <1>20. CASE UNCHANGED vars
    BY <1>20 DEF vars, TypeOK
  <1> QED
    BY <1>1, <1>2, <1>3, <1>4, <1>5, <1>6, <1>7, <1>8, <1>9, <1>10, <1>11, <1>12,
       <1>13, <1>14, <1>15, <1>16, <1>17, <1>18, <1>19, <1>20
       DEF Next, Step

(* The rows, the workers and the histories keep their types. *)
THEOREM TypeCorrect == Spec => []TypeOK
  BY TypeInit, TypeStep, PTL DEF Spec

-----------------------------------------------------------------------------
(* The inductive invariant.  OneExecutor and FinalIsFinal are not          *)
(* inductive: a second worker would come by a job through a reclaim, which *)
(* looks only at the age of the lock.  HolderOwnsRow ties that age to the  *)
(* worker's own run, and the bound on runs does the rest.                  *)

(* RUNNING rows are the locked ones. *)
LockedIsRunning == \A j \in Jobs : row[j].status = "RUNNING" <=> row[j].by # NoWorker

(* The failure that is about to be recorded was raised. *)
RecoveryIsDue ==
    \A w \in Workers : pc[w] = "recovering" => row[job[w]].retry < raised[job[w]]

(* Without faults the locker of a row is executing it. *)
LockerExecutes ==
    faults = 0 => \A j \in Jobs : row[j].status = "RUNNING" =>
                      pc[row[j].by] \in Executing /\ job[row[j].by] = j

Inv == /\ TypeOK /\ HolderOwnsRow /\ LockedIsRunning /\ DoneOnce
       /\ NeverOvercharged /\ RecoveryIsDue /\ LockerExecutes

(* Attempts end before their lock times out. *)
Timely == MaxRun <= LockTimeout

LEMMA InvInit == Init => Inv
  <1> SUFFICES ASSUME Init PROVE Inv
    OBVIOUS
  <1>1. TypeOK
    BY TypeInit
  <1>2. \A w \in Workers : pc[w] = "idle"
    BY DEF Init
  <1>3. \A j \in Jobs : row[j] = AbsentRow /\ applied[j] = 0 /\ raised[j] = 0
    BY DEF Init
  <1> QED
    BY <1>1, <1>2, <1>3
       DEF Inv, HolderOwnsRow, LockedIsRunning, DoneOnce, NeverOvercharged, RecoveryIsDue,
           LockerExecutes, AbsentRow, Executing

(* Two workers that hold one row are the same worker. *)
LEMMA HoldersAgree ==
  ASSUME HolderOwnsRow, NEW v \in Workers, NEW w \in Workers,
         pc[v] \in Executing, pc[w] \in Executing, job[v] = job[w]
  PROVE  v = w
  BY DEF HolderOwnsRow

(* A worker whose row is its own writes the outcome it means to write. *)
LEMMA FlushedOutcome ==
  ASSUME Inv, NEW w \in Workers, pc[w] \in {"working", "recovering"},
         NEW s \in {"PENDING", "SUCCEEDED", "DEAD"}, NEW r \in Nat, NEW d \in Int
  PROVE  /\ Flushed(w, s, r, d).status = s
         /\ Flushed(w, s, r, d).retry = r
         /\ Flushed(w, s, r, d).by = NoWorker
  <1>1. /\ row[job[w]].status = "RUNNING"
        /\ row[job[w]].by # NoWorker
        /\ seen[w] = SnapshotOf(row[job[w]])
    BY NamesAssumption DEF Inv, HolderOwnsRow, Executing
  <1>2. /\ seen[w].status = "RUNNING"
        /\ seen[w].retry = row[job[w]].retry
        /\ seen[w].by # NoWorker
    BY <1>1 DEF SnapshotOf
  <1> QED
    BY <1>1, <1>2 DEF Flushed

LEMMA FailedOutcome ==
  ASSUME Inv, NEW w \in Workers, pc[w] \in {"working", "recovering"},
         NEW retryable \in BOOLEAN
  PROVE  /\ Failed(w, retryable).status =
              IF retryable /\ row[job[w]].retry + 1 <= MaxRetries THEN "PENDING" ELSE "DEAD"
         /\ Failed(w, retryable).retry = row[job[w]].retry + 1
         /\ Failed(w, retryable).by = NoWorker
  <1>1. job[w] \in Jobs
    BY BusyHasJob DEF Inv, Executing
  <1>2. /\ seen[w].retry = row[job[w]].retry
        /\ seen[w].retry + 1 \in Nat
    BY <1>1 DEF Inv, HolderOwnsRow, SnapshotOf, TypeOK, Row
  <1>3. RetryDelay(seen[w].retry + 1) \in Int
    BY <1>2, RetryDelayType
  <1> QED
    BY <1>2, <1>3, FlushedOutcome DEF Failed

(* The end of an attempt, whatever its outcome, disturbs no other worker. *)
LEMMA EndOfAttempt ==
  ASSUME Inv, TypeOK', NEW w \in Workers, pc[w] \in Executing,
         NEW r, r.by = NoWorker, r.status \in {"PENDING", "SUCCEEDED", "DEAD"},
         row' = [row EXCEPT ![job[w]] = r], LetGo(w, "idle"), UNCHANGED faults
  PROVE  /\ HolderOwnsRow' /\ LockedIsRunning' /\ LockerExecutes'
         /\ \A v \in Workers : pc'[v] = "recovering" =>
                pc[v] = "recovering" /\ job'[v] = job[v] /\ job[v] # job[w]
  <1>1. job[w] \in Jobs
    BY BusyHasJob DEF Inv
  <1>2. ASSUME NEW v \in Workers, v # w
        PROVE  /\ pc'[v] = pc[v] /\ job'[v] = job[v] /\ ran'[v] = ran[v] /\ seen'[v] = seen[v]
               /\ pc[v] \in Executing => job[v] \in Jobs /\ job[v] # job[w]
               /\ pc[v] \in Executing => row'[job[v]] = row[job[v]]
    <2>1. pc'[v] = pc[v] /\ job'[v] = job[v] /\ ran'[v] = ran[v] /\ seen'[v] = seen[v]
      BY <1>2 DEF LetGo, Inv, TypeOK
    <2>2. pc[v] \in Executing => job[v] \in Jobs /\ job[v] # job[w]
      BY <1>2, HoldersAgree, BusyHasJob DEF Inv
    <2> QED
      BY <2>1, <2>2 DEF Inv, TypeOK
  <1>3. pc'[w] = "idle"
    BY DEF LetGo, Inv, TypeOK
  <1>4. HolderOwnsRow'
    BY <1>2, <1>3 DEF Inv, HolderOwnsRow, Executing
  <1>5. \A j \in Jobs : row'[j] = IF j = job[w] THEN r ELSE row[j]
    BY <1>1 DEF Inv, TypeOK
  <1>6. LockedIsRunning'
    BY <1>5 DEF Inv, LockedIsRunning
  <1>7. LockerExecutes'
    <2> SUFFICES ASSUME faults = 0, NEW j \in Jobs, row'[j].status = "RUNNING"
                 PROVE  pc'[row'[j].by] \in Executing /\ job'[row'[j].by] = j
      BY DEF LockerExecutes
    <2>1. row'[j] = row[j] /\ j # job[w]
      BY <1>5
    <2>2. /\ pc[row[j].by] \in Executing /\ job[row[j].by] = j
          /\ row[j].by \in Workers
      BY <2>1 DEF Inv, LockerExecutes, LockedIsRunning, TypeOK, Row
    <2> QED
      BY <1>2, <2>1, <2>2
  <1> QED
    BY <1>2, <1>3, <1>4, <1>6, <1>7 DEF Executing

(* A worker that drops its row without a word disturbs nobody. *)
LEMMA Disappearance ==
  ASSUME Inv, TypeOK', NEW w \in Workers, NEW to \in {"idle", "down"}, LetGo(w, to),
         UNCHANGED <<row, applied, raised, refused>>,
         faults' = 0 => pc[w] \notin Executing /\ faults' = faults
  PROVE  Inv'
  <1>1. pc'[w] = to /\ \A v \in Workers \ {w} :
            pc'[v] = pc[v] /\ job'[v] = job[v] /\ ran'[v] = ran[v] /\ seen'[v] = seen[v]
    BY DEF LetGo, Inv, TypeOK
  <1>2. HolderOwnsRow'
    BY <1>1 DEF Inv, HolderOwnsRow, Executing
  <1>3. LockedIsRunning' /\ DoneOnce' /\ NeverOvercharged'
    BY DEF Inv, LockedIsRunning, DoneOnce, NeverOvercharged
  <1>4. RecoveryIsDue'
    BY <1>1 DEF Inv, RecoveryIsDue
  <1>5. LockerExecutes'
    <2> SUFFICES ASSUME faults' = 0, NEW j \in Jobs, row[j].status = "RUNNING"
                 PROVE  pc'[row[j].by] \in Executing /\ job'[row[j].by] = j
      BY DEF LockerExecutes
    <2>1. /\ pc[row[j].by] \in Executing /\ job[row[j].by] = j
          /\ row[j].by \in Workers
      BY DEF Inv, LockerExecutes, LockedIsRunning, TypeOK, Row
    <2> QED
      BY <1>1, <2>1
  <1> QED
    BY <1>2, <1>3, <1>4, <1>5 DEF Inv

(* An attempt that fails or is deferred: what the row is charged is owed. *)
LEMMA EndWithoutSuccess ==
  ASSUME Inv, TypeOK', NEW w \in Workers, pc[w] \in {"working", "recovering"},
         NEW r, r.by = NoWorker, r.status \in {"PENDING", "DEAD"},
         row' = [row EXCEPT ![job[w]] = r], LetGo(w, "idle"), UNCHANGED <<faults, applied>>,
         \A j \in Jobs : raised[j] <= raised'[j], refused \subseteq refused',
         r.retry <= raised'[job[w]],
         r.status = "DEAD" => job[w] \in refused' \/ raised'[job[w]] > MaxRetries
  PROVE  Inv'
  <1>1. job[w] \in Jobs /\ row[job[w]].status = "RUNNING"
    BY BusyHasJob DEF Inv, HolderOwnsRow, Executing
  <1>2. /\ HolderOwnsRow' /\ LockedIsRunning' /\ LockerExecutes'
        /\ \A v \in Workers : pc'[v] = "recovering" =>
               pc[v] = "recovering" /\ job'[v] = job[v] /\ job[v] # job[w]
    BY EndOfAttempt DEF Executing
  <1>3. \A j \in Jobs : row'[j] = IF j = job[w] THEN r ELSE row[j]
    BY <1>1 DEF Inv, TypeOK
  <1>4. \A j \in Jobs : raised[j] \in Nat /\ raised'[j] \in Nat /\ row[j].retry \in Nat
    BY DEF Inv, TypeOK, Row
  <1>5. DoneOnce'
    BY <1>1, <1>3 DEF Inv, DoneOnce
  <1>6. NeverOvercharged'
    BY <1>3, <1>4, NumbersAssumption DEF Inv, NeverOvercharged
  <1>7. RecoveryIsDue'
    <2> SUFFICES ASSUME NEW v \in Workers, pc'[v] = "recovering"
                 PROVE  row'[job'[v]].retry < raised'[job'[v]]
      BY DEF RecoveryIsDue
    <2>1. /\ pc[v] = "recovering" /\ job'[v] = job[v] /\ job[v] # job[w]
          /\ job[v] \in Jobs
      BY <1>2, BusyHasJob DEF Inv, Executing
    <2> QED
      BY <2>1, <1>3, <1>4 DEF Inv, RecoveryIsDue
  <1> QED
    BY <1>2, <1>5, <1>6, <1>7 DEF Inv

LEMMA InvStep ==
  ASSUME Timely
  PROVE  Inv /\ [Next]_vars => Inv'
  <1> SUFFICES ASSUME Inv, [Next]_vars PROVE Inv'
    OBVIOUS
  <1>0. TypeOK /\ TypeOK'
    BY TypeStep DEF Inv
  <1>1. ASSUME NEW j \in Jobs, Enqueue(j) PROVE Inv'
    <2>1. PICK d \in EnqueueDelays : row' = [row EXCEPT ![j] = PendingRow(0, d)]
      BY <1>1 DEF Enqueue
    <2>2. \A k \in Jobs : k # j => row'[k] = row[k]
      BY <2>1, <1>0 DEF TypeOK
    <2>3. row'[j].status = "PENDING" /\ row'[j].retry = 0 /\ row'[j].by = NoWorker
      BY <2>1, <1>0 DEF TypeOK, PendingRow
    <2>4. \A w \in Workers : pc[w] \in Executing => job[w] \in Jobs /\ job[w] # j
      BY <1>0, <1>1, BusyHasJob DEF Enqueue, Inv, HolderOwnsRow
    <2>5. UNCHANGED <<pc, job, ran, seen, applied, raised, refused, faults>>
      BY <1>1 DEF Enqueue
    <2>6. HolderOwnsRow' /\ RecoveryIsDue'
      BY <2>2, <2>4, <2>5 DEF Inv, HolderOwnsRow, RecoveryIsDue, Executing
    <2>7. LockedIsRunning' /\ LockerExecutes'
      BY <2>2, <2>3, <2>5 DEF Inv, LockedIsRunning, LockerExecutes
    <2>8. applied[j] = 0 /\ raised[j] \in Nat
      BY <1>0, <1>1 DEF Enqueue, Inv, DoneOnce, TypeOK
    <2>9. DoneOnce' /\ NeverOvercharged'
      BY <2>2, <2>3, <2>5, <2>8 DEF Inv, DoneOnce, NeverOvercharged
    <2> QED
      BY <1>0, <2>6, <2>7, <2>9 DEF Inv
  <1>2. ASSUME NEW w \in Workers, Pick(w) PROVE Inv'
    <2>1. /\ UNCHANGED <<row, ran, seen, applied, raised, refused, faults>>
          /\ pc[w] = "idle" /\ pc'[w] = "picked"
          /\ \A v \in Workers \ {w} : pc'[v] = pc[v] /\ job'[v] = job[v]
      BY <1>0, <1>2 DEF Pick, TypeOK
    <2>2. HolderOwnsRow' /\ RecoveryIsDue'
      BY <2>1 DEF Inv, HolderOwnsRow, RecoveryIsDue, Executing
    <2>3. LockedIsRunning' /\ DoneOnce' /\ NeverOvercharged'
      BY <2>1 DEF Inv, LockedIsRunning, DoneOnce, NeverOvercharged
    <2>4. LockerExecutes'
      BY <1>0, <2>1 DEF Inv, LockerExecutes, LockedIsRunning, Executing, TypeOK, Row
    <2> QED
      BY <1>0, <2>2, <2>3, <2>4 DEF Inv
  <1>3. ASSUME NEW w \in Workers, Claim(w) PROVE Inv'
    <2>1. job[w] \in Jobs /\ pc[w] = "picked" /\ row[job[w]].status = "PENDING"
      BY <1>0, <1>3, BusyHasJob DEF Claim
    <2>2. \A j \in Jobs : row'[j] = IF j = job[w] THEN RunningRow(row[j].retry, w) ELSE row[j]
      BY <1>0, <1>3, <2>1 DEF Claim, TypeOK
    <2>3. /\ UNCHANGED <<job, seen, applied, raised, refused, faults>>
          /\ pc'[w] = "claimed" /\ ran'[w] = 0
          /\ \A v \in Workers \ {w} : pc'[v] = pc[v] /\ ran'[v] = ran[v]
      BY <1>0, <1>3 DEF Claim, TypeOK
    <2>4. \A v \in Workers : pc[v] \in Executing => job[v] \in Jobs /\ job[v] # job[w]
      BY <1>0, <2>1, BusyHasJob DEF Inv, HolderOwnsRow
    <2>5. HolderOwnsRow'
      <3> SUFFICES ASSUME NEW v \in Workers
                   PROVE  /\ pc'[v] \in Executing =>
                                /\ row'[job[v]].status = "RUNNING"
                                /\ row'[job[v]].by = v /\ row'[job[v]].age = ran'[v]
                          /\ pc'[v] \in {"working", "recovering"} =>
                                seen[v] = SnapshotOf(row'[job[v]])
        BY <2>3 DEF HolderOwnsRow, Executing
      <3>1. CASE v = w
        BY <2>1, <2>2, <2>3, <3>1, RowFields DEF Executing
      <3>2. CASE v # w
        <4>1. pc[v] \in Executing => row'[job[v]] = row[job[v]]
          BY <2>2, <2>4
        <4> QED
          BY <2>3, <3>2, <4>1 DEF Inv, HolderOwnsRow, Executing
      <3> QED
        BY <3>1, <3>2
    <2>6. RecoveryIsDue'
      BY <2>2, <2>3, <2>4 DEF Inv, RecoveryIsDue, Executing
    <2>7. LockedIsRunning' /\ DoneOnce' /\ NeverOvercharged'
      <3>1. w # NoWorker
        BY NamesAssumption
      <3>2. \A j \in Jobs :
               /\ row'[j].retry = row[j].retry
               /\ j # job[w] => row'[j] = row[j]
               /\ j = job[w] => row'[j].status = "RUNNING" /\ row'[j].by = w
        BY <2>2, RowFields
      <3>3. LockedIsRunning'
        BY <3>1, <3>2 DEF Inv, LockedIsRunning
      <3>4. DoneOnce'
        BY <2>1, <2>3, <3>2 DEF Inv, DoneOnce
      <3>5. NeverOvercharged'
        BY <2>3, <3>2 DEF Inv, NeverOvercharged
      <3> QED
        BY <3>3, <3>4, <3>5
    <2>8. LockerExecutes'
      <3> SUFFICES ASSUME faults = 0, NEW j \in Jobs, row'[j].status = "RUNNING"
                   PROVE  pc'[row'[j].by] \in Executing /\ job[row'[j].by] = j
        BY <2>3 DEF LockerExecutes
      <3>1. CASE j = job[w]
        BY <2>2, <2>3, <3>1, RowFields DEF Executing
      <3>2. CASE j # job[w]
        <4>1. /\ row'[j] = row[j] /\ row[j].by \in Workers
              /\ pc[row[j].by] \in Executing /\ job[row[j].by] = j
          BY <1>0, <2>2, <3>2 DEF Inv, LockerExecutes, LockedIsRunning, TypeOK, Row
        <4> QED
          BY <2>3, <3>2, <4>1
      <3> QED
        BY <3>1, <3>2
    <2> QED
      BY <1>0, <2>5, <2>6, <2>7, <2>8 DEF Inv
  <1>4. ASSUME NEW w \in Workers, ClaimMissed(w) PROVE Inv'
    BY <1>0, <1>4, Disappearance DEF ClaimMissed, Executing
  <1>5. ASSUME NEW w \in Workers, Load(w) PROVE Inv'
    <2>1. /\ UNCHANGED <<row, job, ran, applied, raised, refused, faults>>
          /\ pc[w] = "claimed" /\ pc'[w] = "working" /\ seen'[w] = SnapshotOf(row[job[w]])
          /\ \A v \in Workers \ {w} : pc'[v] = pc[v] /\ seen'[v] = seen[v]
      BY <1>0, <1>5 DEF Load, TypeOK
    <2>2. HolderOwnsRow' /\ RecoveryIsDue'
      BY <2>1 DEF Inv, HolderOwnsRow, RecoveryIsDue, Executing
    <2>3. LockedIsRunning' /\ DoneOnce' /\ NeverOvercharged'
      BY <2>1 DEF Inv, LockedIsRunning, DoneOnce, NeverOvercharged
    <2>4. LockerExecutes'
      BY <1>0, <2>1 DEF Inv, LockerExecutes, LockedIsRunning, Executing, TypeOK, Row
    <2> QED
      BY <1>0, <2>2, <2>3, <2>4 DEF Inv
  <1>6. ASSUME NEW w \in Workers, Progress(w) PROVE Inv'
    <2>1. UNCHANGED <<row, pc, job, ran, seen, applied, raised, refused, faults>>
      BY <1>6 DEF Progress
    <2> QED
      BY <1>0, <2>1 DEF Inv, HolderOwnsRow, LockedIsRunning, DoneOnce, NeverOvercharged,
                        RecoveryIsDue, LockerExecutes
  <1>7. ASSUME NEW w \in Workers, Succeed(w) PROVE Inv'
    <2> DEFINE r == Flushed(w, "SUCCEEDED", seen[w].retry, 0)
    <2>1. /\ job[w] \in Jobs /\ pc[w] = "working"
          /\ row[job[w]].status = "RUNNING" /\ seen[w] = SnapshotOf(row[job[w]])
      BY <1>0, <1>7, BusyHasJob DEF Succeed, Executing, Inv, HolderOwnsRow
    <2>2. seen[w].retry = row[job[w]].retry /\ row[job[w]].retry \in Nat
      BY <1>0, <2>1 DEF SnapshotOf, TypeOK, Row
    <2>3. r.status = "SUCCEEDED" /\ r.retry = row[job[w]].retry /\ r.by = NoWorker
      <3>1. pc[w] \in {"working", "recovering"}
        BY <2>1
      <3>2. /\ Flushed(w, "SUCCEEDED", row[job[w]].retry, 0).status = "SUCCEEDED"
            /\ Flushed(w, "SUCCEEDED", row[job[w]].retry, 0).retry = row[job[w]].retry
            /\ Flushed(w, "SUCCEEDED", row[job[w]].retry, 0).by = NoWorker
        BY <2>2, <3>1, FlushedOutcome
      <3> QED
        BY <2>2, <3>2
    <2>4. /\ row' = [row EXCEPT ![job[w]] = r] /\ LetGo(w, "idle")
          /\ UNCHANGED <<raised, refused, faults>>
      BY <1>7 DEF Succeed
    <2> HIDE DEF r
    <2>5. /\ HolderOwnsRow' /\ LockedIsRunning' /\ LockerExecutes'
          /\ \A v \in Workers : pc'[v] = "recovering" =>
                 pc[v] = "recovering" /\ job'[v] = job[v] /\ job[v] # job[w]
      BY <1>0, <2>1, <2>3, <2>4, EndOfAttempt DEF Executing
    <2>6. \A j \in Jobs : row'[j] = IF j = job[w] THEN r ELSE row[j]
      BY <1>0, <2>1, <2>4 DEF TypeOK
    <2>7. applied[job[w]] = 0
      BY <2>1 DEF Inv, DoneOnce
    <2>8. DoneOnce'
      BY <1>0, <1>7, <2>1, <2>3, <2>6, <2>7 DEF Inv, DoneOnce, Succeed, TypeOK
    <2>9. NeverOvercharged'
      BY <2>3, <2>4, <2>6 DEF Inv, NeverOvercharged
    <2>10. RecoveryIsDue'
      BY <1>0, <2>4, <2>5, <2>6, BusyHasJob DEF Inv, RecoveryIsDue, Executing
    <2> QED
      BY <1>0, <2>5, <2>8, <2>9, <2>10 DEF Inv
  <1>8. ASSUME NEW w \in Workers, Defer(w) PROVE Inv'
    <2>1. PICK d \in DeferDelays :
            row' = [row EXCEPT ![job[w]] = Flushed(w, "PENDING", seen[w].retry, d)]
      BY <1>8 DEF Defer
    <2> DEFINE r == Flushed(w, "PENDING", seen[w].retry, d)
    <2>2. /\ job[w] \in Jobs /\ pc[w] = "working" /\ seen[w] = SnapshotOf(row[job[w]])
      BY <1>0, <1>8, BusyHasJob DEF Defer, Executing, Inv, HolderOwnsRow
    <2>3. seen[w].retry = row[job[w]].retry /\ row[job[w]].retry \in Nat
      BY <1>0, <2>2 DEF SnapshotOf, TypeOK, Row
    <2>4. r.status = "PENDING" /\ r.retry = row[job[w]].retry /\ r.by = NoWorker
      <3>1. d \in Int
        BY NumbersAssumption
      <3> QED
        BY <2>2, <2>3, <3>1, FlushedOutcome
    <2>5. row[job[w]].retry <= raised[job[w]] /\ \A j \in Jobs : raised[j] \in Nat
      BY <1>0, <2>2 DEF Inv, NeverOvercharged, TypeOK
    <2>6. LetGo(w, "idle") /\ UNCHANGED <<applied, raised, refused, faults>>
      BY <1>8 DEF Defer
    <2>7. row' = [row EXCEPT ![job[w]] = r]
      BY <2>1
    <2> HIDE DEF r
    <2>8. r.retry <= raised'[job[w]] /\ \A j \in Jobs : raised[j] <= raised'[j]
      BY <2>4, <2>5, <2>6
    <2> QED
      BY <1>0, <2>2, <2>4, <2>6, <2>7, <2>8, EndWithoutSuccess
  <1>9. ASSUME NEW w \in Workers, FailPermanently(w) PROVE Inv'
    <2>1. job[w] \in Jobs /\ pc[w] = "working"
      BY <1>0, <1>9, BusyHasJob DEF FailPermanently, Executing
    <2> DEFINE r == Failed(w, FALSE)
    <2>2. /\ r.status = "DEAD" /\ r.by = NoWorker
          /\ r.retry = row[job[w]].retry + 1
      BY <2>1, FailedOutcome
    <2>3. /\ \A j \in Jobs : raised[j] <= raised'[j]
          /\ raised'[job[w]] = raised[job[w]] + 1
          /\ refused' = refused \cup {job[w]}
      BY <1>0, <1>9, <2>1 DEF FailPermanently, TypeOK
    <2>4. row[job[w]].retry <= raised[job[w]] /\ row[job[w]].retry \in Nat /\ raised[job[w]] \in Nat
      BY <1>0, <2>1 DEF Inv, NeverOvercharged, TypeOK, Row
    <2>6. /\ row' = [row EXCEPT ![job[w]] = r] /\ LetGo(w, "idle")
          /\ UNCHANGED <<applied, faults>>
      BY <1>9 DEF FailPermanently
    <2> HIDE DEF r
    <2>5. r.retry <= raised'[job[w]]
      BY <2>2, <2>3, <2>4, Bounds
    <2> QED
      BY <1>0, <2>1, <2>2, <2>3, <2>5, <2>6, EndWithoutSuccess
  <1>10. ASSUME NEW w \in Workers, FailRetryably(w) PROVE Inv'
    <2>1. job[w] \in Jobs /\ pc[w] = "working"
      BY <1>0, <1>10, BusyHasJob DEF FailRetryably, Executing
    <2> DEFINE r == Failed(w, TRUE)
    <2>2. /\ r.status =
                IF row[job[w]].retry + 1 <= MaxRetries THEN "PENDING" ELSE "DEAD"
          /\ r.by = NoWorker
          /\ r.retry = row[job[w]].retry + 1
      BY <2>1, FailedOutcome
    <2>3. /\ \A j \in Jobs : raised[j] <= raised'[j]
          /\ raised'[job[w]] = raised[job[w]] + 1
          /\ refused' = refused
      BY <1>0, <1>10, <2>1 DEF FailRetryably, TypeOK
    <2>4. row[job[w]].retry <= raised[job[w]] /\ row[job[w]].retry \in Nat /\ raised[job[w]] \in Nat
      BY <1>0, <2>1 DEF Inv, NeverOvercharged, TypeOK, Row
    <2>6. /\ row' = [row EXCEPT ![job[w]] = r] /\ LetGo(w, "idle")
          /\ UNCHANGED <<applied, faults>>
      BY <1>10 DEF FailRetryably
    <2> HIDE DEF r
    <2>5. /\ r.retry <= raised'[job[w]]
          /\ r.status = "DEAD" => raised'[job[w]] > MaxRetries
          /\ r.status \in {"PENDING", "DEAD"}
      BY <2>2, <2>3, <2>4, Bounds
    <2> QED
      BY <1>0, <2>1, <2>2, <2>3, <2>5, <2>6, EndWithoutSuccess
  <1>11. ASSUME NEW w \in Workers, Raise(w) PROVE Inv'
    <2>1. job[w] \in Jobs /\ pc[w] = "working"
      BY <1>0, <1>11, BusyHasJob DEF Raise, Executing
    <2>2. /\ UNCHANGED <<row, job, ran, applied, refused, faults>>
          /\ pc'[w] = "recovering" /\ seen'[w] = SnapshotOf(row[job[w]])
          /\ \A v \in Workers \ {w} : pc'[v] = pc[v] /\ seen'[v] = seen[v]
          /\ \A j \in Jobs : raised'[j] = IF j = job[w] THEN raised[j] + 1 ELSE raised[j]
      BY <1>0, <1>11, <2>1 DEF Raise, TypeOK
    <2>3. HolderOwnsRow'
      BY <2>1, <2>2 DEF Inv, HolderOwnsRow, Executing
    <2>4. LockedIsRunning' /\ DoneOnce'
      BY <2>2 DEF Inv, LockedIsRunning, DoneOnce
    <2>5. \A j \in Jobs : raised[j] \in Nat /\ row[j].retry \in Nat
      BY <1>0 DEF TypeOK, Row
    <2>6. NeverOvercharged'
      BY <2>2, <2>5, Bounds DEF Inv, NeverOvercharged
    <2>7. RecoveryIsDue'
      <3> SUFFICES ASSUME NEW v \in Workers, pc'[v] = "recovering"
                   PROVE  row[job[v]].retry < raised'[job[v]]
        BY <2>2 DEF RecoveryIsDue
      <3>1. CASE v = w
        BY <2>1, <2>2, <2>5, <3>1 DEF Inv, NeverOvercharged
      <3>2. CASE v # w
        <4>1. pc[v] = "recovering" /\ job[v] \in Jobs
          BY <1>0, <2>2, <3>2, BusyHasJob DEF Executing
        <4> QED
          BY <2>2, <2>5, <4>1 DEF Inv, RecoveryIsDue
      <3> QED
        BY <3>1, <3>2
    <2>8. LockerExecutes'
      BY <1>0, <2>1, <2>2 DEF Inv, LockerExecutes, LockedIsRunning, Executing, TypeOK, Row
    <2> QED
      BY <1>0, <2>3, <2>4, <2>6, <2>7, <2>8 DEF Inv
  <1>12. ASSUME NEW w \in Workers, RecordFailure(w) PROVE Inv'
    <2>1. job[w] \in Jobs /\ pc[w] = "recovering"
      BY <1>0, <1>12, BusyHasJob DEF RecordFailure, Executing
    <2> DEFINE r == Failed(w, TRUE)
    <2>2. /\ r.status =
                IF row[job[w]].retry + 1 <= MaxRetries THEN "PENDING" ELSE "DEAD"
          /\ r.by = NoWorker
          /\ r.retry = row[job[w]].retry + 1
      BY <2>1, FailedOutcome
    <2>3. /\ row[job[w]].retry < raised[job[w]]
          /\ row[job[w]].retry \in Nat /\ \A j \in Jobs : raised[j] \in Nat
      BY <1>0, <2>1 DEF Inv, RecoveryIsDue, TypeOK, Row
    <2>6. /\ row' = [row EXCEPT ![job[w]] = r] /\ LetGo(w, "idle")
          /\ UNCHANGED <<applied, faults, raised, refused>>
      BY <1>12 DEF RecordFailure
    <2> HIDE DEF r
    <2>4. /\ r.retry <= raised[job[w]]
          /\ r.status = "DEAD" => raised[job[w]] > MaxRetries
          /\ r.status \in {"PENDING", "DEAD"}
      BY <2>1, <2>2, <2>3, Bounds
    <2>5. /\ refused \subseteq refused' /\ \A j \in Jobs : raised[j] <= raised'[j]
          /\ r.retry <= raised'[job[w]]
          /\ r.status = "DEAD" => raised'[job[w]] > MaxRetries
      BY <2>3, <2>4, <2>6
    <2> QED
      BY <1>0, <2>1, <2>2, <2>4, <2>5, <2>6, EndWithoutSuccess
  <1>13. ASSUME NEW w \in Workers, Exit(w) PROVE Inv'
    BY <1>0, <1>13, Disappearance DEF Exit, Executing
  <1>14. ASSUME NEW w \in Workers, DatabaseError(w) PROVE Inv'
    <2>1. faults' # 0
      BY <1>0, <1>14, Bounds DEF DatabaseError, TypeOK
    <2>2. LetGo(w, "idle") /\ UNCHANGED <<row, applied, raised, refused>>
      BY <1>14 DEF DatabaseError
    <2> QED
      BY <1>0, <2>1, <2>2, Disappearance
  <1>15. ASSUME NEW w \in Workers, Crash(w) PROVE Inv'
    <2>1. faults' # 0
      BY <1>0, <1>15, Bounds DEF Crash, TypeOK
    <2>2. LetGo(w, "down") /\ UNCHANGED <<row, applied, raised, refused>>
      BY <1>15 DEF Crash
    <2> QED
      BY <1>0, <2>1, <2>2, Disappearance
  <1>16. ASSUME NEW w \in Workers, Stop(w) PROVE Inv'
    <2>1. UNCHANGED <<row, pc, job, ran, seen, applied, raised, refused, faults>>
      BY <1>16 DEF Stop
    <2> QED
      BY <1>0, <2>1 DEF Inv, HolderOwnsRow, LockedIsRunning, DoneOnce, NeverOvercharged,
                        RecoveryIsDue, LockerExecutes
  <1>17. ASSUME NEW w \in Workers, Start(w) PROVE Inv'
    <2>1. /\ UNCHANGED <<row, job, ran, seen, applied, raised, refused, faults>>
          /\ pc[w] = "down" /\ pc'[w] = "idle"
          /\ \A v \in Workers \ {w} : pc'[v] = pc[v]
      BY <1>0, <1>17 DEF Start, TypeOK
    <2>2. HolderOwnsRow' /\ RecoveryIsDue'
      BY <2>1 DEF Inv, HolderOwnsRow, RecoveryIsDue, Executing
    <2>3. LockedIsRunning' /\ DoneOnce' /\ NeverOvercharged'
      BY <2>1 DEF Inv, LockedIsRunning, DoneOnce, NeverOvercharged
    <2>4. LockerExecutes'
      BY <1>0, <2>1 DEF Inv, LockerExecutes, LockedIsRunning, Executing, TypeOK, Row
    <2> QED
      BY <1>0, <2>2, <2>3, <2>4 DEF Inv
  <1>18. CASE Reclaim
    <2>1. \A j \in Jobs : row'[j] = IF j \in Abandoned THEN PendingRow(row[j].retry, 0) ELSE row[j]
      BY <1>18 DEF Reclaim
    <2>2. UNCHANGED <<pc, job, ran, seen, applied, raised, refused, faults>>
      BY <1>18 DEF Reclaim
    <2>3. \A w \in Workers : pc[w] \in Executing => job[w] \in Jobs /\ job[w] \notin Abandoned
      <3> SUFFICES ASSUME NEW w \in Workers, pc[w] \in Executing
                   PROVE  job[w] \in Jobs /\ job[w] \notin Abandoned
        OBVIOUS
      <3>1. row[job[w]].age <= LockTimeout
        BY <1>0, Bounds DEF Inv, HolderOwnsRow, TypeOK, Timely
      <3>2. job[w] \in Jobs /\ row[job[w]].age \in Nat
        BY <1>0, BusyHasJob DEF TypeOK, Row
      <3> QED
        BY <3>1, <3>2, Bounds DEF Abandoned
    <2>4. HolderOwnsRow'
      BY <2>1, <2>2, <2>3 DEF Inv, HolderOwnsRow, Executing
    <2>5. RecoveryIsDue'
      BY <2>1, <2>2, <2>3 DEF Inv, RecoveryIsDue, Executing
    <2>6. LockedIsRunning' /\ DoneOnce' /\ NeverOvercharged'
      BY <2>1, <2>2, RowFields DEF Inv, LockedIsRunning, DoneOnce, NeverOvercharged, Abandoned
    <2>7. LockerExecutes'
      BY <2>1, <2>2, RowFields DEF Inv, LockerExecutes
    <2> QED
      BY <1>0, <2>4, <2>5, <2>6, <2>7 DEF Inv
  <1>19. CASE Tick
    <2>1. /\ \A j \in Jobs : row'[j] = Older(row[j])
          /\ \A w \in Workers : pc[w] \in Executing => ran'[w] = ran[w] + 1 /\ ran[w] < MaxRun
          /\ UNCHANGED <<pc, job, seen, applied, raised, refused, faults>>
      BY <1>19 DEF Tick
    <2>2. \A j \in Jobs : /\ row'[j].status = row[j].status
                          /\ row'[j].retry = row[j].retry
                          /\ row'[j].by = row[j].by
                          /\ row[j].by # NoWorker /\ row[j].age <= LockTimeout =>
                                 row'[j].age = row[j].age + 1
      BY <2>1, RowFields
    <2>3. HolderOwnsRow'
      <3> SUFFICES ASSUME NEW w \in Workers, pc[w] \in Executing
                   PROVE  /\ row'[job[w]].status = "RUNNING"
                          /\ row'[job[w]].by = w
                          /\ row'[job[w]].age = ran'[w]
                          /\ pc[w] \in {"working", "recovering"} =>
                                 seen[w] = SnapshotOf(row'[job[w]])
        BY <2>1 DEF HolderOwnsRow, Executing
      <3>1. job[w] \in Jobs /\ ran[w] \in 0..MaxRun
        BY <1>0, BusyHasJob DEF TypeOK
      <3>2. /\ row[job[w]].status = "RUNNING" /\ row[job[w]].by = w
            /\ row[job[w]].age = ran[w]
            /\ pc[w] \in {"working", "recovering"} => seen[w] = SnapshotOf(row[job[w]])
        BY DEF Inv, HolderOwnsRow
      <3>3. row[job[w]].age <= LockTimeout /\ w # NoWorker
        BY <2>1, <3>1, <3>2, Bounds, NamesAssumption DEF Timely
      <3> QED
        BY <2>1, <2>2, <3>1, <3>2, <3>3 DEF SnapshotOf
    <2>4. RecoveryIsDue'
      BY <1>0, <2>1, <2>2, BusyHasJob DEF Inv, RecoveryIsDue, Executing
    <2>5. LockedIsRunning' /\ DoneOnce' /\ NeverOvercharged' /\ LockerExecutes'
      BY <2>1, <2>2 DEF Inv, LockedIsRunning, DoneOnce, NeverOvercharged, LockerExecutes
    <2> QED
      BY <1>0, <2>3, <2>4, <2>5 DEF Inv
  <1>20. CASE UNCHANGED vars
    BY <1>20 DEF vars, Inv, TypeOK, HolderOwnsRow, LockedIsRunning, DoneOnce, NeverOvercharged,
                 RecoveryIsDue, LockerExecutes
  <1> QED
    BY <1>1, <1>2, <1>3, <1>4, <1>5, <1>6, <1>7, <1>8, <1>9, <1>10, <1>11, <1>12,
       <1>13, <1>14, <1>15, <1>16, <1>17, <1>18, <1>19, <1>20
       DEF Next, Step

LEMMA Invariance == ASSUME Timely PROVE Spec => []Inv
  <1>1. Init => Inv
    BY InvInit
  <1>2. Inv /\ [Next]_vars => Inv'
    BY InvStep
  <1> QED
    BY <1>1, <1>2, PTL DEF Spec

-----------------------------------------------------------------------------
(* What follows from it, if attempts end before their locks time out *)

(* A worker's row is locked by it and unchanged since it loaded it. *)
THEOREM OwnRow == ASSUME Timely PROVE Spec => []HolderOwnsRow
  <1>1. Inv => HolderOwnsRow
    BY DEF Inv
  <1> QED
    BY <1>1, Invariance, PTL

(* At most one worker executes a job. *)
THEOREM MutualExclusion == ASSUME Timely PROVE Spec => []OneExecutor
  <1>1. Inv => OneExecutor
    BY HoldersAgree DEF Inv, OneExecutor
  <1> QED
    BY <1>1, Invariance, PTL

(* A job's work is committed exactly with its success, and once. *)
THEOREM WorkDoneOnce == ASSUME Timely PROVE Spec => []DoneOnce
  <1>1. Inv => DoneOnce
    BY DEF Inv
  <1> QED
    BY <1>1, Invariance, PTL

(* Only attempts that raised are charged, and only they bury a job. *)
THEOREM FairCharge == ASSUME Timely PROVE Spec => []NeverOvercharged
  <1>1. Inv => NeverOvercharged
    BY DEF Inv
  <1> QED
    BY <1>1, Invariance, PTL

(* A RUNNING row always carries the lock that a reclaim goes by. *)
THEOREM Reclaimable == ASSUME Timely PROVE Spec => []RunningIsReclaimable
  <1>1. Inv => RunningIsReclaimable
    BY DEF Inv, LockedIsRunning, RunningIsReclaimable
  <1> QED
    BY <1>1, Invariance, PTL

(* Without faults, no shutdown leaves a row RUNNING that nobody executes. *)
THEOREM GracefulStop == ASSUME Timely PROVE Spec => []StopDropsNoJob
  <1>1. Inv => StopDropsNoJob
    <2> SUFFICES ASSUME Inv, faults = 0, NEW j \in Jobs, row[j].status = "RUNNING"
                 PROVE  Executors(j) # {}
      BY DEF StopDropsNoJob
    <2>1. /\ row[j].by \in Workers
          /\ pc[row[j].by] \in Executing /\ job[row[j].by] = j
      BY DEF Inv, LockerExecutes, LockedIsRunning, TypeOK, Row
    <2> QED
      BY <2>1 DEF Executors
  <1> QED
    BY <1>1, Invariance, PTL

(* A RUNNING job always has somebody who looks after it: its worker while  *)
(* nothing has crashed, and otherwise the reclaim that finds its lock.     *)
THEOREM NobodyIsStranded == ASSUME Timely PROVE Spec => []NoneStranded
  BY Reclaimable, GracefulStop, PTL DEF NoneStranded

(* A step changes no finished or dead-lettered row's status. *)
LEMMA FinalStep ==
  ASSUME Inv, Inv', [Next]_vars, NEW j \in Jobs, row[j].status \in Final
  PROVE  row'[j].status = row[j].status
  <1>0. TypeOK /\ row[j].status \notin {"absent", "PENDING", "RUNNING"}
    BY DEF Inv, Final
  <1>1. ASSUME NEW w \in Workers, pc[w] \in Executing, NEW r, row' = [row EXCEPT ![job[w]] = r]
        PROVE  row'[j] = row[j]
    <2>1. row[job[w]].status = "RUNNING"
      BY <1>1 DEF Inv, HolderOwnsRow
    <2> QED
      BY <1>0, <1>1, <2>1 DEF TypeOK
  <1>2. ASSUME NEW k \in Jobs, Enqueue(k) PROVE row'[j] = row[j]
    BY <1>0, <1>2 DEF Enqueue, TypeOK
  <1>3. ASSUME NEW w \in Workers, Claim(w) PROVE row'[j] = row[j]
    BY <1>0, <1>3 DEF Claim, TypeOK
  <1>4. ASSUME NEW w \in Workers,
               Succeed(w) \/ Defer(w) \/ FailPermanently(w) \/ FailRetryably(w) \/ RecordFailure(w)
        PROVE  row'[j] = row[j]
    <2>1. pc[w] \in Executing
      BY <1>4 DEF Succeed, Defer, FailPermanently, FailRetryably, RecordFailure, Executing
    <2>2. \E r : row' = [row EXCEPT ![job[w]] = r]
      BY <1>4 DEF Succeed, Defer, FailPermanently, FailRetryably, RecordFailure
    <2> QED
      BY <1>1, <2>1, <2>2
  <1>5. CASE Reclaim
    BY <1>0, <1>5 DEF Reclaim, Abandoned
  <1>6. CASE Tick
    BY <1>6, RowFields DEF Tick
  <1>7. CASE UNCHANGED row
    BY <1>7
  <1>8. ASSUME NEW w \in Workers,
               \/ Pick(w) \/ ClaimMissed(w) \/ Load(w) \/ Progress(w) \/ Raise(w)
               \/ Exit(w) \/ DatabaseError(w) \/ Crash(w) \/ Stop(w) \/ Start(w)
        PROVE  UNCHANGED row
    BY <1>8 DEF Pick, ClaimMissed, Load, Progress, Raise, Exit, DatabaseError, Crash, Stop, Start
  <1>9. UNCHANGED vars => UNCHANGED row
    BY DEF vars
  <1> QED
    BY <1>2, <1>3, <1>4, <1>5, <1>6, <1>7, <1>8, <1>9 DEF Next, Step

(* No stale writer resurrects a finished or dead-lettered job. *)
THEOREM FinalityKept == ASSUME Timely PROVE Spec => FinalIsFinal
  <1>1. Inv /\ Inv' /\ [Next]_vars =>
            [\A j \in Jobs : row[j].status \in Final => row'[j].status = row[j].status]_vars
    BY FinalStep
  <1> QED
    BY <1>1, Invariance, PTL DEF Spec, FinalIsFinal

-----------------------------------------------------------------------------
(* The queue implements JobLifecycle: every step of the rows, the workers  *)
(* and the reclaims is a step of the abstract life of one job, a recovery  *)
(* of some, or invisible.                                                  *)

phases == [j \in Jobs |-> PhaseOf(row[j].status)]
holding == [j \in Jobs |-> Executors(j)]

LEMMA Phases ==
  /\ PhaseOf("absent") = "new" /\ PhaseOf("PENDING") = "waiting"
  /\ PhaseOf("RUNNING") = "held" /\ PhaseOf("SUCCEEDED") = "finished"
  /\ PhaseOf("DEAD") = "buried"
  BY DEF PhaseOf

(* A worker that executes a job is its only executor. *)
LEMMA SoleExecutor ==
  ASSUME Inv, NEW w \in Workers, pc[w] \in Executing
  PROVE  /\ Executors(job[w]) = {w}
         /\ \A j \in Jobs : w \in Executors(j) => j = job[w]
  <1>1. \A v \in Workers : pc[v] \in Executing /\ job[v] = job[w] => v = w
    BY HoldersAgree DEF Inv
  <1> QED
    BY <1>1 DEF Executors

(* Letting go of a row removes the worker from its executors. *)
LEMMA ExecutorsAfterLetGo ==
  ASSUME TypeOK, NEW w \in Workers, NEW to \in {"idle", "down"}, LetGo(w, to)
  PROVE  \A j \in Jobs : Executors(j)' = Executors(j) \ {w}
  <1>1. pc'[w] = to /\ \A v \in Workers \ {w} : pc'[v] = pc[v] /\ job'[v] = job[v]
    BY DEF LetGo, TypeOK
  <1> QED
    BY <1>1 DEF Executors, Executing

LEMMA EndMaps ==
  ASSUME Inv, NEW w \in Workers, pc[w] \in Executing,
         NEW s \in {"PENDING", "SUCCEEDED", "DEAD"},
         \A j \in Jobs : row'[j].status = IF j = job[w] THEN s ELSE row[j].status,
         LetGo(w, "idle"),
         applied' = IF s = "SUCCEEDED"
                    THEN [applied EXCEPT ![job[w]] = applied[job[w]] + 1] ELSE applied
  PROVE  Lifecycle!Next
  <1>1. TypeOK /\ job[w] \in Jobs /\ row[job[w]].status = "RUNNING"
    BY BusyHasJob DEF Inv, HolderOwnsRow
  <1> DEFINE p == PhaseOf(s)
  <1>2. p \in {"waiting", "finished", "buried"} /\ (p = "finished" <=> s = "SUCCEEDED")
    BY Phases
  <1>3. phases[job[w]] = "held" /\ holding[job[w]] = {w}
    BY <1>1, Phases, SoleExecutor DEF phases, holding
  <1>5. phases' = [phases EXCEPT ![job[w]] = p]
    <2>1. \A j \in Jobs : PhaseOf(row'[j].status) =
              IF j = job[w] THEN p ELSE PhaseOf(row[j].status)
      OBVIOUS
    <2> QED
      BY <2>1 DEF phases
  <1>6. holding' = [holding EXCEPT ![job[w]] = {}]
    <2>1. \A j \in Jobs : Executors(j)' = IF j = job[w] THEN {} ELSE Executors(j)
      BY <1>1, SoleExecutor, ExecutorsAfterLetGo
    <2> QED
      BY <2>1 DEF holding
  <1>7. applied' = IF p = "finished" THEN [applied EXCEPT ![job[w]] = applied[job[w]] + 1] ELSE applied
    BY <1>2
  <1> HIDE DEF p
  <1>8. Lifecycle!End(w, job[w], p)
    BY <1>2, <1>3, <1>5, <1>6, <1>7 DEF Lifecycle!End, phases, holding
  <1> QED
    BY <1>1, <1>2, <1>8 DEF Lifecycle!Next

LEMMA DisappearanceMaps ==
  ASSUME Inv, NEW w \in Workers, NEW to \in {"idle", "down"}, LetGo(w, to),
         UNCHANGED <<row, applied>>
  PROVE  [Lifecycle!Next]_(Lifecycle!vars)
  <1>1. TypeOK
    BY DEF Inv
  <1>2. phases' = phases
    BY DEF phases
  <1>3. CASE pc[w] \in Executing
    <2>1. job[w] \in Jobs /\ row[job[w]].status = "RUNNING"
      BY <1>1, <1>3, BusyHasJob DEF Inv, HolderOwnsRow
    <2>2. phases[job[w]] = "held" /\ holding[job[w]] = {w}
      BY <1>3, <2>1, Phases, SoleExecutor DEF phases, holding
    <2>3. holding' = [holding EXCEPT ![job[w]] = {}]
      <3>1. \A j \in Jobs : Executors(j)' = Executors(j) \ {w}
        BY <1>1, ExecutorsAfterLetGo
      <3>2. Executors(job[w]) = {w} /\ \A j \in Jobs : w \in Executors(j) => j = job[w]
        BY <1>3, SoleExecutor
      <3>3. \A j \in Jobs : Executors(j)' = IF j = job[w] THEN {} ELSE Executors(j)
        BY <3>1, <3>2
      <3> QED
        BY <3>3 DEF holding
    <2>4. Lifecycle!Vanish(w, job[w])
      BY <1>2, <2>2, <2>3 DEF Lifecycle!Vanish, phases, holding
    <2> QED
      BY <2>1, <2>4 DEF Lifecycle!Next
  <1>4. CASE pc[w] \notin Executing
    <2>1. \A j \in Jobs : Executors(j)' = Executors(j)
      BY <1>1, <1>4, ExecutorsAfterLetGo DEF Executors
    <2>2. holding' = holding
      BY <2>1 DEF holding
    <2> QED
      BY <1>2, <2>2 DEF Lifecycle!vars, phases, holding
  <1> QED
    BY <1>3, <1>4

LEMMA RefinementStep ==
  ASSUME Timely, Inv, Inv', [Next]_vars
  PROVE  [Lifecycle!Next]_(Lifecycle!vars)
  <1>0. TypeOK /\ TypeOK'
    BY DEF Inv
  <1>1. ASSUME NEW j \in Jobs, Enqueue(j) PROVE Lifecycle!Next
    <2>1. PICK d \in EnqueueDelays : row' = [row EXCEPT ![j] = PendingRow(0, d)]
      BY <1>1 DEF Enqueue
    <2>2. \A k \in Jobs : PhaseOf(row'[k].status) = IF k = j THEN "waiting" ELSE PhaseOf(row[k].status)
      BY <1>0, <2>1, RowFields, Phases DEF TypeOK
    <2>3. phases' = [phases EXCEPT ![j] = "waiting"] /\ phases[j] = "new"
      BY <1>1, <2>2, Phases DEF phases, Enqueue
    <2>4. UNCHANGED <<pc, job, applied>>
      BY <1>1 DEF Enqueue
    <2>5. holding' = holding
      BY <2>4 DEF holding, Executors
    <2>6. Lifecycle!Submit(j)
      BY <2>3, <2>4, <2>5 DEF Lifecycle!Submit, phases, holding
    <2> QED
      BY <2>6 DEF Lifecycle!Next
  <1>2. ASSUME NEW w \in Workers, Claim(w) PROVE Lifecycle!Next
    <2>1. job[w] \in Jobs /\ pc[w] = "picked" /\ row[job[w]].status = "PENDING"
      BY <1>0, <1>2, BusyHasJob DEF Claim
    <2>2. \A k \in Jobs : row'[k] = IF k = job[w] THEN RunningRow(row[k].retry, w) ELSE row[k]
      BY <1>0, <1>2, <2>1 DEF Claim, TypeOK
    <2>3. \A k \in Jobs : PhaseOf(row'[k].status) = IF k = job[w] THEN "held" ELSE PhaseOf(row[k].status)
      BY <2>2, RowFields, Phases
    <2>4. phases' = [phases EXCEPT ![job[w]] = "held"] /\ phases[job[w]] = "waiting"
      BY <2>1, <2>3, Phases DEF phases
    <2>5. /\ pc'[w] = "claimed" /\ UNCHANGED <<job, applied>>
          /\ \A v \in Workers \ {w} : pc'[v] = pc[v]
      BY <1>0, <1>2 DEF Claim, TypeOK
    <2>6. \A v \in Workers : pc[v] \in Executing => job[v] # job[w]
      BY <2>1 DEF Inv, HolderOwnsRow
    <2>7. Executors(job[w]) = {} /\ Executors(job[w])' = {w}
      BY <2>1, <2>5, <2>6 DEF Executors, Executing
    <2>8. \A k \in Jobs : k # job[w] => Executors(k)' = Executors(k)
      BY <2>1, <2>5 DEF Executors, Executing
    <2>9. holding[job[w]] = {} /\ holding' = [holding EXCEPT ![job[w]] = {w}]
      <3>1. \A k \in Jobs : Executors(k)' = IF k = job[w] THEN {w} ELSE Executors(k)
        BY <2>5, <2>7, <2>8
      <3> QED
        BY <2>1, <2>7, <3>1 DEF holding
    <2>10. Lifecycle!Take(w, job[w])
      BY <2>4, <2>5, <2>9 DEF Lifecycle!Take, phases, holding
    <2> QED
      BY <2>1, <2>10 DEF Lifecycle!Next
  <1>3. ASSUME NEW w \in Workers, Succeed(w) PROVE Lifecycle!Next
    <2> DEFINE r == Flushed(w, "SUCCEEDED", seen[w].retry, 0)
    <2>1. pc[w] \in {"working", "recovering"} /\ pc[w] \in Executing
      BY <1>3 DEF Succeed, Executing
    <2>2. seen[w].retry \in Nat
      BY <1>0 DEF TypeOK, Snapshot
    <2>3. r.status = "SUCCEEDED"
      BY <2>1, <2>2, FlushedOutcome
    <2>4. job[w] \in Jobs /\ applied[job[w]] = 0
      BY <1>0, <2>1, BusyHasJob DEF Inv, DoneOnce, HolderOwnsRow
    <2>5. applied' = [applied EXCEPT ![job[w]] = @ + 1]
      BY <1>3, <2>4 DEF Succeed
    <2>6. row' = [row EXCEPT ![job[w]] = r] /\ LetGo(w, "idle")
      BY <1>3 DEF Succeed
    <2> HIDE DEF r
    <2> QED
      <3>1. \A j \in Jobs : row'[j].status = IF j = job[w] THEN "SUCCEEDED" ELSE row[j].status
        BY <1>0, <2>3, <2>6 DEF TypeOK
      <3> QED
        BY <2>1, <2>5, <2>6, <3>1, EndMaps
  <1>4. ASSUME NEW w \in Workers, Defer(w) PROVE Lifecycle!Next
    <2>1. PICK d \in DeferDelays :
            row' = [row EXCEPT ![job[w]] = Flushed(w, "PENDING", seen[w].retry, d)]
      BY <1>4 DEF Defer
    <2> DEFINE r == Flushed(w, "PENDING", seen[w].retry, d)
    <2>2. pc[w] \in {"working", "recovering"} /\ pc[w] \in Executing
      BY <1>4 DEF Defer, Executing
    <2>3. seen[w].retry \in Nat /\ d \in Int
      BY <1>0, NumbersAssumption DEF TypeOK, Snapshot
    <2>4. r.status = "PENDING"
      BY <2>2, <2>3, FlushedOutcome
    <2>5. row' = [row EXCEPT ![job[w]] = r] /\ LetGo(w, "idle") /\ applied' = applied
      BY <1>4, <2>1 DEF Defer
    <2> HIDE DEF r
    <2> QED
      <3>1. \A j \in Jobs : row'[j].status = IF j = job[w] THEN "PENDING" ELSE row[j].status
        BY <1>0, <2>4, <2>5 DEF TypeOK
      <3> QED
        BY <2>2, <2>5, <3>1, EndMaps
  <1>5. ASSUME NEW w \in Workers, NEW retryable \in BOOLEAN,
               pc[w] \in {"working", "recovering"},
               row' = [row EXCEPT ![job[w]] = Failed(w, retryable)],
               LetGo(w, "idle"), applied' = applied
        PROVE  Lifecycle!Next
    <2> DEFINE r == Failed(w, retryable)
    <2>1. r.status \in {"PENDING", "DEAD"}
      BY <1>5, FailedOutcome
    <2>2. row' = [row EXCEPT ![job[w]] = r] /\ pc[w] \in Executing
      BY <1>5 DEF Executing
    <2> HIDE DEF r
    <2>3. \A j \in Jobs : row'[j].status = IF j = job[w] THEN r.status ELSE row[j].status
      BY <1>0, <2>2 DEF TypeOK
    <2>4. PICK s \in {"PENDING", "DEAD"} :
            \A j \in Jobs : row'[j].status = IF j = job[w] THEN s ELSE row[j].status
      BY <2>1, <2>3
    <2> QED
      BY <1>0, <1>5, <2>2, <2>4, EndMaps
  <1>6. ASSUME NEW w \in Workers, FailPermanently(w) PROVE Lifecycle!Next
    BY <1>5, <1>6 DEF FailPermanently
  <1>7. ASSUME NEW w \in Workers, FailRetryably(w) \/ RecordFailure(w) PROVE Lifecycle!Next
    BY <1>5, <1>7 DEF FailRetryably, RecordFailure
  <1>8. ASSUME NEW w \in Workers,
               ClaimMissed(w) \/ Exit(w) \/ DatabaseError(w) \/ Crash(w)
        PROVE  [Lifecycle!Next]_(Lifecycle!vars)
    BY <1>8, DisappearanceMaps DEF ClaimMissed, Exit, DatabaseError, Crash
  <1>9. CASE Reclaim
    <2>1. \A j \in Jobs : row'[j] = IF j \in Abandoned THEN PendingRow(row[j].retry, 0) ELSE row[j]
      BY <1>9 DEF Reclaim
    <2>2. UNCHANGED <<pc, job, applied>>
      BY <1>9 DEF Reclaim
    <2>3. Abandoned \subseteq Jobs /\ Abandoned # {}
      BY <1>9 DEF Reclaim, Abandoned
    <2>4. \A j \in Abandoned : Executors(j) = {}
      <3> SUFFICES ASSUME NEW w \in Workers, pc[w] \in Executing
                   PROVE  job[w] \notin Abandoned
        BY DEF Executors
      <3>1. /\ row[job[w]].age = ran[w] /\ ran[w] \in 0..MaxRun
        BY <1>0 DEF Inv, HolderOwnsRow, TypeOK
      <3>2. ~(row[job[w]].age > LockTimeout)
        BY <3>1, Bounds DEF Timely
      <3> QED
        BY <3>2 DEF Abandoned
    <2>5. \A j \in Abandoned : phases[j] = "held" /\ holding[j] = {}
      BY <2>3, <2>4, Phases DEF phases, holding, Abandoned
    <2>6. phases' = [j \in Jobs |-> IF j \in Abandoned THEN "waiting" ELSE phases[j]]
      BY <2>1, RowFields, Phases DEF phases
    <2>7. holding' = holding
      BY <2>2 DEF holding, Executors
    <2>8. Lifecycle!Recover(Abandoned)
      BY <2>2, <2>3, <2>5, <2>6, <2>7 DEF Lifecycle!Recover, phases, holding
    <2> QED
      BY <2>3, <2>8 DEF Lifecycle!Next
  <1>10. CASE Tick
    <2>1. \A j \in Jobs : row'[j].status = row[j].status
      BY <1>10, RowFields DEF Tick
    <2>2. UNCHANGED <<pc, job, applied>>
      BY <1>10 DEF Tick
    <2> QED
      BY <2>1, <2>2 DEF Lifecycle!vars, Executors
  <1>11. ASSUME NEW w \in Workers, Pick(w) \/ Load(w) \/ Raise(w) \/ Start(w)
         PROVE  UNCHANGED Lifecycle!vars
    <2>1. UNCHANGED <<row, applied>>
      BY <1>11 DEF Pick, Load, Raise, Start
    <2>2. /\ \A v \in Workers : pc'[v] \in Executing <=> pc[v] \in Executing
          /\ \A v \in Workers : pc[v] \in Executing => job'[v] = job[v]
      BY <1>0, <1>11 DEF Pick, Load, Raise, Start, Executing, TypeOK
    <2>3. \A j \in Jobs : Executors(j)' = Executors(j)
      BY <2>2 DEF Executors
    <2> QED
      BY <2>1, <2>3 DEF Lifecycle!vars
  <1>12. ASSUME NEW w \in Workers, Progress(w) \/ Stop(w)
         PROVE  UNCHANGED Lifecycle!vars
    BY <1>12 DEF Progress, Stop, Lifecycle!vars, Executors
  <1>13. UNCHANGED vars => UNCHANGED Lifecycle!vars
    BY DEF vars, Lifecycle!vars, Executors
  <1> QED
    BY <1>1, <1>2, <1>3, <1>4, <1>6, <1>7, <1>8, <1>9, <1>10, <1>11, <1>12, <1>13
       DEF Next, Step

LEMMA RefinementInit == Init => Lifecycle!Init
  BY Phases DEF Init, Lifecycle!Init, AbsentRow, Executors, Executing

(* The queue is an implementation of JobLifecycle: every job is held by at *)
(* most one worker, ends once, and is taken back only from nobody.         *)
THEOREM Refinement == ASSUME Timely PROVE Spec => ImplementsLifecycle
  <1>1. Init => Lifecycle!Init
    BY RefinementInit
  <1>2. Inv /\ Inv' /\ [Next]_vars => [Lifecycle!Next]_(Lifecycle!vars)
    BY RefinementStep
  <1> QED
    BY <1>1, <1>2, Invariance, PTL DEF Spec, ImplementsLifecycle, Lifecycle!Spec
=============================================================================
