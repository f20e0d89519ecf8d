------------------------------ MODULE JobQueue ------------------------------
(***************************************************************************)
(* The database-backed job queue (aidss/jobs/queue.py) and the worker loop *)
(* that drains it (aidss/jobs/worker.py).                                  *)
(*                                                                         *)
(* A job is a row of job_queue.  A worker claims a due row in one          *)
(* transaction, loads it in a second one, runs the handler on that second  *)
(* session and writes the outcome there.  The scheduler's pass gives rows  *)
(* whose lock is too old back to the pending pool.  Processes crash,       *)
(* sessions fail, operators stop and start workers.                        *)
(*                                                                         *)
(* Time is relative: a pending row keeps how far away its available_at is  *)
(* (wait, negative when overdue), a locked row how old its locked_at is    *)
(* (age), an executing worker how long ago it claimed (ran).  Tick moves   *)
(* them all by one unit, so no clock value ever grows.                     *)
(***************************************************************************)
EXTENDS Integers, FiniteSets

CONSTANTS
    Jobs,           \* rows that may be enqueued (distinct dedup keys)
    NoJob,          \* a worker that holds no row
    Workers,        \* worker processes
    NoWorker,       \* locked_by IS NULL
    SkipLocked,     \* TRUE: PostgreSQL's FOR UPDATE SKIP LOCKED; FALSE: the SQLite fallback
    MaxRetries,     \* JobQueueEntry.max_retries
    RetryBase,      \* RETRY_BASE_SECONDS, in units of Tick
    RetryCap,       \* RETRY_MAX_SECONDS
    LockTimeout,    \* LOCK_TIMEOUT_SECONDS
    MaxRun,         \* longest time from a claim to the outcome (assumed, not enforced by the code)
    EnqueueDelays,  \* available_at - now, at enqueue
    DeferDelays,    \* available_at - now, at a deferral
    MaxLate,        \* bound: how far behind a wait is still told apart
    MaxFaults,      \* bound: crashes and database errors in a behaviour
    MaxStops,       \* bound: shutdown signals in a behaviour
    MaxDefers       \* bound: deferrals in a behaviour

ASSUME NamesAssumption == NoJob \notin Jobs /\ NoWorker \notin Workers
ASSUME DialectAssumption == SkipLocked \in BOOLEAN
ASSUME NumbersAssumption ==
    /\ {MaxRetries, RetryBase, RetryCap, LockTimeout, MaxRun} \subseteq Nat
    /\ {MaxLate, MaxFaults, MaxStops, MaxDefers} \subseteq Nat
    /\ EnqueueDelays \subseteq Nat /\ DeferDelays \subseteq Nat

VARIABLES
    row,        \* the job_queue table
    pc,         \* where each worker is in run_once
    job,        \* the row it has picked or claimed
    ran,        \* how long ago it claimed it
    seen,       \* what session.get loaded: the ORM compares it at flush
    work,       \* the handler's writes in the worker's open transaction
    stopping,   \* Worker._stopping
    applied,    \* how often the whole work of a job was committed (saturates at 2)
    leftover,   \* jobs of which a failed attempt committed a part
    raised,     \* attempts whose handler raised something other than a deferral
    refused,    \* jobs a handler declared pointless to retry
    faults, stops, defers

rowVars == <<row, applied, leftover, raised, refused>>
workerVars == <<pc, job, ran, seen, work>>
counters == <<faults, stops, defers>>
vars == <<row, pc, job, ran, seen, work, stopping, applied, leftover, raised, refused,
          faults, stops, defers>>

-----------------------------------------------------------------------------
(* Rows, and what an ORM session writes back *)

Final == {"SUCCEEDED", "DEAD"}
Status == {"absent", "PENDING", "RUNNING"} \cup Final

Row == [status : Status, retry : Nat, wait : Int, age : 0..LockTimeout + 1,
        by : Workers \cup {NoWorker}]

AbsentRow == [status |-> "absent", retry |-> 0, wait |-> 0, age |-> 0, by |-> NoWorker]
PendingRow(retry, wait) ==
    [status |-> "PENDING", retry |-> retry, wait |-> wait, age |-> 0, by |-> NoWorker]
RunningRow(retry, w) ==
    [status |-> "RUNNING", retry |-> retry, wait |-> 0, age |-> 0, by |-> w]

(* The attributes of a loaded row that later writes are compared with. *)
Snapshot == [status : Status, retry : Nat, by : Workers \cup {NoWorker}]
SnapshotOf(r) == [status |-> r.status, retry |-> r.retry, by |-> r.by]
Unread == SnapshotOf(AbsentRow)

(* SQLAlchemy's UPDATE names only the columns whose value differs from the *)
(* one loaded: a column set to what this session saw keeps whatever        *)
(* another transaction stored since.  available_at is always a new instant *)
(* and matters only in a pending row.                                      *)
Flushed(w, status, retry, wait) ==
    LET cur == row[job[w]]
        to  == IF status = seen[w].status THEN cur.status ELSE status
    IN  [status |-> to,
         retry  |-> IF retry = seen[w].retry THEN cur.retry ELSE retry,
         wait   |-> IF to # "PENDING" THEN 0
                    ELSE IF status = "PENDING" THEN wait ELSE cur.wait,
         age    |-> IF seen[w].by # NoWorker THEN 0 ELSE cur.age,
         by     |-> IF seen[w].by # NoWorker THEN NoWorker ELSE cur.by]

(* min(base * 2^(attempt-1), cap) *)
RetryDelay(attempt) ==
    LET grown == RetryBase * 2 ^ (IF attempt > 1 THEN attempt - 1 ELSE 0)
    IN  IF grown \in 0..RetryCap THEN grown ELSE RetryCap

(* queue.fail: the row a failed attempt leaves. *)
Failed(w, retryable) ==
    LET charge == seen[w].retry + 1
    IN  IF retryable /\ charge <= MaxRetries
        THEN Flushed(w, "PENDING", charge, RetryDelay(charge))
        ELSE Flushed(w, "DEAD", charge, 0)

-----------------------------------------------------------------------------
(* Workers *)

Locations == {"down", "idle", "picked", "claimed", "working", "recovering"}
Executing == {"claimed", "working", "recovering"}

Executors(j) == {w \in Workers : pc[w] \in Executing /\ job[w] = j}

Init ==
    /\ row = [j \in Jobs |-> AbsentRow]
    /\ pc = [w \in Workers |-> "idle"]
    /\ job = [w \in Workers |-> NoJob]
    /\ ran = [w \in Workers |-> 0]
    /\ seen = [w \in Workers |-> Unread]
    /\ work = [w \in Workers |-> "none"]
    /\ stopping = [w \in Workers |-> FALSE]
    /\ applied = [j \in Jobs |-> 0]
    /\ leftover = {} /\ refused = {}
    /\ raised = [j \in Jobs |-> 0]
    /\ faults = 0 /\ stops = 0 /\ defers = 0

(* Mutant: the row of the last attempt stays in the worker's hands. *)
LetGoKeepingRow(w, to) ==
    /\ pc' = [pc EXCEPT ![w] = to]
    /\ ran' = [ran EXCEPT ![w] = 0]
    /\ seen' = [seen EXCEPT ![w] = Unread]
    /\ work' = [work EXCEPT ![w] = "none"]
    /\ UNCHANGED job

(* The worker drops its row, its session and everything uncommitted. *)
LetGo(w, to) ==
    /\ pc' = [pc EXCEPT ![w] = to]
    /\ job' = [job EXCEPT ![w] = NoJob]
    /\ ran' = [ran EXCEPT ![w] = 0]
    /\ seen' = [seen EXCEPT ![w] = Unread]
    /\ work' = [work EXCEPT ![w] = "none"]

(* queue.enqueue, committed by whoever asked for the job. *)
Enqueue(j) ==
    /\ row[j].status = "absent"
    /\ \E d \in EnqueueDelays : row' = [row EXCEPT ![j] = PendingRow(0, d)]
    /\ UNCHANGED <<workerVars, stopping, applied, leftover, raised, refused, counters>>

(* The row lock of FOR UPDATE, held until the claim commits. *)
RowLocked(j) == \E w \in Workers : pc[w] = "picked" /\ job[w] = j

Due == {j \in Jobs : /\ row[j].status = "PENDING"
                     /\ row[j].wait <= 0
                     /\ SkipLocked => ~RowLocked(j)}

(* run_once: the SELECT of queue.claim, oldest available_at first. *)
Pick(w) ==
    /\ pc[w] = "idle" /\ ~stopping[w]
    /\ \E j \in Due :
        /\ \A k \in Due : row[j].wait <= row[k].wait
        /\ job' = [job EXCEPT ![w] = j]
    /\ pc' = [pc EXCEPT ![w] = "picked"]
    /\ UNCHANGED <<rowVars, ran, seen, work, stopping, counters>>

(* The guarded UPDATE of queue.claim, and run_once's commit. *)
Claim(w) ==
    /\ pc[w] = "picked"
    /\ row[job[w]].status = "PENDING"
    /\ row' = [row EXCEPT ![job[w]] = RunningRow(@.retry, w)]
    /\ pc' = [pc EXCEPT ![w] = "claimed"]
    /\ ran' = [ran EXCEPT ![w] = 0]
    /\ UNCHANGED <<job, seen, work, stopping, applied, leftover, raised, refused, counters>>

(* rowcount = 0: another worker took the row after this one read it. *)
ClaimMissed(w) ==
    /\ pc[w] = "picked"
    /\ row[job[w]].status # "PENDING"
    /\ LetGo(w, "idle")
    /\ UNCHANGED <<rowVars, stopping, counters>>

(* _run_handler: a new session, and session.get of the claimed row. *)
Load(w) ==
    /\ pc[w] = "claimed"
    /\ seen' = [seen EXCEPT ![w] = SnapshotOf(row[job[w]])]
    /\ pc' = [pc EXCEPT ![w] = "working"]
    /\ UNCHANGED <<rowVars, job, ran, work, stopping, counters>>

(* The handler writes on the worker's session: something, then everything. *)
Progress(w) ==
    /\ pc[w] = "working" /\ work[w] # "all"
    /\ work' = [work EXCEPT ![w] = IF @ = "none" THEN "some" ELSE "all"]
    /\ UNCHANGED <<rowVars, pc, job, ran, seen, stopping, counters>>

(* An UPDATE of a row that a claim has locked waits for that claim. *)
CanWrite(w) == SkipLocked => ~RowLocked(job[w])

(* The handler returned: queue.complete commits with the handler's work. *)
Succeed(w) ==
    /\ pc[w] = "working" /\ work[w] = "all" /\ CanWrite(w)
    /\ row' = [row EXCEPT ![job[w]] = Flushed(w, "SUCCEEDED", seen[w].retry, 0)]
    /\ applied' = [applied EXCEPT ![job[w]] = IF @ < 2 THEN @ + 1 ELSE @]
    /\ LetGo(w, "idle")
    /\ UNCHANGED <<stopping, leftover, raised, refused, counters>>

(* The commits of the three handled exceptions keep the handler's writes. *)
KeepsPartialWork(w) ==
    leftover' = IF work[w] = "some" THEN leftover \cup {job[w]} ELSE leftover

(* Mutant: a deferral goes through queue.fail. *)
DeferThroughFail(w) ==
    /\ pc[w] = "working" /\ work[w] = "none" /\ CanWrite(w)
    /\ defers < MaxDefers /\ defers' = defers + 1
    /\ row' = [row EXCEPT ![job[w]] = Failed(w, TRUE)]
    /\ LetGo(w, "idle")
    /\ UNCHANGED <<stopping, applied, leftover, raised, refused, faults, stops>>

(* JobDeferred.  Its one raiser, refresh_fundamentals, has written nothing. *)
Defer(w) ==
    /\ pc[w] = "working" /\ work[w] = "none" /\ CanWrite(w)
    /\ defers < MaxDefers /\ defers' = defers + 1
    /\ \E d \in DeferDelays :
        row' = [row EXCEPT ![job[w]] = Flushed(w, "PENDING", seen[w].retry, d)]
    /\ LetGo(w, "idle")
    /\ UNCHANGED <<stopping, applied, leftover, raised, refused, faults, stops>>

(* PermanentJobError, or ProviderUnavailableError with retryable = False. *)
FailPermanently(w) ==
    /\ pc[w] = "working" /\ work[w] # "all" /\ CanWrite(w)
    /\ row' = [row EXCEPT ![job[w]] = Failed(w, FALSE)]
    /\ KeepsPartialWork(w)
    /\ raised' = [raised EXCEPT ![job[w]] = @ + 1]
    /\ refused' = refused \cup {job[w]}
    /\ LetGo(w, "idle")
    /\ UNCHANGED <<stopping, applied, counters>>

(* ProviderUnavailableError with retryable = True. *)
FailRetryably(w) ==
    /\ pc[w] = "working" /\ work[w] # "all" /\ CanWrite(w)
    /\ row' = [row EXCEPT ![job[w]] = Failed(w, TRUE)]
    /\ KeepsPartialWork(w)
    /\ raised' = [raised EXCEPT ![job[w]] = @ + 1]
    /\ LetGo(w, "idle")
    /\ UNCHANGED <<stopping, applied, refused, counters>>

(* Any other exception: roll back, and read the row on a fresh session. *)
Raise(w) ==
    /\ pc[w] = "working" /\ work[w] # "all"
    /\ pc' = [pc EXCEPT ![w] = "recovering"]
    /\ work' = [work EXCEPT ![w] = "none"]
    /\ seen' = [seen EXCEPT ![w] = SnapshotOf(row[job[w]])]
    /\ raised' = [raised EXCEPT ![job[w]] = @ + 1]
    /\ UNCHANGED <<row, job, ran, stopping, applied, leftover, refused, counters>>

RecordFailure(w) ==
    /\ pc[w] = "recovering" /\ CanWrite(w)
    /\ row' = [row EXCEPT ![job[w]] = Failed(w, TRUE)]
    /\ LetGo(w, "idle")
    /\ UNCHANGED <<stopping, applied, leftover, raised, refused, counters>>

(* Mutant: the handler's work is committed before the outcome is. *)
DatabaseErrorAfterWork(w) ==
    /\ pc[w] \in Executing \cup {"picked"}
    /\ faults < MaxFaults /\ faults' = faults + 1
    /\ applied' = IF work[w] = "all" THEN [applied EXCEPT ![job[w]] = @ + 1] ELSE applied
    /\ LetGo(w, "idle")
    /\ UNCHANGED <<row, leftover, raised, refused, stopping, stops, defers>>

(* A statement or a commit on the worker's session fails: whatever was     *)
(* open rolls back, run_forever logs the error and loops, and the row is   *)
(* left as the last commit had it.                                         *)
DatabaseError(w) ==
    /\ pc[w] \in Executing \cup {"picked"}
    /\ faults < MaxFaults /\ faults' = faults + 1
    /\ LetGo(w, "idle")
    /\ UNCHANGED <<rowVars, stopping, stops, defers>>

(* The process dies. *)
Crash(w) ==
    /\ pc[w] # "down"
    /\ faults < MaxFaults /\ faults' = faults + 1
    /\ LetGo(w, "down")
    /\ stopping' = [stopping EXCEPT ![w] = FALSE]
    /\ UNCHANGED <<rowVars, stops, defers>>

(* SIGTERM: Worker.stop only raises the flag that the loop reads. *)
Stop(w) ==
    /\ pc[w] # "down" /\ ~stopping[w]
    /\ stops < MaxStops /\ stops' = stops + 1
    /\ stopping' = [stopping EXCEPT ![w] = TRUE]
    /\ UNCHANGED <<rowVars, workerVars, faults, defers>>

(* Mutant: the signal ends the process at once. *)
ExitAtOnce(w) ==
    /\ pc[w] # "down" /\ stopping[w]
    /\ LetGo(w, "down")
    /\ stopping' = [stopping EXCEPT ![w] = FALSE]
    /\ UNCHANGED <<rowVars, counters>>

Exit(w) ==
    /\ pc[w] = "idle" /\ stopping[w]
    /\ LetGo(w, "down")
    /\ stopping' = [stopping EXCEPT ![w] = FALSE]
    /\ UNCHANGED <<rowVars, counters>>

(* The supervisor starts a worker process again. *)
Start(w) ==
    /\ pc[w] = "down"
    /\ pc' = [pc EXCEPT ![w] = "idle"]
    /\ UNCHANGED <<rowVars, job, ran, seen, work, stopping, counters>>

-----------------------------------------------------------------------------
(* The scheduler's share, and time *)

(* Mutant: a lock exactly as old as the timeout counts. *)
AbandonedAtTimeout == {j \in Jobs : row[j].status = "RUNNING" /\ row[j].age >= LockTimeout}

(* Mutant: the test for a lock is inverted. *)
AbandonedUnlocked == {j \in Jobs : /\ row[j].status = "RUNNING"
                                   /\ row[j].by = NoWorker
                                   /\ row[j].age > LockTimeout}

Abandoned == {j \in Jobs : /\ row[j].status = "RUNNING"
                           /\ row[j].by # NoWorker
                           /\ row[j].age > LockTimeout}

(* queue.reclaim_abandoned: one bulk UPDATE, which charges no retry. *)
Reclaim ==
    /\ Abandoned # {}
    /\ row' = [j \in Jobs |->
                  IF j \in Abandoned THEN PendingRow(row[j].retry, 0) ELSE row[j]]
    /\ UNCHANGED <<workerVars, stopping, applied, leftover, raised, refused, counters>>

Older(r) ==
    [status |-> r.status, retry |-> r.retry, by |-> r.by,
     wait |-> IF r.status = "PENDING" /\ r.wait > -MaxLate THEN r.wait - 1 ELSE r.wait,
     age |-> IF r.by # NoWorker /\ r.age <= LockTimeout THEN r.age + 1 ELSE r.age]

(* One unit of time.  A claim's transaction is shorter than a unit, and no *)
(* attempt lasts longer than MaxRun.                                       *)
Tick ==
    /\ \A w \in Workers : pc[w] # "picked" /\ (pc[w] \in Executing => ran[w] < MaxRun)
    /\ row' = [j \in Jobs |-> Older(row[j])]
    /\ ran' = [w \in Workers |-> IF pc[w] \in Executing THEN ran[w] + 1 ELSE ran[w]]
    /\ UNCHANGED <<pc, job, seen, work, stopping, applied, leftover, raised, refused, counters>>

(* What a running worker does of its own accord. *)
Step(w) ==
    \/ Pick(w) \/ Claim(w) \/ ClaimMissed(w) \/ Load(w) \/ Progress(w)
    \/ Succeed(w) \/ Defer(w) \/ FailPermanently(w) \/ FailRetryably(w)
    \/ Raise(w) \/ RecordFailure(w) \/ Exit(w)

Next ==
    \/ \E j \in Jobs : Enqueue(j)
    \/ \E w \in Workers : Step(w) \/ DatabaseError(w) \/ Crash(w) \/ Stop(w) \/ Start(w)
    \/ Reclaim
    \/ Tick

Spec == Init /\ [][Next]_vars

(* Workers keep looping, supervisors restart them, some scheduler keeps    *)
(* reclaiming, and time passes.                                            *)
Fairness ==
    /\ \A w \in Workers : WF_vars(Step(w)) /\ WF_vars(Start(w))
    /\ WF_vars(Reclaim)
    /\ WF_vars(Tick)

FairSpec == Spec /\ Fairness

-----------------------------------------------------------------------------
(* Properties *)

TypeOK ==
    /\ row \in [Jobs -> Row]
    /\ pc \in [Workers -> Locations]
    /\ job \in [Workers -> Jobs \cup {NoJob}]
    /\ \A w \in Workers : pc[w] \in Executing \cup {"picked"} <=> job[w] # NoJob
    /\ ran \in [Workers -> 0..MaxRun]
    /\ seen \in [Workers -> Snapshot]
    /\ work \in [Workers -> {"none", "some", "all"}]
    /\ stopping \in [Workers -> BOOLEAN]
    /\ applied \in [Jobs -> 0..2]
    /\ raised \in [Jobs -> Nat]
    /\ leftover \subseteq Jobs /\ refused \subseteq Jobs
    /\ faults \in 0..MaxFaults /\ stops \in 0..MaxStops /\ defers \in 0..MaxDefers

(* A worker's row is its own: locked by it, with a lock as old as its      *)
(* attempt, and still as it was loaded, so that the delta the ORM writes   *)
(* is the outcome it means to write.                                       *)
HolderOwnsRow ==
    \A w \in Workers :
        /\ pc[w] \in Executing =>
              /\ row[job[w]].status = "RUNNING"
              /\ row[job[w]].by = w
              /\ row[job[w]].age = ran[w]
        /\ pc[w] \in {"working", "recovering"} => seen[w] = SnapshotOf(row[job[w]])

(* No two workers execute one job: the claim's own promise ("two workers   *)
(* cannot both believe they hold the same row") kept up to the outcome,    *)
(* across crashes, reclaims and retries.                                   *)
OneExecutor ==
    \A v, w \in Workers :
        pc[v] \in Executing /\ pc[w] \in Executing /\ job[v] = job[w] => v = w

(* A job is recorded SUCCEEDED exactly when its whole work was committed,  *)
(* and then it was committed once: the outcome and the handler's writes    *)
(* share a transaction, and nothing reruns a finished job.                 *)
DoneOnce ==
    \A j \in Jobs : applied[j] = IF row[j].status = "SUCCEEDED" THEN 1 ELSE 0

(* Retries are charged only for attempts that raised, and a job is         *)
(* dead-lettered only when a handler called it pointless or more than      *)
(* max_retries attempts raised: waiting for an allowance, crashes and      *)
(* reclaims never bury a job.                                              *)
NeverOvercharged ==
    \A j \in Jobs :
        /\ row[j].retry <= raised[j]
        /\ row[j].status = "DEAD" => j \in refused \/ raised[j] > MaxRetries

(* Without a crash or a database error every RUNNING row has a worker      *)
(* executing it: a shutdown signal finishes the current job rather than    *)
(* dropping it, at whatever point of the loop it lands.                    *)
StopDropsNoJob ==
    faults = 0 => \A j \in Jobs : row[j].status = "RUNNING" => Executors(j) # {}

(* A RUNNING row has a lock time, the only thing reclaim_abandoned looks   *)
(* at, or no pass would ever give it back.  That needs attempts that are   *)
(* over before their lock is: the stale writes of three workers whose      *)
(* attempts outlast it can leave a RUNNING row without one.                *)
RunningIsReclaimable ==
    \A j \in Jobs : row[j].status = "RUNNING" => row[j].by # NoWorker

(* A RUNNING job is looked after: by its worker as long as nothing crashes, *)
(* and by the next reclaim if something does.                              *)
NoneStranded == StopDropsNoJob /\ RunningIsReclaimable

(* A finished or dead-lettered job is never taken up again. *)
FinalIsFinal ==
    [][\A j \in Jobs : row[j].status \in Final => row'[j].status = row[j].status]_vars

(* The writes of an attempt that failed are rolled back with it.           *)
FailureRollsBack == leftover = {}

(* Every job that was enqueued ends up finished or dead-lettered.          *)
NoJobForgotten ==
    \A j \in Jobs : row[j].status = "PENDING" ~> row[j].status \in Final

-----------------------------------------------------------------------------
(* The queue as its callers see it *)

PhaseOf(status) ==
    CASE status = "absent" -> "new"
      [] status = "PENDING" -> "waiting"
      [] status = "RUNNING" -> "held"
      [] status = "SUCCEEDED" -> "finished"
      [] status = "DEAD" -> "buried"

Lifecycle == INSTANCE JobLifecycle WITH
    phase <- [j \in Jobs |-> PhaseOf(row[j].status)],
    holders <- [j \in Jobs |-> Executors(j)],
    done <- applied

(* The queue, its workers and its reclaims implement the life of a job. *)
ImplementsLifecycle == Lifecycle!Spec
=============================================================================
