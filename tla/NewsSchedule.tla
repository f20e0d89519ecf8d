---------------------------- MODULE NewsSchedule ----------------------------
(***************************************************************************)
(* One ticker's news schedule: the scheduler's pass that queues a run when *)
(* it is due (Scheduler.tick in aidss/jobs/worker.py), the runs themselves *)
(* (NewsScheduler.run_schedule in aidss/news/collector.py) as jobs and by  *)
(* the "run now" endpoint, and the row both of them write.                 *)
(*                                                                         *)
(* A run loads the row, reads the clock, fetches for as long as it takes   *)
(* and then writes the row.  Runs overlap with one another and with the    *)
(* scheduler; each writes only the columns it changes from what it loaded, *)
(* as the ORM does.  A job is named by the due time in its dedup key.      *)
(***************************************************************************)
EXTENDS Integers, FiniteSets, FiniteSetsExt

CONSTANTS
    Runners,        \* workers and API requests that may run the schedule
    Manual,         \* a run that belongs to no job
    NeverFetched,   \* last_fetched_at IS NULL
    Period,         \* time between two firings of the cron expression
    Lookback,       \* FIRST_RUN_LOOKBACK_DAYS
    Threshold,      \* FAILURE_THRESHOLD
    MaxLate,        \* longest a due schedule waits for a pass (assumed, not enforced)
    MaxRun,         \* longest run (assumed, not enforced)
    LastInstant,    \* bound: the last instant
    MaxManual,      \* bound: runs by hand
    MaxFailures     \* bound: runs that fail or raise

ASSUME NewsAssumption ==
    /\ Period \in Nat \ {0}
    /\ {Lookback, Threshold, MaxLate, MaxRun, LastInstant, MaxManual, MaxFailures} \subseteq Nat
    /\ Manual \notin Nat /\ NeverFetched \notin Nat

VARIABLES
    clock,          \* the clock
    schedule,       \* the ticker_news_schedules row
    queued,         \* news.ingest_schedule jobs, by due time
    passing,        \* the row and the clock as the scheduler's open pass read them
    at,             \* where each runner is
    job,            \* the job it runs
    seen,           \* the row as it loaded it
    until,          \* the clock as it read it: the end of its window
    ran,            \* how long ago it loaded the row
    covered,        \* instants of which the articles are stored
    manual, failures

newsVars == <<clock, schedule, queued, passing, at, job, seen, until, ran, covered,
              manual, failures>>
runVars == <<at, job, seen, until, ran>>

(* croniter's first firing after an instant. *)
NextFiring(t) == (t \div Period + 1) * Period

DueTimes == {t \in 0..LastInstant : t % Period = 0}
Taken(t) == t \in DueTimes /\ queued[t] # "none"

Row == [next : Nat, last : Nat \cup {NeverFetched}, failures : Nat, flagged : BOOLEAN]
NewRow == [next |-> NextFiring(0), last |-> NeverFetched, failures |-> 0, flagged |-> FALSE]
NoPass == [next |-> NeverFetched, at |-> 0]

NewsInit ==
    /\ clock = 0
    /\ schedule = NewRow
    /\ queued = [t \in DueTimes |-> "none"]
    /\ passing = NoPass
    /\ at = [r \in Runners |-> "idle"]
    /\ job = [r \in Runners |-> Manual]
    /\ seen = [r \in Runners |-> NewRow]
    /\ until = [r \in Runners |-> 0]
    /\ ran = [r \in Runners |-> 0]
    /\ covered = {}
    /\ manual = 0 /\ failures = 0

-----------------------------------------------------------------------------
(* The scheduler: one pass at a time, under the lease *)

(* due_news_schedules. *)
PassReads ==
    /\ passing = NoPass /\ schedule.next <= clock
    /\ passing' = [next |-> schedule.next, at |-> clock]
    /\ UNCHANGED <<clock, schedule, queued, runVars, covered, manual, failures>>

(* The key pins the job to the due time; the schedule moves on only when   *)
(* the job was created.                                                    *)
PassCommits ==
    /\ passing # NoPass
    /\ IF Taken(passing.next)
       THEN UNCHANGED <<schedule, queued>>
       ELSE /\ queued' = [queued EXCEPT ![passing.next] = "queued"]
            /\ schedule' = [schedule EXCEPT !.next = NextFiring(passing.at)]
    /\ passing' = NoPass
    /\ UNCHANGED <<clock, runVars, covered, manual, failures>>

-----------------------------------------------------------------------------
(* Runs *)

(* The row is loaded, for job t or by hand. *)
LoadFor(r, t) ==
    /\ at[r] = "idle"
    /\ at' = [at EXCEPT ![r] = "loaded"]
    /\ job' = [job EXCEPT ![r] = t]
    /\ seen' = [seen EXCEPT ![r] = schedule]
    /\ UNCHANGED <<clock, schedule, passing, until, ran, covered, failures>>

(* A worker has claimed the job. *)
RunJob(r) ==
    \E t \in DueTimes :
        /\ queued[t] = "queued"
        /\ queued' = [queued EXCEPT ![t] = "running"]
        /\ LoadFor(r, t)
        /\ UNCHANGED manual

(* POST /news-schedules/{id}/run-now. *)
RunNow(r) ==
    /\ manual < MaxManual /\ manual' = manual + 1
    /\ LoadFor(r, Manual)
    /\ UNCHANGED queued

(* run_schedule reads the clock once. *)
BeginRun(r) ==
    /\ at[r] = "loaded"
    /\ at' = [at EXCEPT ![r] = "fetching"]
    /\ until' = [until EXCEPT ![r] = clock]
    /\ UNCHANGED <<clock, schedule, queued, passing, job, seen, ran, covered, manual, failures>>

(* What the window starts at: where the last one ended. *)
Since(r) == IF seen[r].last = NeverFetched THEN until[r] - Lookback ELSE seen[r].last

(* The columns of `new` that differ from the loaded ones, over the rest. *)
Written(r, new) ==
    [f \in DOMAIN schedule |-> IF new[f] = seen[r][f] THEN schedule[f] ELSE new[f]]

(* The runner is done with its job, which ends in state `outcome`. *)
End(r, outcome) ==
    /\ at' = [at EXCEPT ![r] = "idle"]
    /\ job' = [job EXCEPT ![r] = Manual]
    /\ seen' = [seen EXCEPT ![r] = NewRow]
    /\ until' = [until EXCEPT ![r] = 0]
    /\ ran' = [ran EXCEPT ![r] = 0]
    /\ queued' = IF job[r] = Manual THEN queued ELSE [queued EXCEPT ![job[r]] = outcome]

(* Mutant: the schedule is advanced from the due time the run was for. *)
SucceedFromDueTime(r) ==
    /\ at[r] = "fetching"
    /\ covered' = covered \cup (Since(r)..until[r])
    /\ schedule' = Written(r, [next |-> NextFiring(IF job[r] = Manual THEN until[r] ELSE job[r]),
                          last |-> until[r], failures |-> 0, flagged |-> FALSE])
    /\ End(r, "done")
    /\ UNCHANGED <<clock, passing, manual, failures>>

(* The articles of the window are stored, and the window moves on. *)
Succeed(r) ==
    /\ at[r] = "fetching"
    /\ covered' = covered \cup (Since(r)..until[r])
    /\ schedule' = Written(r, [next |-> NextFiring(until[r]), last |-> until[r],
                          failures |-> 0, flagged |-> FALSE])
    /\ End(r, "done")
    /\ UNCHANGED <<clock, passing, manual, failures>>

(* The queue retries a job that failed, or gives it up. *)
RetryOrGiveUp(r) == End(r, "queued") \/ End(r, "done")

(* Mutant: the window moves on whatever came of the fetch. *)
FailAdvancing(r) ==
    /\ at[r] = "fetching"
    /\ failures < MaxFailures /\ failures' = failures + 1
    /\ schedule' = Written(r, [next |-> NextFiring(until[r]), last |-> until[r],
                          failures |-> seen[r].failures + 1,
                          flagged |-> seen[r].flagged \/ seen[r].failures + 1 >= Threshold])
    /\ RetryOrGiveUp(r)
    /\ UNCHANGED <<clock, passing, covered, manual>>

(* Mutant: the flag is raised one failure early. *)
FailFlaggingEarly(r) ==
    /\ at[r] = "fetching"
    /\ failures < MaxFailures /\ failures' = failures + 1
    /\ schedule' = Written(r, [next |-> NextFiring(until[r]), last |-> seen[r].last,
                          failures |-> seen[r].failures + 1,
                          flagged |-> seen[r].flagged \/ seen[r].failures + 1 >= Threshold - 1])
    /\ RetryOrGiveUp(r)
    /\ UNCHANGED <<clock, passing, covered, manual>>

(* The provider is unavailable: counted and flagged, and committed by the  *)
(* worker (or the request) all the same.  The window stays.                *)
Fail(r) ==
    /\ at[r] = "fetching"
    /\ failures < MaxFailures /\ failures' = failures + 1
    /\ schedule' = Written(r, [next |-> NextFiring(until[r]), last |-> seen[r].last,
                          failures |-> seen[r].failures + 1,
                          flagged |-> seen[r].flagged \/ seen[r].failures + 1 >= Threshold])
    /\ RetryOrGiveUp(r)
    /\ UNCHANGED <<clock, passing, covered, manual>>

(* Anything else, such as losing the unique article hash to another run:   *)
(* rolled back.                                                            *)
Raise(r) ==
    /\ at[r] \in {"loaded", "fetching"}
    /\ failures < MaxFailures /\ failures' = failures + 1
    /\ RetryOrGiveUp(r)
    /\ UNCHANGED <<clock, schedule, passing, covered, manual>>

(* One unit of time: a pass is shorter, a run no longer than MaxRun, and a *)
(* due schedule waits at most MaxLate for a pass.                          *)
NewsTick ==
    /\ clock < LastInstant /\ clock' = clock + 1
    /\ passing = NoPass
    /\ schedule.next + MaxLate > clock \/ Taken(schedule.next)
    /\ \A r \in Runners : at[r] # "idle" => ran[r] < MaxRun
    /\ ran' = [r \in Runners |-> IF at[r] = "idle" THEN 0 ELSE ran[r] + 1]
    /\ UNCHANGED <<schedule, queued, passing, at, job, seen, until, covered, manual, failures>>

NewsNext ==
    \/ PassReads \/ PassCommits \/ NewsTick
    \/ \E r \in Runners :
        \/ RunJob(r) \/ RunNow(r) \/ BeginRun(r)
        \/ Succeed(r) \/ Fail(r) \/ Raise(r)

NewsSpec == NewsInit /\ [][NewsNext]_newsVars

-----------------------------------------------------------------------------
(* Properties *)

NewsTypeOK ==
    /\ clock \in 0..LastInstant
    /\ schedule \in Row
    /\ queued \in [DueTimes -> {"none", "queued", "running", "done"}]
    /\ passing = NoPass \/ passing \in [next : Nat, at : 0..LastInstant]
    /\ at \in [Runners -> {"idle", "loaded", "fetching"}]
    /\ job \in [Runners -> DueTimes \cup {Manual}]
    /\ \A t \in DueTimes :
          queued[t] = "running" <=> Cardinality({r \in Runners : job[r] = t}) = 1
    /\ seen \in [Runners -> Row]
    /\ until \in [Runners -> 0..LastInstant]
    /\ ran \in [Runners -> 0..MaxRun]
    /\ covered \subseteq -Lookback..LastInstant

(* From the first window on, everything published up to last_fetched_at is *)
(* stored: no failure, retry or overlap of runs makes the window jump over *)
(* an outage.                                                              *)
NoArticleSkipped ==
    schedule.last # NeverFetched =>
        covered # {} /\ Min(covered)..schedule.last \subseteq covered

(* The schedule never points at a due time whose job has already ended,    *)
(* with nothing left that would move it: it would be skipped as "already   *)
(* queued" by every pass from then on.                                     *)
NeverStuck ==
    ~ /\ Taken(schedule.next)
      /\ \A t \in DueTimes : queued[t] \in {"none", "done"}
      /\ \A r \in Runners : at[r] = "idle"

(* The count of failures in a row is never more than the failures there    *)
(* were, and the flag needs FAILURE_THRESHOLD of them, however stale the   *)
(* copies that overlapping runs count from.                                *)
FlagEarned ==
    /\ schedule.failures <= failures
    /\ schedule.flagged => failures >= Threshold
=============================================================================
