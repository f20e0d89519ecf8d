------------------------------ MODULE MCProcesses ------------------------------
(* The processes that must go on: two schedulers and the schedule they     *)
(* serve, or two workers on the fallback without SKIP LOCKED and a job     *)
(* that outlasts its lock.  A behaviour is one of either part, and the     *)
(* variables of the other part stay as they began.                         *)
EXTENDS MCSchedulerLease

CONSTANTS s1, s2, j1, NoJob, w1, w2, NoWorker

VARIABLES part, row, at, job, ran, seen, work, ending, applied, leftover, raised, refused,
          crashes, endings, defers

Queue == INSTANCE JobQueue WITH
    Jobs <- {j1}, Workers <- {w1, w2}, SkipLocked <- FALSE, MaxRetries <- 1,
    RetryBase <- 1, RetryCap <- 2, LockTimeout <- 1, MaxRun <- 2,
    EnqueueDelays <- {0, 1}, DeferDelays <- {2},
    MaxLate <- 1, MaxFaults <- 1, MaxStops <- 0, MaxDefers <- 0,
    pc <- at, stopping <- ending, faults <- crashes, stops <- endings

queue == <<row, at, job, ran, seen, work, ending, applied, leftover, raised, refused,
           crashes, endings, defers>>
allVars == <<part, vars, queue>>

OnLease == part = "lease" /\ UNCHANGED <<part, queue>>
OnQueue == part = "queue" /\ UNCHANGED <<part, vars>>

ProcessesInit == part \in {"lease", "queue"} /\ Init /\ Queue!Init

ProcessesNext == (OnLease /\ Next) \/ (OnQueue /\ Queue!Next)

(* Each part's own fairness; as a behaviour belongs to one part, weak      *)
(* fairness of a disjunction over the parts is that of each.               *)
ProcessesFairness ==
    /\ WF_allVars((OnLease /\ Tick) \/ (OnQueue /\ Queue!Tick))
    /\ WF_allVars((OnLease /\ Step(s1)) \/ (OnQueue /\ Queue!Step(w1)))
    /\ WF_allVars((OnLease /\ Step(s2)) \/ (OnQueue /\ Queue!Step(w2)))
    /\ WF_allVars(OnQueue /\ Queue!Reclaim)
    /\ \A w \in {w1, w2} : WF_allVars(OnQueue /\ Queue!Start(w))

ProcessesSpec == ProcessesInit /\ [][ProcessesNext]_allVars /\ ProcessesFairness

-----------------------------------------------------------------------------
(* JobQueue: every job that was enqueued ends finished or dead-lettered.   *)
NoJobForgotten == Queue!NoJobForgotten

(* SchedulerLease: a due time is served as long as some scheduler is up.   *)
DueTimeServed == part = "lease" => ScheduleServed
=============================================================================
