------------------------------- MODULE CronJob -------------------------------
(***************************************************************************)
(* The two jobs an operator's cron expression drives: the news sweep       *)
(* (enqueue_due_news_sweep) and the import of the exchange's session       *)
(* record (enqueue_daily_trading_summary), both in aidss/jobs/handlers.py  *)
(* and called by every scheduler pass.                                     *)
(*                                                                         *)
(* The two differ in what identifies a job.  A sweep's dedup key is the    *)
(* due time.  An import's key is the date, and the same key is used by the *)
(* administrator's "fetch now" and by the backfill of past dates.          *)
(*                                                                         *)
(* A cron expression is the hour at which it fires on every weekday; hours *)
(* and dates are UTC, in which the code computes the date of a key.        *)
(***************************************************************************)
EXTENDS Integers, FiniteSetsExt

CONSTANTS
    KeyedByDate,    \* TRUE: the session record; FALSE: the news sweep
    HoursPerDay,    \* hours in a day
    Crons,          \* hours an operator may choose
    Off,            \* the empty expression
    Unset,          \* next_run_at IS NULL
    Weekend,        \* days on which no cron fires
    Holidays,       \* days for which the exchange publishes nothing
    PublishHour,    \* hour from which a day's record is available
    Span,           \* days a backfill reaches back
    MaxGap,         \* longest time between two passes (assumed, not enforced)
    LastHour,       \* bound: the last instant
    MaxChanges,     \* bound: changes of the expression
    MaxFetches,     \* bound: fetches by hand
    MaxBackfills    \* bound: backfills

ASSUME CronAssumption ==
    /\ KeyedByDate \in BOOLEAN
    /\ HoursPerDay \in Nat \ {0} /\ Crons \subseteq 0..(HoursPerDay - 1)
    /\ Off \notin Crons /\ Unset \notin Nat
    /\ Weekend \subseteq Nat /\ IsFiniteSet(Weekend)
    /\ {PublishHour, Span, MaxGap, LastHour, MaxChanges, MaxFetches, MaxBackfills} \subseteq Nat

VARIABLES
    hours,          \* the clock
    cron,           \* platform_settings: the operator's expression
    entry,          \* the scheduler_jobs row, or a record of none
    keyedJobs,      \* job_queue, by dedup key
    stored,         \* days whose record is in daily_trading_summary
    sincePass,      \* time since the last pass
    changes, fetches, backfills

cronVars == <<hours, cron, entry, keyedJobs, stored, sincePass, changes, fetches, backfills>>
counters == <<changes, fetches, backfills>>

DayOf(t) == t \div HoursPerDay
Dates == 0..DayOf(LastHour)
Keys == IF KeyedByDate THEN Dates ELSE 0..LastHour

At(d, hour) == d * HoursPerDay + hour
(* Up to the first weekday after the last instant. *)
FireDays == (0..DayOf(LastHour) + Cardinality(Weekend) + 1) \ Weekend
FireTimes(hour) == {At(d, hour) : d \in FireDays}

(* Mutant: a firing at the very instant counts as the next one. *)
NextRunFromNow(hour, after) == Min({t \in FireTimes(hour) : t >= after})

(* croniter's first firing strictly after an instant. *)
NextRun(hour, after) == Min({t \in FireTimes(hour) : t > after})

NoRow == [exists |-> FALSE, expr |-> Off, active |-> FALSE, next |-> Unset]

CronInit ==
    /\ hours = 0
    /\ cron \in Crons \cup {Off}
    /\ entry = NoRow
    /\ keyedJobs = [k \in Keys |-> "none"]
    /\ stored = {}
    /\ sincePass = 0
    /\ changes = 0 /\ fetches = 0 /\ backfills = 0

-----------------------------------------------------------------------------
(* A scheduler pass: one of the five disjuncts below *)

(* The operator turned it off: the row is deactivated, not deleted. *)
Disable ==
    /\ cron = Off
    /\ entry' = [entry EXCEPT !.active = FALSE]
    /\ UNCHANGED keyedJobs

(* A row that is new, switched on again or of another expression. *)
Outdated == ~entry.exists \/ ~entry.active \/ entry.expr # cron

Anchored == [exists |-> TRUE, expr |-> cron, active |-> TRUE, next |-> NextRun(cron, hours)]

(* Mutant: a due time outlives the expression it came from. *)
AnchorKeepingNext ==
    /\ cron # Off /\ Outdated
    /\ entry' = [Anchored EXCEPT !.next = IF entry.next = Unset THEN @ ELSE entry.next]
    /\ UNCHANGED keyedJobs

(* It is anchored afresh, and nothing is queued in this pass. *)
Anchor ==
    /\ cron # Off /\ Outdated
    /\ entry' = Anchored
    /\ UNCHANGED keyedJobs

NotDue ==
    /\ cron # Off /\ ~Outdated /\ entry.next > hours
    /\ UNCHANGED <<entry, keyedJobs>>

Due == cron # Off /\ ~Outdated /\ entry.next <= hours

Key == IF KeyedByDate THEN DayOf(hours) ELSE entry.next

(* The job is created and the schedule advances. *)
QueueDue ==
    /\ Due /\ keyedJobs[Key] = "none"
    /\ keyedJobs' = [keyedJobs EXCEPT ![Key] = "queued"]
    /\ entry' = [entry EXCEPT !.next = NextRun(cron, hours)]

(* The key is taken: nothing is queued and nothing advances. *)
KeyTaken ==
    /\ Due /\ keyedJobs[Key] # "none"
    /\ UNCHANGED <<entry, keyedJobs>>

Pass ==
    /\ Disable \/ Anchor \/ NotDue \/ QueueDue \/ KeyTaken
    /\ sincePass' = 0
    /\ UNCHANGED <<hours, cron, stored, counters>>

-----------------------------------------------------------------------------
(* The operator, the workers and the clock *)

SetCron ==
    /\ changes < MaxChanges /\ changes' = changes + 1
    /\ \E c \in (Crons \cup {Off}) \ {cron} : cron' = c
    /\ UNCHANGED <<hours, entry, keyedJobs, stored, sincePass, fetches, backfills>>

(* POST /admin/market/fetch. *)
Fetch ==
    /\ KeyedByDate
    /\ fetches < MaxFetches /\ fetches' = fetches + 1
    /\ keyedJobs' = [keyedJobs EXCEPT ![DayOf(hours)] = IF @ = "none" THEN "queued" ELSE @]
    /\ UNCHANGED <<hours, cron, entry, stored, sincePass, changes, backfills>>

(* The weekdays a backfill would import. *)
Gaps == {d \in Dates : DayOf(hours) - Span < d /\ d <= DayOf(hours)} \ (Weekend \cup stored)

(* market.summary_backfill: one import per date, under the same keys. *)
Backfill ==
    /\ KeyedByDate
    /\ backfills < MaxBackfills /\ backfills' = backfills + 1
    /\ keyedJobs' = [d \in Keys |->
                       IF d \in Gaps /\ keyedJobs[d] = "none" THEN "queued" ELSE keyedJobs[d]]
    /\ UNCHANGED <<hours, cron, entry, stored, sincePass, changes, fetches>>

Published(d) == d \notin Holidays /\ hours >= At(d, PublishHour)

(* The job runs.  An import of a date with no rows succeeds with nothing.  *)
Run(k) ==
    /\ keyedJobs[k] = "queued"
    /\ keyedJobs' = [keyedJobs EXCEPT ![k] = "done"]
    /\ stored' = IF KeyedByDate /\ Published(k) THEN stored \cup {k} ELSE stored
    /\ UNCHANGED <<hours, cron, entry, sincePass, counters>>

(* It is dead-lettered: a permanent error, or no retry left. *)
Bury(k) ==
    /\ keyedJobs[k] = "queued"
    /\ keyedJobs' = [keyedJobs EXCEPT ![k] = "dead"]
    /\ UNCHANGED <<hours, cron, entry, stored, sincePass, counters>>

CronTick ==
    /\ hours < LastHour /\ hours' = hours + 1
    /\ sincePass < MaxGap /\ sincePass' = sincePass + 1
    /\ UNCHANGED <<cron, entry, keyedJobs, stored, counters>>

CronNext ==
    \/ Pass \/ SetCron \/ Fetch \/ Backfill \/ CronTick
    \/ \E k \in Keys : Run(k) \/ Bury(k)

CronSpec == CronInit /\ [][CronNext]_cronVars

-----------------------------------------------------------------------------
(* Properties *)

CronTypeOK ==
    /\ hours \in 0..LastHour /\ cron \in Crons \cup {Off}
    /\ entry \in [exists : BOOLEAN, expr : Crons \cup {Off}, active : BOOLEAN,
                  next : Nat \cup {Unset}]
    /\ entry.active => entry.exists /\ entry.expr # Off /\ entry.next # Unset
    /\ keyedJobs \in [Keys -> {"none", "queued", "done", "dead"}]
    /\ stored \subseteq Dates \ Holidays
    /\ sincePass \in 0..MaxGap

(* An active row's due time is one its own expression fires at: "a new     *)
(* expression must not inherit a due time computed from the old one".      *)
NextFitsExpression == entry.active => entry.next \in FireTimes(entry.expr)

(* A pass that finds the job due can queue it: no due time is ever one     *)
(* that has been queued already, or the schedule would stand still on it.  *)
DueIsQueueable == Due => keyedJobs[Key] = "none"

(* Across changes of the expression, a due time is fresh: one of the       *)
(* expression the row was anchored for, and, of the sweep, whose key it    *)
(* is, one that was not queued before.                                     *)
FreshDueTime == NextFitsExpression /\ (~KeyedByDate => DueIsQueueable)

(* With passes at least every MaxGap and an expression that fires after    *)
(* the record is out, as long as nobody changes it, fetches by hand or     *)
(* backfills, every session's record is queued on its own day and no       *)
(* import runs before there is something to import.                        *)
SessionsImported ==
    KeyedByDate /\ changes + fetches + backfills = 0 => \A d \in Dates \ Weekend :
        /\ cron # Off /\ MaxGap < At(d, cron) /\ At(d, cron) + MaxGap < hours
               => keyedJobs[d] # "none"
        /\ keyedJobs[d] = "done" => d \in stored \cup Holidays

(* The scheduler queues a day's import only from the hour the operator     *)
(* chose ("the operator decides when the platform touches the exchange").  *)
QueuedAtItsHour ==
    [][QueueDue => \A d \in Dates :
          keyedJobs'[d] # keyedJobs[d] => hours >= At(d, entry.expr)]_cronVars
=============================================================================
