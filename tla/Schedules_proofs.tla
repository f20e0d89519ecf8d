--------------------------- MODULE Schedules_proofs ---------------------------
(***************************************************************************)
(* Proofs about CronJob for every set of expressions, length of day,       *)
(* weekend and bound, and about NewsSchedule for every set of runners and  *)
(* every period, lookback and threshold.                                   *)
(***************************************************************************)
EXTENDS NewsSchedule, CronJob, FiniteSetTheorems, WellFoundedInduction, TLAPS

USE DEF counters, runVars

-----------------------------------------------------------------------------
(* Least elements *)

LEMMA MinimalElement ==
  ASSUME NEW T \in SUBSET Nat, T # {}, NEW R, IsWellFoundedOn(R, Nat)
  PROVE  \E r \in T : \A m \in T : ~(<<m, r>> \in R)
  <1>1. T \subseteq Nat /\ T # {} /\ IsWellFoundedOn(R, Nat)
    OBVIOUS
  <1> QED
    BY <1>1, WFMin, Zenon

LEMMA LeastIn ==
  ASSUME NEW T \in SUBSET Nat, T # {}, NEW R, IsWellFoundedOn(R, Nat),
         \A m, r \in Nat : m < r => <<m, r>> \in R
  PROVE  \E r \in T : \A m \in T : r <= m
  <1>1. PICK r \in T : \A m \in T : ~(<<m, r>> \in R)
    BY MinimalElement
  <1>2. ASSUME NEW m \in T PROVE r <= m
    <2>1. m \in Nat /\ r \in Nat /\ ~(<<m, r>> \in R)
      BY <1>1
    <2>2. ~(m < r)
      BY <2>1, Zenon
    <2> QED
      BY <2>1, <2>2
  <1> QED
    BY <1>2

LEMMA LessIsRelation == \A m, r \in Nat : m < r => <<m, r>> \in OpToRel(<, Nat)
  BY DEF OpToRel

LEMMA LeastNatural ==
  ASSUME NEW T \in SUBSET Nat, T # {}
  PROVE  \E r \in T : \A m \in T : r <= m
  BY LeastIn, LessIsRelation, NatLessThanWellFounded, Zenon

(* A set of integers with a bound below has the minimum that Min chooses.  *)
LEMMA MinOf ==
  ASSUME NEW S \in SUBSET Int, S # {}, NEW low \in Int, \A x \in S : low <= x
  PROVE  Min(S) \in S /\ \A y \in S : Min(S) <= y
  <1> DEFINE T == {x - low : x \in S}
  <1>1. T \in SUBSET Nat /\ T # {}
    <2>1. \A x \in S : x - low \in Nat
      OBVIOUS
    <2> QED
      BY <2>1, Zenon
  <1>2. PICK r \in T : \A m \in T : r <= m
    BY <1>1, LeastNatural
  <1>3. PICK x \in S : r = x - low
    BY <1>2
  <1>4. \A y \in S : x <= y
    BY <1>2, <1>3
  <1> QED
    BY <1>3, <1>4 DEF Min

-----------------------------------------------------------------------------
(* Days and due times *)

LEMMA CronNumbers ==
  /\ HoursPerDay \in Nat \ {0} /\ Crons \subseteq Nat
  /\ {PublishHour, Span, MaxGap, LastHour, MaxChanges, MaxFetches, MaxBackfills} \subseteq Nat
  BY CronAssumption

LEMMA DayBounds ==
  ASSUME NEW t \in Nat
  PROVE  DayOf(t) \in Nat /\ DayOf(t) * HoursPerDay <= t /\ t < (DayOf(t) + 1) * HoursPerDay
  BY CronNumbers DEF DayOf

(* Days follow one another: the hours of one are past before the next.     *)
LEMMA DaysFollow ==
  ASSUME NEW a \in Int, NEW b \in Int, a < b
  PROVE  a * HoursPerDay + HoursPerDay <= b * HoursPerDay
  <1>1. a + 1 <= b /\ HoursPerDay \in Nat
    BY CronNumbers
  <1>2. (a + 1) * HoursPerDay <= b * HoursPerDay
    BY <1>1
  <1> QED
    BY <1>1, <1>2

LEMMA DayIs ==
  ASSUME NEW t \in Nat, NEW d \in Nat,
         d * HoursPerDay <= t, t < d * HoursPerDay + HoursPerDay
  PROVE  DayOf(t) = d
  <1>1. DayOf(t) \in Nat /\ DayOf(t) * HoursPerDay <= t /\ t < DayOf(t) * HoursPerDay + HoursPerDay
    BY DayBounds, CronNumbers
  <1>2. CASE DayOf(t) < d
    BY <1>1, <1>2, DaysFollow, CronNumbers
  <1>3. CASE d < DayOf(t)
    BY <1>1, <1>3, DaysFollow, CronNumbers
  <1> QED
    BY <1>1, <1>2, <1>3

LEMMA DatesOfInstants ==
  ASSUME NEW t \in 0..LastHour
  PROVE  DayOf(t) \in Dates
  <1>1. /\ t \in Nat /\ LastHour \in Nat /\ t <= LastHour
        /\ DayOf(t) \in Nat /\ DayOf(LastHour) \in Nat
        /\ DayOf(t) * HoursPerDay <= t
        /\ LastHour < DayOf(LastHour) * HoursPerDay + HoursPerDay
    BY DayBounds, CronNumbers
  <1>2. ~(DayOf(LastHour) < DayOf(t))
    BY <1>1, DaysFollow, CronNumbers
  <1> QED
    BY <1>1, <1>2 DEF Dates

(* However the weekend falls, an expression fires again after any instant. *)
LEMMA FiresAgain ==
  ASSUME NEW hour \in Crons, NEW after \in 0..LastHour
  PROVE  \E t \in FireTimes(hour) : t > after
  <1> DEFINE D == DayOf(LastHour)
             W == Cardinality(Weekend)
             next == (D + 1)..(D + W + 1)
  <1>1. D \in Nat /\ W \in Nat /\ hour \in Nat /\ HoursPerDay \in Nat /\ LastHour \in Nat
        /\ LastHour < D * HoursPerDay + HoursPerDay
    <2>1. W \in Nat
      BY CronAssumption, FS_CardinalityType
    <2>2. hour \in Nat /\ HoursPerDay \in Nat /\ LastHour \in Nat
      BY CronNumbers
    <2>3. D \in Nat /\ LastHour < (D + 1) * HoursPerDay
      BY <2>2, DayBounds
    <2> QED
      BY <2>1, <2>2, <2>3
  <1> HIDE DEF D, W
  <1>2. IsFiniteSet(next) /\ Cardinality(next) = W + 1
    BY <1>1, FS_Interval
  <1>3. ~(next \subseteq Weekend)
    <2>1. next \subseteq Weekend => Cardinality(next) <= W
      BY CronAssumption, FS_Subset DEF W
    <2> QED
      BY <1>1, <1>2, <2>1
  <1>4. PICK d \in next : d \notin Weekend
    BY <1>3
  <1>5. d \in FireDays /\ d \in Nat /\ D < d
    BY <1>1, <1>4 DEF FireDays, D, W
  <1>6. At(d, hour) \in FireTimes(hour)
    BY <1>5 DEF FireTimes
  <1>7. D * HoursPerDay + HoursPerDay <= d * HoursPerDay
    BY <1>1, <1>5, DaysFollow
  <1>8. At(d, hour) > after
    BY <1>1, <1>5, <1>7 DEF At
  <1> QED
    BY <1>6, <1>8

LEMMA FireTimesAreInstants ==
  \A hour \in Crons : FireTimes(hour) \subseteq Nat /\ \A t \in FireTimes(hour) : t # Unset
  <1> SUFFICES ASSUME NEW hour \in Crons, NEW d \in FireDays
               PROVE  At(d, hour) \in Nat
    BY CronAssumption DEF FireTimes
  <1>1. d \in Nat /\ hour \in Nat /\ HoursPerDay \in Nat
    BY CronNumbers DEF FireDays
  <1> QED
    BY <1>1 DEF At

LEMMA NextRunIsNext ==
  ASSUME NEW hour \in Crons, NEW after \in 0..LastHour
  PROVE  /\ NextRun(hour, after) \in FireTimes(hour)
         /\ NextRun(hour, after) \in Nat /\ NextRun(hour, after) # Unset
         /\ NextRun(hour, after) > after
         /\ \A t \in FireTimes(hour) : t > after => NextRun(hour, after) <= t
  <1> DEFINE S == {t \in FireTimes(hour) : t > after}
  <1>1. S \in SUBSET Int /\ S # {} /\ \A x \in S : 0 <= x
    BY FiresAgain, FireTimesAreInstants
  <1>2. Min(S) \in S /\ \A y \in S : Min(S) <= y
    BY <1>1, MinOf
  <1> QED
    BY <1>2, FireTimesAreInstants DEF NextRun

-----------------------------------------------------------------------------
(* The cron-driven jobs *)

(* Of the sweep, whose keys are due times: those that were queued are past *)
(* and below the next.                                                     *)
KeysPast ==
    ~KeyedByDate => \A k \in Keys : keyedJobs[k] # "none" =>
        k <= hours /\ (entry.active => k < entry.next)

CountersAreNat == changes \in Nat /\ fetches \in Nat /\ backfills \in Nat

CronInv == CronTypeOK /\ CountersAreNat /\ NextFitsExpression /\ KeysPast

LEMMA CronInvInit == CronInit => CronInv
  BY CronNumbers DEF CronInit, CronInv, CronTypeOK, CountersAreNat, NextFitsExpression, KeysPast, NoRow

(* The key of a due job is one that job_queue may hold.                    *)
LEMMA KeyOfDue ==
  ASSUME CronTypeOK, Due
  PROVE  /\ Key \in Keys /\ entry.active /\ entry.expr = cron /\ cron \in Crons
         /\ entry.next \in Nat /\ entry.next <= hours
         /\ ~KeyedByDate => Key = entry.next
  <1>1. entry.active /\ entry.expr = cron /\ cron \in Crons /\ entry.next \in Nat
        /\ entry.next <= hours /\ hours \in 0..LastHour
    BY DEF CronTypeOK, Due, Outdated
  <1>2. Key \in Keys
    BY <1>1, CronNumbers, DatesOfInstants DEF Key, Keys
  <1> QED
    BY <1>1, <1>2 DEF Key

LEMMA PassKeepsCron ==
  ASSUME CronInv, Pass
  PROVE  CronInv'
  <1>0. /\ CronTypeOK /\ hours \in 0..LastHour /\ sincePass' = 0
        /\ UNCHANGED <<hours, cron, stored, changes, fetches, backfills>>
    BY DEF CronInv, CronTypeOK, Pass
  <1>1. CASE Disable
    <2>1. /\ ~entry'.active /\ keyedJobs' = keyedJobs
          /\ entry' \in [exists : BOOLEAN, expr : Crons \cup {Off}, active : BOOLEAN,
                         next : Nat \cup {Unset}]
      BY <1>0, <1>1 DEF Disable, CronTypeOK
    <2>2. CronTypeOK'
      BY <1>0, <2>1, CronNumbers DEF CronTypeOK
    <2> QED
      BY <1>0, <2>1, <2>2 DEF CronInv, CountersAreNat, NextFitsExpression, KeysPast
  <1>2. CASE Anchor
    <2>1. cron \in Crons
      BY <1>0, <1>2 DEF Anchor, CronTypeOK
    <2>2. /\ NextRun(cron, hours) \in FireTimes(cron) /\ NextRun(cron, hours) \in Nat
          /\ NextRun(cron, hours) # Unset /\ NextRun(cron, hours) > hours
      BY <1>0, <2>1, NextRunIsNext
    <2>3. /\ entry'.exists /\ entry'.active /\ entry'.expr = cron
          /\ entry'.next = NextRun(cron, hours) /\ keyedJobs' = keyedJobs
          /\ entry' \in [exists : BOOLEAN, expr : Crons \cup {Off}, active : BOOLEAN,
                         next : Nat \cup {Unset}]
      BY <1>2, <2>1, <2>2 DEF Anchor, Anchored
    <2>4. CronTypeOK'
      BY <1>0, <1>2, <2>2, <2>3, CronNumbers DEF CronTypeOK, Anchor
    <2>5. KeysPast'
      <3>1. Keys \subseteq Int
        BY CronNumbers, DayBounds DEF Keys, Dates
      <3> QED
        BY <1>0, <2>2, <2>3, <3>1 DEF CronInv, KeysPast
    <2> QED
      BY <1>0, <2>2, <2>3, <2>4, <2>5 DEF CronInv, CountersAreNat, NextFitsExpression
  <1>3. CASE NotDue \/ KeyTaken
    BY <1>0, <1>3, CronNumbers DEF NotDue, KeyTaken, CronInv, CronTypeOK, CountersAreNat, NextFitsExpression, KeysPast
  <1>4. CASE QueueDue
    <2>1. /\ Key \in Keys /\ entry.active /\ entry.expr = cron /\ cron \in Crons
          /\ entry.next \in Nat /\ entry.next <= hours
          /\ ~KeyedByDate => Key = entry.next
      BY <1>0, <1>4, KeyOfDue DEF QueueDue
    <2>2. /\ NextRun(cron, hours) \in FireTimes(cron) /\ NextRun(cron, hours) \in Nat
          /\ NextRun(cron, hours) # Unset /\ NextRun(cron, hours) > hours
      BY <1>0, <2>1, NextRunIsNext
    <2>3. /\ entry'.exists = entry.exists /\ entry'.active = entry.active
          /\ entry'.expr = entry.expr /\ entry'.next = NextRun(cron, hours)
          /\ entry' \in [exists : BOOLEAN, expr : Crons \cup {Off}, active : BOOLEAN,
                         next : Nat \cup {Unset}]
          /\ keyedJobs' = [keyedJobs EXCEPT ![Key] = "queued"]
      BY <1>0, <1>4, <2>2 DEF QueueDue, CronTypeOK
    <2>4. CronTypeOK'
      BY <1>0, <2>1, <2>2, <2>3, CronNumbers DEF CronTypeOK
    <2>5. KeysPast'
      <3>1. Keys \subseteq Int
        BY CronNumbers, DayBounds DEF Keys, Dates
      <3>2. \A k \in Keys \ {Key} : keyedJobs'[k] = keyedJobs[k]
        BY <2>3
      <3> QED
        BY <1>0, <2>1, <2>2, <2>3, <3>1, <3>2 DEF CronInv, KeysPast
    <2> QED
      BY <1>0, <2>1, <2>2, <2>3, <2>4, <2>5 DEF CronInv, CountersAreNat, NextFitsExpression
  <1> QED
    BY <1>1, <1>2, <1>3, <1>4 DEF Pass

LEMMA CronInvStep == CronInv /\ [CronNext]_cronVars => CronInv'
  <1> SUFFICES ASSUME CronInv, [CronNext]_cronVars PROVE CronInv'
    OBVIOUS
  <1> USE DEF CronInv, CronTypeOK, CountersAreNat, NextFitsExpression, KeysPast
  <1>1. CASE Pass
    BY <1>1, PassKeepsCron
  <1>2. CASE SetCron
    BY <1>2 DEF SetCron
  <1>3. CASE Fetch
    <2>1. KeyedByDate /\ DayOf(hours) \in Keys
      BY <1>3, DatesOfInstants DEF Fetch, Keys
    <2> QED
      BY <1>3, <2>1 DEF Fetch
  <1>4. CASE Backfill
    BY <1>4 DEF Backfill
  <1>5. CASE CronTick
    <2>1. hours' \in 0..LastHour /\ hours < hours' /\ sincePass' \in 0..MaxGap
      BY <1>5, CronNumbers DEF CronTick
    <2>2. Keys \subseteq Int
      BY CronNumbers, DayBounds DEF Keys, Dates
    <2> QED
      BY <1>5, <2>1, <2>2 DEF CronTick
  <1>6. ASSUME NEW k \in Keys, Run(k) PROVE CronInv'
    <2>1. KeyedByDate /\ Published(k) => k \in Dates \ Holidays
      BY DEF Published, Keys
    <2> QED
      BY <1>6, <2>1 DEF Run
  <1>7. ASSUME NEW k \in Keys, Bury(k) PROVE CronInv'
    BY <1>7 DEF Bury
  <1>8. CASE UNCHANGED cronVars
    BY <1>8 DEF cronVars
  <1> QED
    BY <1>1, <1>2, <1>3, <1>4, <1>5, <1>6, <1>7, <1>8 DEF CronNext

(* The row, the queue and the record keep their shape: no day without a    *)
(* session is ever in the record.                                          *)
THEOREM CronTypeCorrect == CronSpec => []CronTypeOK
  <1>1. CronInv => CronTypeOK
    BY DEF CronInv
  <1> QED
    BY <1>1, CronInvInit, CronInvStep, PTL DEF CronSpec

(* Whatever the operator changes between passes, a due time is one of the  *)
(* expression the row was anchored for, and of the sweep one that was not  *)
(* queued before: the schedule cannot stand still on a taken key.          *)
THEOREM DueTimesAreFresh == CronSpec => []FreshDueTime
  <1>1. CronInv => FreshDueTime
    <2> SUFFICES ASSUME CronInv, ~KeyedByDate, Due PROVE keyedJobs[Key] = "none"
      BY DEF CronInv, FreshDueTime, DueIsQueueable
    <2>1. Key \in Keys /\ Key = entry.next /\ entry.active /\ entry.next \in Nat
      BY KeyOfDue DEF CronInv
    <2> QED
      BY <2>1 DEF CronInv, KeysPast
  <1> QED
    BY <1>1, CronInvInit, CronInvStep, PTL DEF CronSpec

-----------------------------------------------------------------------------
(* The session record's import, which is keyed by the date of its pass     *)

(* What the code counts on without enforcing it: an expression fires after *)
(* the record is out, and early enough that the pass which queues the      *)
(* import is still of the same day.                                        *)
CronsFitTheDay == \A c \in Crons : PublishHour <= c /\ c + MaxGap <= HoursPerDay

Untouched == KeyedByDate /\ changes + fetches + backfills = 0

(* Before the first pass that sees an expression nothing is queued.        *)
NotYet ==
    ~entry.exists =>
        /\ \A d \in Dates : keyedJobs[d] = "none"
        /\ cron # Off => sincePass = hours

(* From then on a pass has seen everything that was due, and what is       *)
(* queued is exactly what came before the due time.                        *)
UpToDate ==
    entry.exists =>
        /\ entry.active /\ entry.expr = cron /\ hours < entry.next + sincePass
        /\ \A d \in Dates \ Weekend :
             MaxGap < At(d, cron) /\ At(d, cron) < entry.next => keyedJobs[d] # "none"
        /\ \A d \in Dates :
             keyedJobs[d] # "none" => At(d, cron) < entry.next /\ At(d, cron) <= hours

(* An import that has run found its record, or it is a holiday.            *)
ImportedInTime == \A d \in Dates : keyedJobs[d] = "done" => d \in stored \cup Holidays

SessionInv == Untouched => NotYet /\ UpToDate /\ ImportedInTime

LEMMA DatesAreDays == Dates \subseteq Nat /\ (KeyedByDate => Keys = Dates)
  BY CronNumbers, DayBounds DEF Dates, Keys

LEMMA SessionInit == CronInit => SessionInv
  BY DatesAreDays DEF CronInit, SessionInv, Untouched, NotYet, UpToDate, ImportedInTime, NoRow

(* A due import is of the day of its due time, and not queued yet.         *)
LEMMA DueToday ==
  ASSUME CronsFitTheDay, CronInv, KeyedByDate, UpToDate, Due
  PROVE  /\ entry.exists /\ cron \in Crons /\ Key \in Dates \ Weekend
         /\ entry.next = At(Key, cron) /\ keyedJobs[Key] = "none"
         /\ hours < Key * HoursPerDay + HoursPerDay
  <1>1. /\ entry.active /\ entry.exists /\ entry.expr = cron /\ cron \in Crons
        /\ entry.next \in Nat /\ entry.next <= hours /\ entry.next \in FireTimes(cron)
        /\ hours \in 0..LastHour /\ sincePass \in 0..MaxGap
        /\ hours < entry.next + sincePass
    BY KeyOfDue DEF CronInv, CronTypeOK, NextFitsExpression, UpToDate
  <1>2. PICK d \in FireDays : entry.next = At(d, cron)
    BY <1>1 DEF FireTimes
  <1>3. /\ d \in Nat /\ d \notin Weekend /\ cron \in Nat /\ HoursPerDay \in Nat
        /\ MaxGap \in Nat /\ cron + MaxGap <= HoursPerDay /\ d * HoursPerDay \in Nat
    <2>1. d \in Nat /\ d \notin Weekend
      BY <1>2 DEF FireDays
    <2> QED
      BY <1>1, <2>1, CronNumbers DEF CronsFitTheDay
  <1>4. d * HoursPerDay <= hours /\ hours < d * HoursPerDay + HoursPerDay
    BY <1>1, <1>2, <1>3 DEF At
  <1>5. Key = d
    BY <1>1, <1>3, <1>4, DayIs DEF Key
  <1>6. d \in Dates
    BY <1>1, <1>5, DatesOfInstants DEF Key
  <1>7. keyedJobs[d] = "none"
    BY <1>1, <1>2, <1>6 DEF UpToDate
  <1> QED
    BY <1>1, <1>2, <1>3, <1>4, <1>5, <1>6, <1>7

LEMMA DatesFire ==
  \A d \in Dates \ Weekend, hour \in Crons : At(d, hour) \in FireTimes(hour)
  <1>1. Cardinality(Weekend) \in Nat
    BY CronAssumption, FS_CardinalityType
  <1>2. DayOf(LastHour) \in Nat
    BY CronNumbers, DayBounds
  <1>3. Dates \subseteq 0..DayOf(LastHour) + Cardinality(Weekend) + 1
    BY <1>1, <1>2 DEF Dates
  <1> QED
    BY <1>3 DEF FireTimes, FireDays

LEMMA AtType == \A d \in Nat, c \in Crons : At(d, c) \in Nat /\ d * HoursPerDay \in Nat
  BY CronNumbers DEF At

LEMMA SessionPass ==
  ASSUME CronsFitTheDay, CronInv, Untouched, NotYet, UpToDate, ImportedInTime, Pass
  PROVE  NotYet' /\ UpToDate' /\ ImportedInTime'
  <1>0. /\ KeyedByDate /\ hours \in 0..LastHour /\ sincePass \in 0..MaxGap /\ sincePass' = 0
        /\ cron \in Crons \cup {Off} /\ UNCHANGED <<hours, cron, stored>>
        /\ entry.active => entry.exists /\ entry.expr # Off
    BY DEF CronInv, CronTypeOK, Pass, Untouched
  <1>1. CASE Disable
    <2>1. ~entry.exists /\ cron = Off
      BY <1>0, <1>1 DEF Disable, UpToDate
    <2>2. ~entry'.exists /\ keyedJobs' = keyedJobs
      BY <1>1, <2>1 DEF Disable, CronInv, CronTypeOK
    <2> QED
      BY <1>0, <2>1, <2>2 DEF NotYet, UpToDate, ImportedInTime
  <1>2. CASE Anchor
    <2>1. /\ cron \in Crons /\ ~entry.exists /\ hours <= MaxGap
          /\ \A d \in Dates : keyedJobs[d] = "none"
      BY <1>0, <1>2, CronNumbers DEF Anchor, Outdated, UpToDate, NotYet
    <2>2. /\ NextRun(cron, hours) \in Nat /\ NextRun(cron, hours) > hours
          /\ \A t \in FireTimes(cron) : t > hours => NextRun(cron, hours) <= t
      BY <1>0, <2>1, NextRunIsNext
    <2>3. /\ entry'.exists /\ entry'.active /\ entry'.expr = cron
          /\ entry'.next = NextRun(cron, hours) /\ keyedJobs' = keyedJobs
      BY <1>2 DEF Anchor, Anchored
    <2>4. ASSUME NEW d \in Dates \ Weekend, MaxGap < At(d, cron), At(d, cron) < entry'.next
          PROVE  FALSE
      <3>1. At(d, cron) \in FireTimes(cron) /\ At(d, cron) \in Nat
        BY <2>1, DatesFire, DatesAreDays, AtType
      <3> QED
        BY <1>0, <2>1, <2>2, <2>3, <2>4, <3>1, CronNumbers
    <2>5. UpToDate'
      BY <1>0, <2>1, <2>2, <2>3, <2>4 DEF UpToDate
    <2> QED
      BY <1>0, <2>3, <2>5 DEF NotYet, ImportedInTime
  <1>3. CASE NotDue
    <2>1. UNCHANGED <<entry, keyedJobs>> /\ entry.next > hours /\ cron # Off /\ ~Outdated
      BY <1>3 DEF NotDue
    <2>2. entry.exists /\ entry.next \in Nat
      BY <2>1 DEF Outdated, CronInv, CronTypeOK
    <2> QED
      BY <1>0, <2>1, <2>2 DEF NotYet, UpToDate, ImportedInTime
  <1>4. CASE KeyTaken
    BY <1>0, <1>4, DueToday DEF KeyTaken
  <1>5. CASE QueueDue
    <2>1. /\ entry.exists /\ cron \in Crons /\ Key \in Dates \ Weekend
          /\ entry.next = At(Key, cron) /\ keyedJobs[Key] = "none"
          /\ hours < Key * HoursPerDay + HoursPerDay /\ Due
      BY <1>0, <1>5, DueToday DEF QueueDue
    <2>2. /\ NextRun(cron, hours) \in Nat /\ NextRun(cron, hours) > hours
          /\ \A t \in FireTimes(cron) : t > hours => NextRun(cron, hours) <= t
      BY <1>0, <2>1, NextRunIsNext
    <2>3. /\ entry'.exists /\ entry'.active /\ entry'.expr = cron
          /\ entry'.next = NextRun(cron, hours)
          /\ keyedJobs' = [keyedJobs EXCEPT ![Key] = "queued"]
      BY <1>0, <1>5, <2>1 DEF QueueDue, UpToDate, CronInv, CronTypeOK
    <2>4. /\ keyedJobs'[Key] = "queued"
          /\ \A d \in Dates \ {Key} : keyedJobs'[d] = keyedJobs[d]
      BY <1>0, <2>1, <2>3, DatesAreDays DEF CronInv, CronTypeOK
    <2>5. Key \in Nat /\ cron \in Nat /\ entry.next \in Nat /\ entry.next <= hours
          /\ hours \in Nat /\ HoursPerDay \in Nat
      BY <1>0, <2>1, DatesAreDays, AtType, KeyOfDue, CronNumbers DEF CronInv
    <2>6. ASSUME NEW d \in Dates \ Weekend, MaxGap < At(d, cron), At(d, cron) < entry'.next
          PROVE  keyedJobs'[d] # "none"
      <3>1. d \in Nat /\ At(d, cron) \in Nat /\ At(d, cron) \in FireTimes(cron)
            /\ d * HoursPerDay \in Nat /\ Key * HoursPerDay \in Nat
        BY <2>1, <2>5, DatesFire, DatesAreDays, AtType
      <3>2. CASE d = Key
        BY <2>4, <3>2
      <3>3. CASE d < Key
        <4>1. d * HoursPerDay + HoursPerDay <= Key * HoursPerDay
          BY <2>5, <3>1, <3>3, DaysFollow
        <4>2. At(d, cron) < entry.next
          BY <2>1, <2>5, <3>1, <4>1, CronNumbers DEF At
        <4> QED
          BY <1>0, <2>1, <2>4, <2>6, <3>3, <4>2 DEF UpToDate
      <3>4. CASE Key < d
        <4>1. Key * HoursPerDay + HoursPerDay <= d * HoursPerDay
          BY <2>5, <3>1, <3>4, DaysFollow
        <4>2. At(d, cron) > hours
          BY <2>1, <2>5, <3>1, <4>1 DEF At
        <4> QED
          BY <2>2, <2>3, <2>6, <3>1, <4>2
      <3> QED
        BY <2>5, <3>1, <3>2, <3>3, <3>4
    <2>7. ASSUME NEW d \in Dates, keyedJobs'[d] # "none"
          PROVE  At(d, cron) < entry'.next /\ At(d, cron) <= hours
      <3>1. At(d, cron) \in Nat
        BY <2>1, DatesAreDays, AtType
      <3>2. CASE d = Key
        BY <2>1, <2>2, <2>3, <2>5, <3>1, <3>2
      <3>3. CASE d # Key
        BY <1>0, <2>1, <2>2, <2>3, <2>4, <2>5, <2>7, <3>1, <3>3 DEF UpToDate
      <3> QED
        BY <3>2, <3>3
    <2>8. UpToDate'
      BY <1>0, <2>2, <2>3, <2>6, <2>7 DEF UpToDate
    <2> QED
      BY <1>0, <2>3, <2>4, <2>8 DEF NotYet, ImportedInTime
  <1> QED
    BY <1>1, <1>2, <1>3, <1>4, <1>5 DEF Pass

LEMMA SessionStep ==
  ASSUME CronsFitTheDay, CronInv, SessionInv, [CronNext]_cronVars
  PROVE  SessionInv'
  <1> SUFFICES ASSUME Untouched' PROVE NotYet' /\ UpToDate' /\ ImportedInTime'
    BY DEF SessionInv
  <1>1. ~SetCron /\ ~Fetch /\ ~Backfill
    BY DEF SetCron, Fetch, Backfill, Untouched, CronInv, CountersAreNat
  <1>2. Untouched
    BY <1>1 DEF Untouched, CronNext, Pass, CronTick, Run, Bury, cronVars
  <1>3. NotYet /\ UpToDate /\ ImportedInTime /\ KeyedByDate /\ Keys = Dates
    BY <1>2, DatesAreDays DEF SessionInv, Untouched
  <1>4. CASE Pass
    BY <1>2, <1>3, <1>4, SessionPass
  <1>5. CASE CronTick
    <2>1. /\ hours' = hours + 1 /\ sincePass' = sincePass + 1 /\ hours \in Nat /\ sincePass \in Nat
          /\ UNCHANGED <<cron, entry, keyedJobs, stored>>
      BY <1>5, CronNumbers DEF CronTick, CronInv, CronTypeOK
    <2>2. NotYet' /\ ImportedInTime'
      BY <1>3, <2>1 DEF NotYet, ImportedInTime
    <2>3. UpToDate'
      <3> SUFFICES ASSUME entry.exists PROVE UpToDate'
        BY <2>1 DEF UpToDate
      <3>1. entry.next \in Nat /\ cron \in Crons
        BY <1>3 DEF UpToDate, CronInv, CronTypeOK
      <3>2. \A d \in Dates : At(d, cron) \in Nat
        BY <3>1, AtType, DatesAreDays
      <3> QED
        BY <1>3, <2>1, <3>1, <3>2 DEF UpToDate
    <2> QED
      BY <2>2, <2>3
  <1>6. ASSUME NEW k \in Keys, Run(k) \/ Bury(k)
        PROVE  NotYet' /\ UpToDate' /\ ImportedInTime'
    <2>1. /\ UNCHANGED <<hours, cron, entry, sincePass>> /\ keyedJobs[k] = "queued" /\ k \in Dates
          /\ \A d \in Dates : keyedJobs'[d] # "none" <=> keyedJobs[d] # "none"
          /\ \A d \in Dates \ {k} : keyedJobs'[d] = keyedJobs[d]
          /\ stored \subseteq stored'
      BY <1>3, <1>6 DEF Run, Bury, CronInv, CronTypeOK
    <2>2. entry.exists
      BY <1>3, <2>1 DEF NotYet
    <2>3. keyedJobs'[k] = "done" => k \in stored' \cup Holidays
      <3>1. CASE Bury(k)
        BY <1>3, <3>1 DEF Bury, CronInv, CronTypeOK
      <3>2. CASE Run(k)
        <4>1. cron \in Crons /\ At(k, cron) <= hours /\ k \in Nat /\ hours \in Nat
          BY <1>3, <2>1, <2>2, DatesAreDays, CronNumbers DEF UpToDate, CronInv, CronTypeOK
        <4>2. /\ At(k, cron) \in Nat /\ k * HoursPerDay \in Nat /\ PublishHour <= cron
              /\ PublishHour \in Nat /\ cron \in Nat
          BY <4>1, AtType, CronNumbers DEF CronsFitTheDay
        <4>3. At(k, PublishHour) <= hours
          BY <4>1, <4>2 DEF At
        <4>4. k \in Holidays \/ Published(k)
          BY <4>1, <4>2, <4>3 DEF Published, At
        <4> QED
          BY <1>3, <3>2, <4>4 DEF Run
      <3> QED
        BY <1>6, <3>1, <3>2
    <2>4. ImportedInTime'
      BY <1>3, <2>1, <2>3 DEF ImportedInTime
    <2> QED
      BY <1>3, <2>1, <2>2, <2>4 DEF NotYet, UpToDate
  <1>7. CASE UNCHANGED cronVars
    BY <1>3, <1>7 DEF cronVars, NotYet, UpToDate, ImportedInTime
  <1> QED
    BY <1>1, <1>4, <1>5, <1>6, <1>7 DEF CronNext

(* However many days, holidays and weekends: with an expression that fires *)
(* after the record is out and a pass on the same day, every session's     *)
(* import is queued on its day, and an import that ran found its record.   *)
THEOREM SessionsAreImported == ASSUME CronsFitTheDay PROVE CronSpec => []SessionsImported
  <1>1. CronInv /\ SessionInv => SessionsImported
    <2> SUFFICES ASSUME CronInv, SessionInv, Untouched, NEW d \in Dates \ Weekend
                 PROVE  /\ cron # Off /\ MaxGap < At(d, cron) /\ At(d, cron) + MaxGap < hours
                             => keyedJobs[d] # "none"
                        /\ keyedJobs[d] = "done" => d \in stored \cup Holidays
      BY DEF SessionsImported, Untouched
    <2>1. NotYet /\ UpToDate /\ ImportedInTime
      BY DEF SessionInv
    <2>2. ASSUME cron # Off, MaxGap < At(d, cron), At(d, cron) + MaxGap < hours
          PROVE  keyedJobs[d] # "none"
      <3>1. /\ cron \in Crons /\ hours \in Nat /\ sincePass \in Nat /\ sincePass <= MaxGap
            /\ MaxGap \in Nat /\ At(d, cron) \in Nat
        BY <2>2, DatesAreDays, AtType, CronNumbers DEF CronInv, CronTypeOK
      <3>2. entry.exists
        BY <2>1, <2>2, <3>1 DEF NotYet
      <3>3. entry.next \in Nat /\ hours < entry.next + sincePass
        BY <2>1, <3>2 DEF UpToDate, CronInv, CronTypeOK
      <3>4. At(d, cron) < entry.next
        BY <2>2, <3>1, <3>3
      <3> QED
        BY <2>1, <2>2, <3>2, <3>4 DEF UpToDate
    <2> QED
      BY <2>1, <2>2 DEF ImportedInTime
  <1>2. CronInit => CronInv /\ SessionInv
    BY CronInvInit, SessionInit
  <1>3. CronInv /\ SessionInv /\ [CronNext]_cronVars => CronInv' /\ SessionInv'
    BY CronInvStep, SessionStep
  <1> QED
    BY <1>1, <1>2, <1>3, PTL DEF CronSpec

-----------------------------------------------------------------------------
(* Firings of a schedule *)

LEMMA NewsNumbers ==
  /\ Period \in Nat \ {0}
  /\ {Lookback, Threshold, MaxLate, MaxRun, LastInstant, MaxManual, MaxFailures} \subseteq Nat
  /\ Manual \notin Nat /\ NeverFetched \notin Nat
  BY NewsAssumption

Firing(t) == \E k \in Nat : t = k * Period

LEMMA FiringsFollow ==
  ASSUME NEW a, NEW b, Firing(a), Firing(b), a < b
  PROVE  a + Period <= b
  <1>1. PICK j \in Nat : a = j * Period
    BY DEF Firing
  <1>2. PICK k \in Nat : b = k * Period
    BY DEF Firing
  <1>3. Period \in Nat /\ j * Period < k * Period
    BY <1>1, <1>2, NewsNumbers
  <1>4. j < k
    <2>1. ASSUME k <= j PROVE FALSE
      <3>1. k * Period <= j * Period
        BY <1>3, <2>1
      <3> QED
        BY <1>3, <3>1
    <2> QED
      BY <2>1
  <1>5. (j + 1) * Period <= k * Period
    BY <1>3, <1>4
  <1> QED
    BY <1>1, <1>2, <1>3, <1>5

LEMMA NextFiringIsNext ==
  ASSUME NEW t \in Nat
  PROVE  /\ NextFiring(t) \in Nat /\ Firing(NextFiring(t))
         /\ t < NextFiring(t) /\ NextFiring(t) <= t + Period
         /\ \A m \in Nat : Firing(m) /\ t < m => NextFiring(t) <= m
  <1> DEFINE q == t \div Period
  <1>1. q \in Nat /\ q * Period <= t /\ t < (q + 1) * Period /\ Period \in Nat
    BY NewsNumbers
  <1>2. NextFiring(t) = (q + 1) * Period
    BY DEF NextFiring
  <1> HIDE DEF q
  <1>3. (q + 1) * Period = q * Period + Period /\ (q + 1) * Period \in Nat /\ q * Period \in Nat
    BY <1>1
  <1>4. Firing(NextFiring(t)) /\ Firing(q * Period)
    <2>1. q + 1 \in Nat
      BY <1>1
    <2> QED
      BY <1>1, <1>2, <2>1, Zenon DEF Firing
  <1>5. ASSUME NEW m \in Nat, Firing(m), t < m PROVE NextFiring(t) <= m
    <2>1. q * Period < m
      BY <1>1, <1>3, <1>5
    <2>2. q * Period + Period <= m
      BY <1>4, <1>5, <2>1, FiringsFollow
    <2> QED
      BY <1>2, <1>3, <2>2
  <1> QED
    BY <1>1, <1>2, <1>3, <1>4, <1>5

(* Later instants have later firings. *)
LEMMA NextFiringGrows ==
  ASSUME NEW a \in Nat, NEW b \in Nat, a <= b
  PROVE  NextFiring(a) <= NextFiring(b)
  BY NextFiringIsNext

-----------------------------------------------------------------------------
(* The news schedule *)

NewsTyped ==
    /\ clock \in 0..LastInstant
    /\ schedule \in Row
    /\ queued \in [DueTimes -> {"none", "queued", "running", "done"}]
    /\ passing = NoPass \/ passing \in [next : Nat, at : 0..LastInstant]
    /\ at \in [Runners -> {"idle", "loaded", "fetching"}]
    /\ job \in [Runners -> DueTimes \cup {Manual}]
    /\ seen \in [Runners -> Row]
    /\ until \in [Runners -> 0..LastInstant]
    /\ ran \in [Runners -> 0..MaxRun]
    /\ covered \subseteq -Lookback..LastInstant
    /\ failures \in Nat

(* A running job has one runner, and a runner at most one job. *)
RunsApart ==
    /\ \A r \in Runners : job[r] # Manual => at[r] # "idle" /\ queued[job[r]] = "running"
    /\ \A r, q \in Runners : job[r] # Manual /\ job[r] = job[q] => r = q
    /\ \A t \in DueTimes : queued[t] = "running" => \E r \in Runners : job[r] = t

(* When a run loaded the row. *)
Loaded(r) == clock - ran[r]

(* A run reads the clock once it has loaded the row. *)
RunsInTime ==
    \A r \in Runners :
        /\ at[r] = "idle" => ran[r] = 0
        /\ 0 <= Loaded(r)
        /\ at[r] = "fetching" => Loaded(r) <= until[r] /\ until[r] <= clock

(* No copy of the row counts more failures than there were. *)
CopiesEarned ==
    \A r \in Runners :
        /\ seen[r].failures <= failures
        /\ seen[r].flagged => failures >= Threshold

NewsInv == NewsTyped /\ RunsApart /\ RunsInTime /\ FlagEarned /\ CopiesEarned

LEMMA NewRowType ==
  /\ NewRow \in Row /\ NewRow.failures = 0 /\ ~NewRow.flagged
  /\ NewRow.last = NeverFetched /\ NewRow.next = NextFiring(0)
  BY NextFiringIsNext DEF NewRow, Row

LEMMA DueTimesType == \A t \in DueTimes : t \in Nat /\ t <= LastInstant /\ t # Manual
  BY NewsNumbers DEF DueTimes

(* Of each column a run writes its own value, or leaves what is there.     *)
LEMMA WrittenFields ==
  ASSUME schedule \in Row, NEW r \in Runners, NEW new \in Row
  PROVE  /\ Written(r, new) \in Row
         /\ Written(r, new).next = IF new.next = seen[r].next THEN schedule.next ELSE new.next
         /\ Written(r, new).last = IF new.last = seen[r].last THEN schedule.last ELSE new.last
         /\ Written(r, new).failures =
              IF new.failures = seen[r].failures THEN schedule.failures ELSE new.failures
         /\ Written(r, new).flagged =
              IF new.flagged = seen[r].flagged THEN schedule.flagged ELSE new.flagged
  <1>1. DOMAIN schedule = {"next", "last", "failures", "flagged"}
    BY DEF Row
  <1> QED
    BY <1>1 DEF Written, Row

LEMMA NewsInvInit == NewsInit => NewsInv
  <1> SUFFICES ASSUME NewsInit PROVE NewsInv
    OBVIOUS
  <1>1. NewsTyped
    BY NewsNumbers, NewRowType DEF NewsInit, NewsTyped
  <1>2. RunsApart /\ RunsInTime
    BY NewsNumbers DEF NewsInit, RunsApart, RunsInTime, Loaded
  <1>3. FlagEarned /\ CopiesEarned
    BY NewsNumbers, NewRowType DEF NewsInit, FlagEarned, CopiesEarned
  <1> QED
    BY <1>1, <1>2, <1>3 DEF NewsInv

(* What a run leaves behind: its runner is idle, its job ended, no job     *)
(* forgotten, and every other run is as it was.                            *)
Ended(r) ==
    /\ at'[r] = "idle" /\ job'[r] = Manual /\ seen'[r] = NewRow
    /\ until'[r] = 0 /\ ran'[r] = 0
    /\ \A q \in Runners \ {r} :
         /\ at'[q] = at[q] /\ job'[q] = job[q] /\ seen'[q] = seen[q]
         /\ until'[q] = until[q] /\ ran'[q] = ran[q]
    /\ \A t \in DueTimes : queued'[t] = "none" <=> queued[t] = "none"

LEMMA EndEnds ==
  ASSUME NewsTyped, RunsApart, NEW r \in Runners, End(r, "queued") \/ End(r, "done")
  PROVE  /\ Ended(r) /\ RunsApart'
         /\ queued' \in [DueTimes -> {"none", "queued", "running", "done"}]
         /\ at' \in [Runners -> {"idle", "loaded", "fetching"}]
         /\ job' \in [Runners -> DueTimes \cup {Manual}]
         /\ seen' \in [Runners -> Row] /\ until' \in [Runners -> 0..LastInstant]
         /\ ran' \in [Runners -> 0..MaxRun]
  <1>1. PICK outcome \in {"queued", "done"} : End(r, outcome)
    OBVIOUS
  <1>2. /\ at' \in [Runners -> {"idle", "loaded", "fetching"}]
        /\ job' \in [Runners -> DueTimes \cup {Manual}]
        /\ seen' \in [Runners -> Row] /\ until' \in [Runners -> 0..LastInstant]
        /\ ran' \in [Runners -> 0..MaxRun]
    BY <1>1, NewRowType, NewsNumbers DEF End, NewsTyped
  <1>3. /\ at'[r] = "idle" /\ job'[r] = Manual /\ seen'[r] = NewRow
        /\ until'[r] = 0 /\ ran'[r] = 0
        /\ \A q \in Runners \ {r} :
             /\ at'[q] = at[q] /\ job'[q] = job[q] /\ seen'[q] = seen[q]
             /\ until'[q] = until[q] /\ ran'[q] = ran[q]
    BY <1>1 DEF End, NewsTyped
  <1>4. /\ queued' \in [DueTimes -> {"none", "queued", "running", "done"}]
        /\ job[r] = Manual => queued' = queued
        /\ job[r] # Manual => queued'[job[r]] = outcome /\ queued[job[r]] = "running"
        /\ \A t \in DueTimes : t # job[r] => queued'[t] = queued[t]
    BY <1>1 DEF End, NewsTyped, RunsApart
  <1>5. \A t \in DueTimes : queued'[t] = "none" <=> queued[t] = "none"
    BY <1>1, <1>4
  <1>6. RunsApart'
    BY <1>1, <1>3, <1>4, <1>2, DueTimesType DEF RunsApart, NewsTyped
  <1> QED
    BY <1>2, <1>3, <1>4, <1>5, <1>6 DEF Ended

(* A run starts from a copy of the row. *)
Starts(r) ==
    /\ at[r] = "idle" /\ at'[r] = "loaded" /\ seen'[r] = schedule
    /\ \A q \in Runners \ {r} : at'[q] = at[q] /\ seen'[q] = seen[q] /\ job'[q] = job[q]
    /\ \A t \in DueTimes : queued'[t] = "none" <=> queued[t] = "none"
    /\ UNCHANGED <<clock, schedule, passing, until, ran, covered, failures>>

LEMMA RunStarts ==
  ASSUME NewsTyped, RunsApart, NEW r \in Runners, RunJob(r) \/ RunNow(r)
  PROVE  /\ Starts(r) /\ RunsApart'
         /\ queued' \in [DueTimes -> {"none", "queued", "running", "done"}]
         /\ at' \in [Runners -> {"idle", "loaded", "fetching"}]
         /\ job' \in [Runners -> DueTimes \cup {Manual}] /\ seen' \in [Runners -> Row]
  <1>1. CASE RunNow(r)
    <2>1. LoadFor(r, Manual) /\ queued' = queued
      BY <1>1 DEF RunNow
    <2>2. Starts(r)
      BY <2>1 DEF LoadFor, Starts, NewsTyped
    <2>3. /\ at' \in [Runners -> {"idle", "loaded", "fetching"}] /\ job'[r] = Manual
          /\ job' \in [Runners -> DueTimes \cup {Manual}] /\ seen' \in [Runners -> Row]
      BY <2>1 DEF LoadFor, NewsTyped
    <2>4. RunsApart'
      <3>1. job[r] = Manual
        BY <2>2 DEF Starts, RunsApart
      <3>2. \A q \in Runners : job'[q] = job[q]
        BY <2>2, <2>3, <3>1 DEF Starts
      <3>3. \A q \in Runners : at[q] # "idle" => at'[q] # "idle"
        BY <2>2 DEF Starts
      <3> QED
        BY <2>1, <3>2, <3>3 DEF RunsApart
    <2> QED
      BY <2>1, <2>2, <2>3, <2>4 DEF NewsTyped
  <1>2. CASE RunJob(r)
    <2>1. PICK t \in DueTimes : /\ queued[t] = "queued" /\ LoadFor(r, t)
                                /\ queued' = [queued EXCEPT ![t] = "running"]
      BY <1>2 DEF RunJob
    <2>2. /\ queued'[t] = "running" /\ \A d \in DueTimes \ {t} : queued'[d] = queued[d]
          /\ queued' \in [DueTimes -> {"none", "queued", "running", "done"}]
      BY <2>1 DEF NewsTyped
    <2>3. Starts(r)
      BY <2>1, <2>2 DEF LoadFor, Starts, NewsTyped
    <2>4. /\ at' \in [Runners -> {"idle", "loaded", "fetching"}] /\ job'[r] = t
          /\ job' \in [Runners -> DueTimes \cup {Manual}] /\ seen' \in [Runners -> Row]
      BY <2>1 DEF LoadFor, NewsTyped
    <2>5. \A q \in Runners : job[q] # t /\ (q # r => job'[q] = job[q])
      BY <2>1, <2>3, DueTimesType DEF RunsApart, Starts
    <2>6. RunsApart'
      <3>1. job[r] = Manual
        BY <2>3 DEF Starts, RunsApart
      <3> QED
        BY <2>2, <2>3, <2>4, <2>5, <3>1, DueTimesType DEF RunsApart, Starts, NewsTyped
    <2> QED
      BY <2>2, <2>3, <2>4, <2>6
  <1> QED
    BY <1>1, <1>2

(* What a run that succeeds or fails writes over its copy of the row.      *)
Outcome(r, new) ==
    /\ new.next = NextFiring(until[r])
    /\ \/ /\ new.last = until[r] /\ new.failures = 0 /\ ~new.flagged
          /\ covered' = covered \cup (Since(r)..until[r]) /\ failures' = failures
       \/ /\ new.last = seen[r].last /\ new.failures = seen[r].failures + 1
          /\ new.flagged = (seen[r].flagged \/ seen[r].failures + 1 >= Threshold)
          /\ covered' = covered /\ failures' = failures + 1

LEMMA RunWrites ==
  ASSUME NewsTyped, NEW r \in Runners, Succeed(r) \/ Fail(r)
  PROVE  /\ at[r] = "fetching" /\ UNCHANGED <<clock, passing>>
         /\ End(r, "queued") \/ End(r, "done")
         /\ \E new \in Row : schedule' = Written(r, new) /\ Outcome(r, new)
  <1>1. until[r] \in Nat /\ seen[r] \in Row /\ NextFiring(until[r]) \in Nat
    BY NextFiringIsNext, NewsNumbers DEF NewsTyped
  <1>2. CASE Succeed(r)
    <2> DEFINE new == [next |-> NextFiring(until[r]), last |-> until[r],
                       failures |-> 0, flagged |-> FALSE]
    <2>1. new \in Row
      BY <1>1 DEF Row
    <2>2. schedule' = Written(r, new) /\ Outcome(r, new)
      BY <1>2 DEF Succeed, Outcome
    <2> QED
      BY <1>2, <2>1, <2>2 DEF Succeed
  <1>3. CASE Fail(r)
    <2> DEFINE new == [next |-> NextFiring(until[r]), last |-> seen[r].last,
                       failures |-> seen[r].failures + 1,
                       flagged |-> seen[r].flagged \/ seen[r].failures + 1 >= Threshold]
    <2>1. new \in Row
      BY <1>1, NewsNumbers DEF Row
    <2>2. schedule' = Written(r, new) /\ Outcome(r, new)
      BY <1>3 DEF Fail, Outcome
    <2> QED
      BY <1>3, <2>1, <2>2 DEF Fail, RetryOrGiveUp
  <1> QED
    BY <1>2, <1>3

LEMMA NewsInvStep == NewsInv /\ [NewsNext]_newsVars => NewsInv'
  <1> SUFFICES ASSUME NewsInv, [NewsNext]_newsVars PROVE NewsInv'
    OBVIOUS
  <1>0. NewsTyped /\ RunsApart /\ RunsInTime /\ FlagEarned /\ CopiesEarned
    BY DEF NewsInv
  <1>1. CASE PassReads
    <2>1. UNCHANGED <<clock, schedule, queued, at, job, seen, until, ran, covered, manual, failures>>
      BY <1>1 DEF PassReads
    <2>2. NewsTyped'
      BY <1>0, <1>1, <2>1 DEF PassReads, NewsTyped, Row
    <2> QED
      BY <1>0, <2>1, <2>2
         DEF NewsInv, RunsApart, RunsInTime, Loaded, FlagEarned, CopiesEarned
  <1>2. CASE PassCommits
    <2>1. UNCHANGED <<clock, at, job, seen, until, ran, covered, manual, failures>> /\ passing' = NoPass
      BY <1>2 DEF PassCommits
    <2>2. passing.at \in Nat /\ NextFiring(passing.at) \in Nat
      BY <1>0, <1>2, NextFiringIsNext, NewsNumbers DEF PassCommits, NewsTyped
    <2>3. /\ schedule' \in Row /\ schedule'.failures = schedule.failures
          /\ schedule'.flagged = schedule.flagged
      BY <1>0, <1>2, <2>2 DEF PassCommits, NewsTyped, Row
    <2>4. /\ queued' \in [DueTimes -> {"none", "queued", "running", "done"}]
          /\ \A t \in DueTimes : queued'[t] = "running" <=> queued[t] = "running"
      BY <1>0, <1>2 DEF PassCommits, NewsTyped, Taken
    <2>5. NewsTyped'
      BY <1>0, <2>1, <2>3, <2>4 DEF NewsTyped
    <2>6. RunsApart'
      BY <1>0, <2>1, <2>4 DEF RunsApart, NewsTyped
    <2> QED
      BY <1>0, <2>1, <2>3, <2>5, <2>6 DEF NewsInv, RunsInTime, Loaded, FlagEarned, CopiesEarned
  <1>3. CASE NewsTick
    <2>1. /\ clock' = clock + 1 /\ clock' \in 0..LastInstant
          /\ UNCHANGED <<schedule, queued, passing, at, job, seen, until, covered, manual, failures>>
      BY <1>0, <1>3, NewsNumbers DEF NewsTick, NewsTyped
    <2>2. \A r \in Runners : /\ ran'[r] = IF at[r] = "idle" THEN 0 ELSE ran[r] + 1
                             /\ ran'[r] \in 0..MaxRun
      BY <1>0, <1>3, NewsNumbers DEF NewsTick, NewsTyped
    <2>3. ran' \in [Runners -> 0..MaxRun]
      BY <1>3, <2>2 DEF NewsTick
    <2>4. NewsTyped'
      BY <1>0, <2>1, <2>3 DEF NewsTyped
    <2>5. RunsInTime'
      <3>1. \A r \in Runners : ran[r] \in Nat /\ clock \in Nat /\ until[r] \in Nat
        BY <1>0, NewsNumbers DEF NewsTyped
      <3> QED
        BY <1>0, <2>1, <2>2, <3>1 DEF RunsInTime, Loaded
    <2> QED
      BY <1>0, <2>1, <2>4, <2>5 DEF NewsInv, RunsApart, FlagEarned, CopiesEarned
  <1>4. ASSUME NEW r \in Runners, RunJob(r) \/ RunNow(r) PROVE NewsInv'
    <2>1. /\ Starts(r) /\ RunsApart'
          /\ queued' \in [DueTimes -> {"none", "queued", "running", "done"}]
          /\ at' \in [Runners -> {"idle", "loaded", "fetching"}]
          /\ job' \in [Runners -> DueTimes \cup {Manual}] /\ seen' \in [Runners -> Row]
      BY <1>0, <1>4, RunStarts
    <2>2. NewsTyped'
      BY <1>0, <2>1 DEF NewsTyped, Starts
    <2>3. RunsInTime'
      BY <1>0, <2>1 DEF RunsInTime, Loaded, Starts
    <2>4. FlagEarned' /\ CopiesEarned'
      BY <1>0, <2>1 DEF FlagEarned, CopiesEarned, Starts
    <2> QED
      BY <2>1, <2>2, <2>3, <2>4 DEF NewsInv
  <1>5. ASSUME NEW r \in Runners, BeginRun(r) PROVE NewsInv'
    <2>1. /\ UNCHANGED <<clock, schedule, queued, passing, job, seen, ran, covered, manual, failures>>
          /\ at[r] = "loaded" /\ at'[r] = "fetching" /\ until'[r] = clock
          /\ \A q \in Runners \ {r} : at'[q] = at[q] /\ until'[q] = until[q]
      BY <1>0, <1>5 DEF BeginRun, NewsTyped
    <2>2. NewsTyped'
      BY <1>0, <1>5, <2>1 DEF BeginRun, NewsTyped
    <2>3. RunsInTime'
      <3>1. Loaded(r) <= clock
        BY <1>0, NewsNumbers DEF Loaded, NewsTyped
      <3> QED
        BY <1>0, <2>1, <3>1, NewsNumbers DEF RunsInTime, Loaded, NewsTyped
    <2>4. RunsApart'
      BY <1>0, <2>1 DEF RunsApart
    <2> QED
      BY <1>0, <2>1, <2>2, <2>3, <2>4 DEF NewsInv, FlagEarned, CopiesEarned
  <1>6. ASSUME NEW r \in Runners, Succeed(r) \/ Fail(r) PROVE NewsInv'
    <2>1. /\ at[r] = "fetching" /\ UNCHANGED <<clock, passing>>
          /\ End(r, "queued") \/ End(r, "done")
      BY <1>0, <1>6, RunWrites
    <2>2. PICK new \in Row : schedule' = Written(r, new) /\ Outcome(r, new)
      BY <1>0, <1>6, RunWrites
    <2>3. /\ Ended(r) /\ RunsApart'
          /\ queued' \in [DueTimes -> {"none", "queued", "running", "done"}]
          /\ at' \in [Runners -> {"idle", "loaded", "fetching"}]
          /\ job' \in [Runners -> DueTimes \cup {Manual}]
          /\ seen' \in [Runners -> Row] /\ until' \in [Runners -> 0..LastInstant]
          /\ ran' \in [Runners -> 0..MaxRun]
      BY <1>0, <2>1, EndEnds
    <2>4. /\ schedule' \in Row
          /\ schedule'.failures \in {schedule.failures, new.failures}
          /\ schedule'.flagged \in {schedule.flagged, new.flagged}
      BY <1>0, <2>2, WrittenFields DEF NewsTyped
    <2>5. /\ failures' \in Nat /\ failures <= failures' /\ failures \in Nat
          /\ new.failures <= failures'
          /\ new.flagged => failures' >= Threshold
      <3>1. seen[r] \in Row /\ seen[r].failures \in Nat /\ failures \in Nat
        BY <1>0 DEF NewsTyped, Row
      <3> QED
        BY <1>0, <2>2, <3>1, NewsNumbers DEF Outcome, CopiesEarned, Row
    <2>6. covered' \subseteq -Lookback..LastInstant
      <3>1. until[r] \in 0..LastInstant /\ Lookback \in Nat
            /\ (seen[r].last # NeverFetched => seen[r].last \in Nat)
        BY <1>0, NewsNumbers DEF NewsTyped, Row
      <3>2. Since(r) \in Int /\ -Lookback <= Since(r)
        BY <3>1, NewsNumbers DEF Since
      <3>3. Since(r)..until[r] \subseteq -Lookback..LastInstant
        BY <3>1, <3>2, NewsNumbers
      <3> QED
        BY <1>0, <2>2, <3>3 DEF Outcome, NewsTyped
    <2>7. NewsTyped'
      BY <1>0, <2>1, <2>3, <2>4, <2>5, <2>6 DEF NewsTyped
    <2>8. RunsInTime'
      BY <1>0, <2>1, <2>3, NewsNumbers DEF RunsInTime, Loaded, Ended, NewsTyped
    <2>9. FlagEarned' /\ CopiesEarned'
      <3>1. \A q \in Runners : seen[q].failures \in Nat
        BY <1>0 DEF NewsTyped, Row
      <3>2. schedule.failures \in Nat
        BY <1>0 DEF NewsTyped, Row
      <3>3. FlagEarned'
        <4>1. schedule'.failures <= failures'
          <5>1. schedule.failures <= failures'
            BY <1>0, <2>5, <3>2 DEF FlagEarned
          <5> QED
            BY <2>4, <2>5, <5>1
        <4>2. schedule'.flagged => schedule.flagged \/ new.flagged
          BY <2>4, Zenon
        <4>3. schedule.flagged => failures' >= Threshold
          <5>1. failures >= Threshold => failures' >= Threshold
            BY <2>5, NewsNumbers
          <5> QED
            BY <1>0, <5>1, Zenon DEF FlagEarned
        <4> QED
          BY <2>5, <4>1, <4>2, <4>3, Zenon DEF FlagEarned
      <3>4. CopiesEarned'
        BY <1>0, <2>3, <2>5, <3>1, NewRowType, NewsNumbers DEF CopiesEarned, Ended
      <3> QED
        BY <3>3, <3>4
    <2> QED
      BY <2>3, <2>7, <2>8, <2>9 DEF NewsInv
  <1>7. ASSUME NEW r \in Runners, Raise(r) PROVE NewsInv'
    <2>1. /\ End(r, "queued") \/ End(r, "done")
          /\ UNCHANGED <<clock, schedule, passing, covered>> /\ failures' = failures + 1
      BY <1>7 DEF Raise, RetryOrGiveUp
    <2>2. /\ Ended(r) /\ RunsApart'
          /\ queued' \in [DueTimes -> {"none", "queued", "running", "done"}]
          /\ at' \in [Runners -> {"idle", "loaded", "fetching"}]
          /\ job' \in [Runners -> DueTimes \cup {Manual}]
          /\ seen' \in [Runners -> Row] /\ until' \in [Runners -> 0..LastInstant]
          /\ ran' \in [Runners -> 0..MaxRun]
      BY <1>0, <2>1, EndEnds
    <2>3. NewsTyped'
      BY <1>0, <2>1, <2>2 DEF NewsTyped
    <2>4. RunsInTime'
      BY <1>0, <2>1, <2>2, NewsNumbers DEF RunsInTime, Loaded, Ended, NewsTyped
    <2>5. FlagEarned' /\ CopiesEarned'
      <3>1. \A q \in Runners : seen[q].failures \in Nat
        BY <1>0 DEF NewsTyped, Row
      <3>2. schedule.failures \in Nat /\ failures \in Nat
        BY <1>0 DEF NewsTyped, Row
      <3> QED
        BY <1>0, <2>1, <2>2, <3>1, <3>2, NewRowType, NewsNumbers DEF FlagEarned, CopiesEarned, Ended
    <2> QED
      BY <2>2, <2>3, <2>4, <2>5 DEF NewsInv
  <1>8. CASE UNCHANGED newsVars
    BY <1>0, <1>8 DEF newsVars, NewsInv, NewsTyped, RunsApart, RunsInTime, Loaded, FlagEarned, CopiesEarned
  <1> QED
    BY <1>1, <1>2, <1>3, <1>4, <1>5, <1>6, <1>7, <1>8 DEF NewsNext

(* However runs overlap and however stale the copies they count from, the  *)
(* row never counts a failure that was not, and the flag is earned.        *)
THEOREM FlagIsEarned == NewsSpec => []FlagEarned
  <1>1. NewsInv => FlagEarned
    BY DEF NewsInv
  <1> QED
    BY <1>1, NewsInvInit, NewsInvStep, PTL DEF NewsSpec

(* The state keeps its shape, and a job is running exactly when one runner *)
(* has it.                                                                 *)
THEOREM NewsTypeCorrect == NewsSpec => []NewsTypeOK
  <1>1. NewsInv => NewsTypeOK
    <2> SUFFICES ASSUME NewsInv, NEW t \in DueTimes
                 PROVE  queued[t] = "running" <=> Cardinality({r \in Runners : job[r] = t}) = 1
      BY DEF NewsInv, NewsTyped, NewsTypeOK
    <2> DEFINE runners == {r \in Runners : job[r] = t}
    <2>1. t # Manual
      BY DueTimesType
    <2>2. CASE runners = {}
      <3>1. Cardinality(runners) = 0
        BY <2>2, FS_EmptySet
      <3> QED
        BY <2>2, <3>1 DEF NewsInv, RunsApart
    <2>3. ASSUME NEW r \in runners PROVE Cardinality(runners) = 1 /\ queued[t] = "running"
      <3>1. runners = {r}
        BY <2>1, <2>3 DEF NewsInv, RunsApart
      <3> QED
        BY <2>1, <2>3, <3>1, FS_Singleton DEF NewsInv, RunsApart
    <2> QED
      BY <2>2, <2>3
  <1> QED
    BY <1>1, NewsInvInit, NewsInvStep, PTL DEF NewsSpec

-----------------------------------------------------------------------------
(* A schedule that is never stuck *)

(* What the code counts on without enforcing it: a due schedule is seen,   *)
(* and a run that started before it is over, within one period.            *)
RunsFitThePeriod == MaxLate + MaxRun < Period

(* The schedule points at a firing that has no job yet and is not long     *)
(* past.                                                                   *)
PointsAhead ==
    /\ Firing(schedule.next) /\ ~Taken(schedule.next)
    /\ clock <= schedule.next + MaxLate /\ schedule.next <= NextFiring(clock)

(* So did every copy of it, when it was loaded.                            *)
CopiesPointAhead ==
    \A r \in Runners : at[r] # "idle" =>
        /\ Firing(seen[r].next)
        /\ Loaded(r) <= seen[r].next + MaxLate /\ seen[r].next <= NextFiring(Loaded(r))

JobsArePast == \A t \in DueTimes : queued[t] # "none" => t <= clock

PassIsNow == passing # NoPass => passing.next <= clock /\ passing.at = clock

OnTime == PointsAhead /\ CopiesPointAhead /\ JobsArePast /\ PassIsNow

LEMMA OnTimeInit == NewsInit => OnTime
  <1> SUFFICES ASSUME NewsInit PROVE OnTime
    OBVIOUS
  <1>1. NextFiring(0) \in Nat /\ Firing(NextFiring(0)) /\ 0 < NextFiring(0)
    BY NextFiringIsNext
  <1> QED
    BY <1>1, NewRowType, NewsNumbers
       DEF NewsInit, OnTime, PointsAhead, CopiesPointAhead, JobsArePast, PassIsNow, Taken

(* A run that writes another due time than the one it loaded writes one    *)
(* that is still to come.                                                  *)
LEMMA WritesAhead ==
  ASSUME RunsFitThePeriod, NewsInv, OnTime, NEW r \in Runners, at[r] = "fetching",
         NextFiring(until[r]) # seen[r].next
  PROVE  clock < NextFiring(until[r])
  <1> DEFINE loaded == Loaded(r)
             f == NextFiring(until[r])
             s == seen[r].next
  <1>1. /\ loaded \in Nat /\ until[r] \in Nat /\ clock \in Nat /\ s \in Nat
        /\ clock <= loaded + MaxRun /\ loaded <= until[r] /\ MaxRun \in Nat /\ MaxLate \in Nat
    BY NewsNumbers DEF NewsInv, NewsTyped, RunsInTime, Loaded, Row
  <1>2. f \in Nat /\ Firing(f) /\ Period \in Nat
    BY <1>1, NextFiringIsNext, NewsNumbers
  <1>3. Firing(s) /\ loaded <= s + MaxLate /\ s <= NextFiring(loaded)
    BY DEF OnTime, CopiesPointAhead
  <1>4. NextFiring(loaded) <= f /\ NextFiring(loaded) \in Nat
    BY <1>1, NextFiringGrows, NextFiringIsNext
  <1>5. s < f
    BY <1>1, <1>2, <1>3, <1>4
  <1>6. s + Period <= f
    BY <1>2, <1>3, <1>5, FiringsFollow
  <1> HIDE DEF loaded, f, s
  <1>7. clock < f
    BY <1>1, <1>2, <1>3, <1>6 DEF RunsFitThePeriod
  <1> QED
    BY <1>7 DEF f

LEMMA OnTimeStep ==
  ASSUME RunsFitThePeriod, NewsInv, OnTime, [NewsNext]_newsVars
  PROVE  OnTime'
  <1>0. /\ NewsTyped /\ RunsApart /\ RunsInTime
        /\ PointsAhead /\ CopiesPointAhead /\ JobsArePast /\ PassIsNow
        /\ clock \in Nat /\ schedule \in Row /\ schedule.next \in Nat
        /\ MaxLate \in Nat /\ MaxRun \in Nat
    BY NewsNumbers DEF NewsInv, OnTime, NewsTyped, Row
  <1>a. NextFiring(clock) \in Nat /\ Firing(NextFiring(clock)) /\ clock < NextFiring(clock)
    BY <1>0, NextFiringIsNext
  <1>1. CASE PassReads
    BY <1>0, <1>1 DEF PassReads, OnTime, PointsAhead, CopiesPointAhead, JobsArePast, PassIsNow,
                      Loaded, Taken
  <1>2. CASE PassCommits
    <2>1. UNCHANGED <<clock, at, job, seen, until, ran>> /\ passing' = NoPass
          /\ passing.next <= clock /\ passing.at = clock
      BY <1>0, <1>2 DEF PassCommits, PassIsNow
    <2>2. CASE UNCHANGED <<schedule, queued>>
      BY <1>0, <2>1, <2>2
         DEF OnTime, PointsAhead, CopiesPointAhead, JobsArePast, PassIsNow, Loaded, Taken
    <2>3. CASE /\ queued' = [queued EXCEPT ![passing.next] = "queued"]
               /\ schedule' = [schedule EXCEPT !.next = NextFiring(passing.at)]
      <3>1. schedule'.next = NextFiring(clock)
        BY <1>0, <2>1, <2>3 DEF Row
      <3>2. \A t \in DueTimes : t # passing.next => queued'[t] = queued[t]
        BY <1>0, <2>3 DEF NewsTyped
      <3>3. JobsArePast'
        BY <1>0, <2>1, <3>2 DEF JobsArePast
      <3>4. ~(clock >= NextFiring(clock))
        BY <1>0, <1>a
      <3>5. ~Taken(schedule.next)'
        BY <2>1, <3>1, <3>3, <3>4, <1>0, <1>a DEF JobsArePast, Taken
      <3>6. PointsAhead'
        BY <1>0, <1>a, <2>1, <3>1, <3>5 DEF PointsAhead
      <3> QED
        BY <1>0, <2>1, <3>3, <3>6 DEF OnTime, CopiesPointAhead, PassIsNow, Loaded
    <2> QED
      BY <1>2, <2>2, <2>3 DEF PassCommits
  <1>3. CASE NewsTick
    <2>1. /\ clock' = clock + 1 /\ passing = NoPass
          /\ schedule.next + MaxLate > clock
          /\ UNCHANGED <<schedule, queued, passing, at, seen>>
      BY <1>0, <1>3 DEF NewsTick, PointsAhead
    <2>2. \A r \in Runners : at[r] # "idle" => Loaded(r)' = Loaded(r)
      <3>1. \A r \in Runners : at[r] # "idle" => ran'[r] = ran[r] + 1 /\ ran[r] \in Nat
        BY <1>0, <1>3 DEF NewsTick, NewsTyped
      <3> QED
        BY <1>0, <2>1, <3>1 DEF Loaded
    <2>3. NextFiring(clock) <= NextFiring(clock') /\ NextFiring(clock') \in Nat
      BY <1>0, <2>1, NextFiringGrows, NextFiringIsNext
    <2>4. PointsAhead'
      BY <1>0, <1>a, <2>1, <2>3 DEF PointsAhead, Taken
    <2>5. CopiesPointAhead'
      BY <1>0, <2>1, <2>2 DEF CopiesPointAhead
    <2>6. JobsArePast'
      BY <1>0, <2>1, DueTimesType DEF JobsArePast
    <2> QED
      BY <2>1, <2>4, <2>5, <2>6 DEF OnTime, PassIsNow
  <1>4. ASSUME NEW r \in Runners, RunJob(r) \/ RunNow(r) PROVE OnTime'
    <2>1. Starts(r)
      BY <1>0, <1>4, RunStarts
    <2>2. PointsAhead' /\ JobsArePast' /\ PassIsNow'
      BY <1>0, <2>1 DEF Starts, PointsAhead, JobsArePast, PassIsNow, Taken
    <2>3. CopiesPointAhead'
      <3>1. Loaded(r)' = clock
        BY <1>0, <2>1 DEF Starts, RunsInTime, Loaded
      <3> QED
        BY <1>0, <2>1, <3>1 DEF Starts, CopiesPointAhead, PointsAhead, Loaded
    <2> QED
      BY <2>2, <2>3 DEF OnTime
  <1>5. ASSUME NEW r \in Runners, BeginRun(r) PROVE OnTime'
    <2>1. /\ UNCHANGED <<clock, schedule, queued, passing, seen, ran>>
          /\ \A q \in Runners : at'[q] # "idle" => at[q] # "idle"
      BY <1>0, <1>5 DEF BeginRun, NewsTyped
    <2> QED
      BY <1>0, <2>1
         DEF OnTime, PointsAhead, CopiesPointAhead, JobsArePast, PassIsNow, Loaded, Taken
  <1>6. ASSUME NEW r \in Runners, Succeed(r) \/ Fail(r) PROVE OnTime'
    <2>1. /\ at[r] = "fetching" /\ UNCHANGED <<clock, passing>>
          /\ End(r, "queued") \/ End(r, "done")
      BY <1>0, <1>6, RunWrites
    <2>2. PICK new \in Row : schedule' = Written(r, new) /\ Outcome(r, new)
      BY <1>0, <1>6, RunWrites
    <2>3. Ended(r)
      BY <1>0, <2>1, EndEnds
    <2> DEFINE f == NextFiring(until[r])
    <2>4. schedule'.next = IF f = seen[r].next THEN schedule.next ELSE f
      BY <1>0, <2>2, WrittenFields DEF Outcome
    <2>5. JobsArePast'
      BY <1>0, <2>1, <2>3 DEF JobsArePast, Ended
    <2>6. CASE schedule'.next = schedule.next
      <3>1. ~Taken(schedule.next)'
        BY <1>0, <2>3, <2>6 DEF PointsAhead, Taken, Ended
      <3> QED
        BY <1>0, <2>1, <2>3, <2>5, <2>6, <3>1
           DEF OnTime, PointsAhead, CopiesPointAhead, PassIsNow, Ended, Loaded
    <2>7. CASE f # seen[r].next
      <3>1. clock < f /\ schedule'.next = f
        BY <2>1, <2>4, <2>7, WritesAhead
      <3>2. until[r] \in Nat /\ until[r] <= clock
        BY <1>0, <2>1, NewsNumbers DEF NewsTyped, RunsInTime
      <3>3. f \in Nat /\ Firing(f) /\ f <= NextFiring(clock)
        BY <1>0, <3>2, NextFiringIsNext, NextFiringGrows
      <3> HIDE DEF f
      <3>4. ~Taken(schedule.next)'
        BY <1>0, <2>1, <2>5, <3>1, <3>3 DEF Taken, JobsArePast
      <3>5. PointsAhead'
        BY <1>0, <2>1, <3>1, <3>3, <3>4 DEF PointsAhead
      <3> QED
        BY <1>0, <2>1, <2>3, <2>5, <3>5 DEF OnTime, CopiesPointAhead, PassIsNow, Ended, Loaded
    <2> QED
      BY <2>4, <2>6, <2>7
  <1>7. ASSUME NEW r \in Runners, Raise(r) PROVE OnTime'
    <2>1. /\ End(r, "queued") \/ End(r, "done")
          /\ UNCHANGED <<clock, schedule, passing>>
      BY <1>7 DEF Raise, RetryOrGiveUp
    <2>2. Ended(r)
      BY <1>0, <2>1, EndEnds
    <2> QED
      BY <1>0, <2>1, <2>2
         DEF OnTime, PointsAhead, CopiesPointAhead, JobsArePast, PassIsNow, Ended, Loaded, Taken
  <1>8. CASE UNCHANGED newsVars
    BY <1>0, <1>8 DEF newsVars, OnTime, PointsAhead, CopiesPointAhead, JobsArePast, PassIsNow,
                      Loaded, Taken
  <1> QED
    BY <1>1, <1>2, <1>3, <1>4, <1>5, <1>6, <1>7, <1>8 DEF NewsNext

(* Where lateness and a run fit in a period, the schedule never points at  *)
(* a due time whose job has ended, whatever overlapping runs write back.   *)
THEOREM ScheduleMovesOn == ASSUME RunsFitThePeriod PROVE NewsSpec => []NeverStuck
  <1>1. NewsInv /\ OnTime => NeverStuck
    BY DEF OnTime, PointsAhead, NeverStuck
  <1>2. NewsInit => NewsInv /\ OnTime
    BY NewsInvInit, OnTimeInit
  <1>3. NewsInv /\ OnTime /\ [NewsNext]_newsVars => NewsInv' /\ OnTime'
    BY NewsInvStep, OnTimeStep
  <1> QED
    BY <1>1, <1>2, <1>3, PTL DEF NewsSpec

-----------------------------------------------------------------------------
(* The windows of the runs *)

(* What the code counts on: the first window reaches back further than two *)
(* runs last.                                                              *)
WindowsOverlap == 2 * MaxRun <= Lookback + 1

Contiguous(S) == \A x, y \in S, z \in Int : x <= z /\ z <= y => z \in S

LEMMA JoinContiguous ==
  ASSUME NEW S \in SUBSET Int, Contiguous(S), NEW a \in Int, NEW b \in Int, a <= b,
         S = {} \/ \E x \in S : a - 1 <= x /\ x <= b + 1
  PROVE  Contiguous(S \cup (a..b))
  <1>1. CASE S = {}
    BY <1>1 DEF Contiguous
  <1>2. CASE \E x \in S : a - 1 <= x /\ x <= b + 1
    <2>1. PICK x \in S : a - 1 <= x /\ x <= b + 1
      BY <1>2
    <2>2. ASSUME NEW u \in S \cup (a..b), NEW v \in S \cup (a..b), NEW z \in Int, u <= z, z <= v,
                 z \notin a..b
          PROVE  z \in S
      <3>1. x \in Int /\ u \in Int /\ v \in Int
        OBVIOUS
      <3>2. CASE z < a
        <4>1. u \in S
          BY <2>2, <3>1, <3>2
        <4>2. z <= x
          BY <2>1, <3>1, <3>2
        <4> QED
          BY <2>2, <4>1, <4>2 DEF Contiguous
      <3>3. CASE b < z
        <4>1. v \in S
          BY <2>2, <3>1, <3>3
        <4>2. x <= z
          BY <2>1, <3>1, <3>3
        <4> QED
          BY <2>2, <4>1, <4>2 DEF Contiguous
      <3> QED
        BY <2>2, <3>2, <3>3
    <2> QED
      BY <2>2 DEF Contiguous
  <1> QED
    BY <1>1, <1>2

(* Before the first run succeeds nothing is stored; from then on the row's *)
(* window ends in what is.                                                 *)
RowIsCovered ==
    /\ schedule.last = NeverFetched => covered = {}
    /\ schedule.last # NeverFetched => schedule.last \in covered /\ schedule.last <= clock

(* So did the window of every copy; one that knew of no run had its first  *)
(* window beside that of the run which came first.                         *)
CopiesAreCovered ==
    \A r \in Runners : at[r] # "idle" =>
        /\ seen[r].last # NeverFetched =>
             seen[r].last \in covered /\ seen[r].last <= Loaded(r) /\ schedule.last # NeverFetched
        /\ seen[r].last = NeverFetched /\ covered # {} =>
             \E u \in covered : /\ u - Lookback \in covered
                                /\ Loaded(r) - MaxRun <= u /\ u <= Loaded(r) + MaxRun

Windows == Contiguous(covered) /\ RowIsCovered /\ CopiesAreCovered

LEMMA WindowsInit == NewsInit => Windows
  BY NewRowType DEF NewsInit, Windows, Contiguous, RowIsCovered, CopiesAreCovered

(* The window of a run touches what is stored.                             *)
LEMMA WindowTouches ==
  ASSUME WindowsOverlap, NewsInv, Windows, NEW r \in Runners, at[r] = "fetching"
  PROVE  /\ Since(r) \in Int /\ until[r] \in Nat /\ Since(r) <= until[r]
         /\ covered = {} \/ \E x \in covered : Since(r) - 1 <= x /\ x <= until[r] + 1
         /\ covered = {} => seen[r].last = NeverFetched
  <1>1. /\ Loaded(r) \in Nat /\ until[r] \in Nat /\ clock \in Nat
        /\ Loaded(r) <= until[r] /\ until[r] <= clock /\ clock <= Loaded(r) + MaxRun
        /\ MaxRun \in Nat /\ Lookback \in Nat
        /\ seen[r].last # NeverFetched => seen[r].last \in Nat
        /\ covered \subseteq Int
    BY NewsNumbers DEF NewsInv, NewsTyped, RunsInTime, Loaded, Row
  <1>2. CASE seen[r].last # NeverFetched
    <2>1. Since(r) = seen[r].last /\ seen[r].last \in covered /\ seen[r].last <= Loaded(r)
      BY <1>2 DEF Since, Windows, CopiesAreCovered
    <2> QED
      BY <1>1, <1>2, <2>1
  <1>3. CASE seen[r].last = NeverFetched
    <2>1. Since(r) = until[r] - Lookback
      BY <1>3 DEF Since
    <2>2. ASSUME covered # {}
          PROVE  \E x \in covered : Since(r) - 1 <= x /\ x <= until[r] + 1
      <3>1. PICK u \in covered : /\ u - Lookback \in covered
                                 /\ Loaded(r) - MaxRun <= u /\ u <= Loaded(r) + MaxRun
        BY <1>3, <2>2 DEF Windows, CopiesAreCovered
      <3>2. CASE u <= until[r] + 1
        <4>1. Since(r) - 1 <= u
          BY <1>1, <2>1, <3>1 DEF WindowsOverlap
        <4> QED
          BY <3>2, <4>1
      <3>3. CASE until[r] + 1 < u
        <4>1. u - Lookback <= until[r] + 1
          BY <1>1, <3>1 DEF WindowsOverlap
        <4>2. until[r] + 1 \in covered
          BY <1>1, <3>1, <3>3, <4>1 DEF Windows, Contiguous
        <4>3. Since(r) - 1 <= until[r] + 1
          BY <1>1, <2>1
        <4> QED
          BY <1>1, <4>2, <4>3
      <3> QED
        BY <1>1, <3>2, <3>3
    <2> QED
      BY <1>1, <1>3, <2>1, <2>2
  <1> QED
    BY <1>2, <1>3

LEMMA WindowsStep ==
  ASSUME WindowsOverlap, NewsInv, Windows, [NewsNext]_newsVars
  PROVE  Windows'
  <1>0. /\ NewsTyped /\ RunsApart /\ RunsInTime
        /\ Contiguous(covered) /\ RowIsCovered /\ CopiesAreCovered
        /\ clock \in Nat /\ schedule \in Row /\ covered \subseteq Int
        /\ MaxRun \in Nat /\ Lookback \in Nat
    BY NewsNumbers DEF NewsInv, Windows, NewsTyped
  <1>1. CASE PassReads
    BY <1>0, <1>1 DEF PassReads, Windows, RowIsCovered, CopiesAreCovered, Loaded
  <1>2. CASE PassCommits
    <2>1. UNCHANGED <<clock, at, seen, ran, covered>> /\ schedule'.last = schedule.last
      BY <1>0, <1>2 DEF PassCommits, Row
    <2> QED
      BY <1>0, <2>1 DEF Windows, RowIsCovered, CopiesAreCovered, Loaded
  <1>3. CASE NewsTick
    <2>1. clock' = clock + 1 /\ UNCHANGED <<schedule, at, seen, covered>>
      BY <1>3 DEF NewsTick
    <2>2. \A r \in Runners : at[r] # "idle" => Loaded(r)' = Loaded(r)
      <3>1. \A r \in Runners : at[r] # "idle" => ran'[r] = ran[r] + 1 /\ ran[r] \in Nat
        BY <1>0, <1>3 DEF NewsTick, NewsTyped
      <3> QED
        BY <1>0, <2>1, <3>1 DEF Loaded
    <2>3. RowIsCovered'
      <3>1. schedule.last # NeverFetched => schedule.last \in covered /\ schedule.last <= clock
        BY <1>0 DEF RowIsCovered
      <3>2. schedule.last # NeverFetched => schedule.last <= clock + 1
        <4> SUFFICES ASSUME schedule.last # NeverFetched
                     PROVE  schedule.last <= clock + 1
          OBVIOUS
        <4>1. schedule.last \in covered /\ schedule.last <= clock
          BY <3>1
        <4>2. schedule.last \in Int
          BY <1>0, <4>1, Zenon
        <4>3. clock \in Int
          BY <1>0
        <4> QED
          BY <4>1, <4>2, <4>3
      <3> QED
        BY <1>0, <2>1, <3>1, <3>2 DEF RowIsCovered
    <2>4. CopiesAreCovered'
      BY <1>0, <2>1, <2>2 DEF CopiesAreCovered
    <2> QED
      BY <1>0, <2>1, <2>3, <2>4 DEF Windows
  <1>4. ASSUME NEW r \in Runners, RunJob(r) \/ RunNow(r) PROVE Windows'
    <2>1. Starts(r)
      BY <1>0, <1>4, RunStarts
    <2>2. Loaded(r)' = clock
      BY <1>0, <2>1 DEF Starts, RunsInTime, Loaded
    <2>3. CopiesAreCovered'
      <3> SUFFICES ASSUME NEW q \in Runners, at'[q] # "idle"
                   PROVE  /\ seen'[q].last # NeverFetched =>
                               /\ seen'[q].last \in covered /\ seen'[q].last <= Loaded(q)'
                               /\ schedule.last # NeverFetched
                          /\ seen'[q].last = NeverFetched /\ covered # {} =>
                               \E u \in covered : /\ u - Lookback \in covered
                                                  /\ Loaded(q)' - MaxRun <= u
                                                  /\ u <= Loaded(q)' + MaxRun
        BY <2>1 DEF Starts, CopiesAreCovered
      <3>1. CASE q = r
        BY <1>0, <2>1, <2>2, <3>1 DEF Starts, RowIsCovered
      <3>2. CASE q # r
        <4>1. Loaded(q)' = Loaded(q) /\ seen'[q] = seen[q] /\ at[q] # "idle"
          BY <2>1, <3>2 DEF Starts, Loaded
        <4> QED
          BY <1>0, <4>1 DEF CopiesAreCovered
      <3> QED
        BY <3>1, <3>2
    <2> QED
      BY <1>0, <2>1, <2>3 DEF Starts, Windows, RowIsCovered
  <1>5. ASSUME NEW r \in Runners, BeginRun(r) PROVE Windows'
    <2>1. /\ UNCHANGED <<clock, schedule, seen, ran, covered>>
          /\ \A q \in Runners : at'[q] # "idle" => at[q] # "idle"
      BY <1>0, <1>5 DEF BeginRun, NewsTyped
    <2> QED
      BY <1>0, <2>1 DEF Windows, RowIsCovered, CopiesAreCovered, Loaded
  <1>6. ASSUME NEW r \in Runners, Succeed(r) \/ Fail(r) PROVE Windows'
    <2>1. /\ at[r] = "fetching" /\ UNCHANGED <<clock, passing>>
          /\ End(r, "queued") \/ End(r, "done")
      BY <1>0, <1>6, RunWrites
    <2>2. PICK new \in Row : schedule' = Written(r, new) /\ Outcome(r, new)
      BY <1>0, <1>6, RunWrites
    <2>3. /\ Ended(r)
          /\ \A q \in Runners : at'[q] # "idle" =>
               q # r /\ at[q] # "idle" /\ Loaded(q)' = Loaded(q) /\ seen'[q] = seen[q]
      BY <1>0, <2>1, EndEnds DEF Ended, Loaded
    <2>4. schedule'.last = IF new.last = seen[r].last THEN schedule.last ELSE new.last
      BY <1>0, <2>2, WrittenFields
    <2>5. CASE new.last = seen[r].last /\ covered' = covered
      <3>1. schedule'.last = schedule.last
        BY <2>4, <2>5
      <3> QED
        BY <1>0, <2>1, <2>3, <2>5, <3>1 DEF Windows, RowIsCovered, CopiesAreCovered
    <2>6. CASE new.last = until[r] /\ covered' = covered \cup (Since(r)..until[r])
      <3>1. /\ Since(r) \in Int /\ until[r] \in Nat /\ Since(r) <= until[r]
            /\ covered = {} \/ \E x \in covered : Since(r) - 1 <= x /\ x <= until[r] + 1
            /\ covered = {} => seen[r].last = NeverFetched
        BY <2>1, WindowTouches
      <3>2. Contiguous(covered')
        BY <1>0, <2>6, <3>1, JoinContiguous
      <3>3. until[r] \in covered' /\ Since(r) \in covered' /\ covered \subseteq covered'
            /\ until[r] # NeverFetched
        BY <2>6, <3>1, NewsNumbers
      <3>4. until[r] <= clock
        BY <1>0, <2>1 DEF RunsInTime
      <3>5. schedule'.last # NeverFetched /\ schedule'.last \in covered' /\ schedule'.last <= clock
        <4>1. CASE until[r] # seen[r].last
          BY <2>4, <2>6, <3>3, <3>4, <4>1
        <4>2. CASE until[r] = seen[r].last
          <5>1. schedule'.last = schedule.last /\ schedule.last # NeverFetched
            BY <1>0, <2>1, <2>4, <2>6, <3>3, <4>2 DEF CopiesAreCovered
          <5> QED
            BY <1>0, <3>3, <5>1 DEF RowIsCovered
        <4> QED
          BY <4>1, <4>2
      <3>6. RowIsCovered'
        BY <2>1, <3>5 DEF RowIsCovered
      <3>7. CopiesAreCovered'
        <4> SUFFICES ASSUME NEW q \in Runners, at'[q] # "idle"
                     PROVE  /\ seen'[q].last # NeverFetched =>
                                 /\ seen'[q].last \in covered' /\ seen'[q].last <= Loaded(q)'
                                 /\ schedule'.last # NeverFetched
                            /\ seen'[q].last = NeverFetched /\ covered' # {} =>
                                 \E u \in covered' : /\ u - Lookback \in covered'
                                                     /\ Loaded(q)' - MaxRun <= u
                                                     /\ u <= Loaded(q)' + MaxRun
          BY DEF CopiesAreCovered
        <4>1. at[q] # "idle" /\ Loaded(q)' = Loaded(q) /\ seen'[q] = seen[q]
          BY <2>3
        <4>2. CASE seen[q].last # NeverFetched
          BY <1>0, <3>3, <3>5, <4>1, <4>2 DEF CopiesAreCovered
        <4>3. CASE seen[q].last = NeverFetched /\ covered # {}
          BY <1>0, <3>3, <4>1, <4>3 DEF CopiesAreCovered
        <4>4. CASE seen[q].last = NeverFetched /\ covered = {}
          <5>1. Since(r) = until[r] - Lookback
            BY <3>1, <4>4 DEF Since
          <5>2. /\ Loaded(q) \in Nat /\ clock <= Loaded(q) + MaxRun /\ Loaded(q) <= clock
                /\ Loaded(r) \in Nat /\ clock <= Loaded(r) + MaxRun /\ Loaded(r) <= until[r]
            BY <1>0, <2>1, NewsNumbers DEF NewsTyped, RunsInTime, Loaded
          <5>3. Loaded(q) - MaxRun <= until[r] /\ until[r] <= Loaded(q) + MaxRun
            BY <1>0, <3>1, <3>4, <5>2
          <5> QED
            BY <3>3, <4>1, <4>4, <5>1, <5>3
        <4> QED
          BY <4>2, <4>3, <4>4
      <3> QED
        BY <3>2, <3>6, <3>7 DEF Windows
    <2> QED
      BY <2>2, <2>5, <2>6 DEF Outcome
  <1>7. ASSUME NEW r \in Runners, Raise(r) PROVE Windows'
    <2>1. /\ End(r, "queued") \/ End(r, "done")
          /\ UNCHANGED <<clock, schedule, covered>>
      BY <1>7 DEF Raise, RetryOrGiveUp
    <2>2. \A q \in Runners : at'[q] # "idle" =>
               at[q] # "idle" /\ Loaded(q)' = Loaded(q) /\ seen'[q] = seen[q]
      BY <1>0, <2>1, EndEnds DEF Ended, Loaded
    <2> QED
      BY <1>0, <2>1, <2>2 DEF Windows, RowIsCovered, CopiesAreCovered
  <1>8. CASE UNCHANGED newsVars
    BY <1>0, <1>8 DEF newsVars, Windows, RowIsCovered, CopiesAreCovered, Loaded
  <1> QED
    BY <1>1, <1>2, <1>3, <1>4, <1>5, <1>6, <1>7, <1>8 DEF NewsNext

(* Whatever fails, is retried or overlaps, everything published from the   *)
(* first window up to last_fetched_at is stored.                           *)
THEOREM NoWindowSkipped == ASSUME WindowsOverlap PROVE NewsSpec => []NoArticleSkipped
  <1>1. NewsInv /\ Windows => NoArticleSkipped
    <2> SUFFICES ASSUME NewsInv, Windows, schedule.last # NeverFetched
                 PROVE  covered # {} /\ Min(covered)..schedule.last \subseteq covered
      BY DEF NoArticleSkipped
    <2>1. schedule.last \in covered
      BY DEF Windows, RowIsCovered
    <2>2. /\ covered \in SUBSET Int /\ -Lookback \in Int
          /\ \A x \in covered : -Lookback <= x
      BY NewsNumbers DEF NewsInv, NewsTyped
    <2>3. Min(covered) \in covered
      BY <2>1, <2>2, MinOf
    <2> SUFFICES ASSUME NEW z \in Min(covered)..schedule.last
                 PROVE  z \in covered
      BY <2>1
    <2>4. Min(covered) \in Int /\ schedule.last \in Int
      BY <2>1, <2>2, <2>3, Zenon
    <2>5. z \in Int /\ Min(covered) <= z /\ z <= schedule.last
      BY <2>4
    <2> QED
      BY <2>1, <2>3, <2>5 DEF Windows, Contiguous
  <1>2. NewsInit => NewsInv /\ Windows
    BY NewsInvInit, WindowsInit
  <1>3. NewsInv /\ Windows /\ [NewsNext]_newsVars => NewsInv' /\ Windows'
    BY NewsInvStep, WindowsStep
  <1> QED
    BY <1>1, <1>2, <1>3, PTL DEF NewsSpec
=============================================================================
