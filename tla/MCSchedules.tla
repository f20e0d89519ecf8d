----------------------------- MODULE MCSchedules -----------------------------
(* What the scheduler queues, each by itself: a behaviour is one of a news *)
(* schedule, of the cron-driven sweep, of refreshes that compete for the   *)
(* daily allowance, or of the readers of the feeds.  A part that a         *)
(* behaviour does not move keeps its initial state, of which every         *)
(* property holds.                                                         *)
EXTENDS ProviderQuota, NewsSchedule, CronJob, FeedReader, TLC

(* Two feeds, one of them a search for a ticker, and an article in the     *)
(* other.                                                                  *)
OneRowEach == <<"f1", "f2">>
AtMinuteOne == <<1>>
InTheFirst == <<"f1">>
AboutAAA == <<"AAA">>

ASSUME ReadingAssumption == ArticlesAreDated

VARIABLE part

OnNews == part = "news" /\ UNCHANGED <<part, cronVars, vars, feedVars>>
OnSweep == part = "sweep" /\ UNCHANGED <<part, newsVars, vars, feedVars>>
OnAllowance == part = "allowance" /\ UNCHANGED <<part, newsVars, cronVars, feedVars>>
OnFeeds == part = "feeds" /\ UNCHANGED <<part, newsVars, cronVars, vars>>

SchedulesInit ==
    /\ part \in {"news", "sweep", "allowance", "feeds"}
    /\ Init /\ NewsInit /\ CronInit /\ FeedsInit
    /\ part # "sweep" => cron = Off
    /\ part # "feeds" => Existing = {}

SchedulesNext ==
    \/ OnNews /\ NewsNext
    \/ OnSweep /\ CronNext
    \/ OnAllowance /\ Next
    \/ OnFeeds /\ FeedsNext

SchedulesSpec ==
    SchedulesInit /\ [][SchedulesNext]_<<part, vars, newsVars, cronVars, feedVars>>

Symmetry == Permutations(Runners) \cup Permutations(Jobs)
=============================================================================
