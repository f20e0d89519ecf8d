------------------------- MODULE FundamentalsPacing -------------------------
(***************************************************************************)
(* Spreading a list of assets over a provider's daily allowance:           *)
(* enqueue_due_fundamentals and assets_needing_fundamentals choose what to *)
(* queue, refresh_fundamentals spends (jobs/handlers.py), and what the     *)
(* collector writes decides what is stale tomorrow                         *)
(* (collectors/market_data.py).                                            *)
(*                                                                         *)
(* ProviderQuota has the reservation statement by statement; here it is a  *)
(* counter.  Ages are in days and stop one past the refresh interval, so   *)
(* that days need no bound; which of two assets is the staler is kept as   *)
(* their order.                                                            *)
(***************************************************************************)
EXTENDS Integers, SequencesExt

CONSTANTS
    Assets,         \* naturals, in the order of their tickers
    Unchanging,     \* assets for which the provider has nothing new
    DailyQuota,     \* fundamentals_daily_quota
    PerTick,        \* fundamentals_max_enqueued_per_tick
    Interval        \* fundamentals_refresh_interval_days

VARIABLES
    order,      \* the assets: those without figures by ticker, then by newest figure
    age,        \* days since the asset's newest figure was written
    keyed,      \* assets with a job under today's key
    ready,      \* assets with a job that may run (two jobs for one asset are one)
    deferred,   \* assets whose job waits for tomorrow's allowance
    spent       \* requests reserved today

pacingVars == <<order, age, keyed, ready, deferred, spent>>

Unknown == Interval + 2     \* no figure at all
Stale(a) == age[a] > Interval

ByTicker(S) == SetToSortSeq(S, LAMBDA a, b : a < b)

PacingInit ==
    /\ \E known \in SUBSET Assets :
         /\ order = ByTicker(Assets \ known) \o ByTicker(known)
         /\ age = [a \in Assets |-> IF a \in known THEN 0 ELSE Unknown]
    /\ keyed = {} /\ ready = {} /\ deferred = {} /\ spent = 0

-----------------------------------------------------------------------------
FirstOf(s, n) == ToSet(SubSeq(s, 1, IF n < Len(s) THEN n ELSE Len(s)))

(* Mutant: assets without figures come last. *)
NeedingKnown(n) ==
    FirstOf(SelectSeq(order, LAMBDA a : age[a] = Interval + 1)
              \o SelectSeq(order, LAMBDA a : age[a] = Unknown), n)

(* assets_needing_fundamentals: the first n stale assets of the order.  An *)
(* asset queued already today keeps its place among them.                  *)
Needing(n) == FirstOf(SelectSeq(order, Stale), n)

Room == LET left == DailyQuota - spent IN IF left < PerTick THEN left ELSE PerTick

(* A scheduler pass.  One job per asset and day, by its key.               *)
EnqueueDue ==
    /\ keyed' = keyed \cup Needing(Room)
    /\ ready' = ready \cup (Needing(Room) \ keyed)
    /\ UNCHANGED <<order, age, deferred, spent>>

(* A refresh within the allowance.  Only a figure that is new or revised   *)
(* is written with a new date: an empty answer and one that repeats what   *)
(* is stored leave the asset as old as it was.                             *)
Refresh(a) ==
    /\ a \in ready /\ spent < DailyQuota
    /\ spent' = spent + 1
    /\ ready' = ready \ {a}
    /\ IF a \in Unchanging THEN UNCHANGED <<order, age>>
       ELSE /\ age' = [age EXCEPT ![a] = 0]
            /\ order' = Append(Remove(order, a), a)
    /\ UNCHANGED <<keyed, deferred>>

(* The provider is down: the allowance is spent, the queue retries.        *)
RefreshFails(a) ==
    /\ a \in ready /\ spent < DailyQuota
    /\ spent' = spent + 1
    /\ UNCHANGED <<order, age, keyed, ready, deferred>>

PutOff(a) ==
    /\ a \in ready /\ spent = DailyQuota
    /\ ready' = ready \ {a} /\ deferred' = deferred \cup {a}
    /\ UNCHANGED <<order, age, keyed, spent>>

(* Midnight.  The workers are assumed to have got through the day's jobs.  *)
NextDay ==
    /\ ready = {} /\ \A a \in Needing(Room) : a \in keyed
    /\ age' = [a \in Assets |-> IF age[a] > Interval THEN age[a] ELSE age[a] + 1]
    /\ spent' = 0 /\ keyed' = {}
    /\ ready' = deferred /\ deferred' = {}
    /\ UNCHANGED order

PacingNext ==
    \/ EnqueueDue \/ NextDay
    \/ \E a \in Assets : Refresh(a) \/ RefreshFails(a) \/ PutOff(a)

(* The scheduler passes, the workers run, days go by, and a provider that  *)
(* is tried often enough answers.                                          *)
PacingFairness ==
    /\ WF_pacingVars(EnqueueDue) /\ WF_pacingVars(NextDay)
    /\ \A a \in Assets : SF_pacingVars(Refresh(a)) /\ WF_pacingVars(PutOff(a))

PacingSpec == PacingInit /\ [][PacingNext]_pacingVars /\ PacingFairness

-----------------------------------------------------------------------------
(* Properties *)

PacingTypeOK ==
    /\ age \in [Assets -> 0..Unknown] /\ order \in SetToSeqs(Assets)
    /\ keyed \subseteq Assets /\ ready \subseteq Assets /\ deferred \subseteq Assets
    /\ spent \in 0..DailyQuota

(* Every asset gets its turn: one that is stale or without figures is      *)
(* eventually asked for ("never reach the ones it does not" is what the    *)
(* order of assets_needing_fundamentals is there to prevent).              *)
EveryAssetReached == \A a \in Assets : Stale(a) ~> a \in ready
=============================================================================
