---------------------------- MODULE MonitoringPass ----------------------------
(***************************************************************************)
(* Passes over the watched assets (monitoring/poller.py), the storing of   *)
(* their alerts (record in monitoring/alerts.py) and the announcement of   *)
(* them (reporting/notifications.py).  A pass is one job and one           *)
(* transaction; a pass that outlasts the polling interval overlaps the     *)
(* next one, which has another bucket's key.                               *)
(*                                                                         *)
(* A price is below (0) or above (1) the one stored level of its asset; an *)
(* alert is its dedup key: who, which asset, what.  All observations fall  *)
(* into one session, so that a key names a condition of that session.      *)
(***************************************************************************)
EXTENDS Integers, SequencesExt

CONSTANTS
    Watched,        \* the assets somebody follows
    Followers,      \* [Watched -> SUBSET Investors]
    Holders,        \* [Watched -> SUBSET Investors]: holdings bought above the level
    Investors,
    Passes,         \* monitoring jobs that can run at once
    MaxPasses,      \* bound: passes queued
    MaxAborts       \* bound: passes that die or whose transaction fails

ASSUME MonitoringAssumption ==
    /\ IsFiniteSet(Investors)
    /\ Followers \in [Watched -> SUBSET Investors] /\ Holders \in [Watched -> SUBSET Investors]

VARIABLES
    observed,       \* committed quotes: per asset the last observed price and when
    alerts,         \* committed alerts
    announced,      \* alerts users have been told of
    owed,           \* alerts the committed quotes gave rise to
    pass,           \* per running pass, where it is and what its transaction holds
    observations,   \* observations so far
    passes,
    aborts

monitoringVars == <<observed, alerts, announced, owed, pass, observations, passes, aborts>>

None == [price |-> -1, at |-> 0]            \* nothing observed yet
Keys == [user : Investors, asset : Watched, what : {"cross-up", "cross-down", "trailing"}]

Idle == [phase |-> "idle", todo |-> {}, due |-> <<>>,
         quotes |-> [a \in {} |-> None], owes |-> {}, alerts |-> {}, raised |-> {}]

MonitoringInit ==
    /\ observed \in [Watched -> {None, [price |-> 0, at |-> 0], [price |-> 1, at |-> 0]}]
    /\ alerts = {} /\ announced = {} /\ owed = {}
    /\ pass = [p \in Passes |-> Idle]
    /\ observations = 0 /\ passes = 0 /\ aborts = 0

-----------------------------------------------------------------------------
(* One pass *)

(* The bucket's job runs.  followers and assets are read once.             *)
StartPass(p) ==
    /\ pass[p].phase = "idle" /\ passes < MaxPasses
    /\ passes' = passes + 1
    /\ pass' = [pass EXCEPT ![p] = [Idle EXCEPT !.phase = "polling", !.todo = Watched]]
    /\ UNCHANGED <<observed, alerts, announced, owed, observations, aborts>>

(* _last_observed_price: its own transaction's quote is visible to a pass. *)
Previous(p, a) == IF a \in DOMAIN pass[p].quotes THEN pass[p].quotes[a] ELSE observed[a]

(* evaluate, for one level, and evaluate_trailing_stop.                    *)
Crossing(prev, price) ==
    IF prev = 0 /\ price = 1 THEN {"cross-up"}
    ELSE IF prev = 1 /\ price = 0 THEN {"cross-down"} ELSE {}

Trailing(price) == IF price = 0 THEN {"trailing"} ELSE {}

(* What is new for whom: conditions of the asset for its followers and for *)
(* anyone whose own trailing stop is reached.                              *)
Candidates(a, prev, price) ==
    LET falls == IF Trailing(price) = {} THEN {} ELSE Holders[a]
    IN  [user : Followers[a] \cup falls, asset : {a}, what : Crossing(prev, price)]
          \cup [user : falls, asset : {a}, what : Trailing(price)]

(* The asset is inactive or its quote cannot be had: the pass goes on.     *)
SkipAsset(p, a) ==
    /\ pass[p].phase = "polling" /\ a \in pass[p].todo
    /\ pass' = [pass EXCEPT ![p].todo = @ \ {a}]
    /\ UNCHANGED <<observed, alerts, announced, owed, observations, passes, aborts>>

Noted(quotes, a, quote) ==
    [b \in DOMAIN quotes \cup {a} |-> IF b = a THEN quote ELSE quotes[b]]

(* A quote is flushed and its conditions are worked out against the        *)
(* previous observation; recording them comes user by user.                *)
Observe(p, a, price) ==
    /\ pass[p].phase = "polling" /\ a \in pass[p].todo
    /\ observations' = observations + 1
    /\ LET due == Candidates(a, Previous(p, a).price, price) IN
       pass' = [pass EXCEPT ![p] =
          [pass[p] EXCEPT !.phase = "recording", !.todo = @ \ {a},
                    !.due = SetToSeq(due), !.owes = @ \cup due,
                    !.quotes = Noted(@, a, [price |-> price, at |-> observations + 1])]]
    /\ UNCHANGED <<observed, alerts, announced, owed, passes, aborts>>

(* Mutant: the key without its user, so that one is told for all. *)
KnownToAnyone(p) ==
    /\ pass[p].phase = "recording" /\ pass[p].due # <<>>
    /\ \E k \in alerts \cup pass[p].alerts :
          k.asset = Head(pass[p].due).asset /\ k.what = Head(pass[p].due).what
    /\ pass' = [pass EXCEPT ![p].due = Tail(@)]
    /\ UNCHANGED <<observed, alerts, announced, owed, observations, passes, aborts>>

(* record's pre-check: a key that is stored already is passed over.        *)
Known(p) ==
    /\ pass[p].phase = "recording" /\ pass[p].due # <<>>
    /\ Head(pass[p].due) \in alerts \cup pass[p].alerts
    /\ pass' = [pass EXCEPT ![p].due = Tail(@)]
    /\ UNCHANGED <<observed, alerts, announced, owed, observations, passes, aborts>>

Unknown(p) ==
    /\ pass[p].phase = "recording" /\ pass[p].due # <<>>
    /\ Head(pass[p].due) \notin alerts \cup pass[p].alerts
    /\ pass' = [pass EXCEPT ![p].phase = "inserting"]
    /\ UNCHANGED <<observed, alerts, announced, owed, observations, passes, aborts>>

(* The insert waits for another transaction that has inserted the key.     *)
Contested(p) == \E q \in Passes \ {p} : Head(pass[p].due) \in pass[q].alerts

StoreAlert(p) ==
    /\ pass[p].phase = "inserting" /\ ~Contested(p) /\ Head(pass[p].due) \notin alerts
    /\ LET key == Head(pass[p].due) IN
       pass' = [pass EXCEPT ![p] =
          [pass[p] EXCEPT !.phase = "recording", !.due = Tail(@),
                    !.alerts = @ \cup {key}, !.raised = @ \cup {key}]]
    /\ UNCHANGED <<observed, alerts, announced, owed, observations, passes, aborts>>

(* Another pass has committed the key.  session.rollback drops everything  *)
(* the pass has written so far, its quotes included; the loop goes on, and *)
(* the lists of alerts it has already returned stay as they are.           *)
LoseKey(p) ==
    /\ pass[p].phase = "inserting" /\ ~Contested(p) /\ Head(pass[p].due) \in alerts
    /\ pass' = [pass EXCEPT ![p] =
          [pass[p] EXCEPT !.phase = "recording", !.due = Tail(@),
                    !.quotes = Idle.quotes, !.owes = {}, !.alerts = {}]]
    /\ UNCHANGED <<observed, alerts, announced, owed, observations, passes, aborts>>

NextAsset(p) ==
    /\ pass[p].phase = "recording" /\ pass[p].due = <<>>
    /\ pass' = [pass EXCEPT ![p].phase = "polling"]
    /\ UNCHANGED <<observed, alerts, announced, owed, observations, passes, aborts>>

(* _announce tells each user of what record returned, in the same          *)
(* transaction, and the job commits.                                       *)
Finish(p) ==
    /\ pass[p].phase = "polling" /\ pass[p].todo = {}
    /\ observed' = [a \in Watched |->
                    IF a \in DOMAIN pass[p].quotes /\ pass[p].quotes[a].at > observed[a].at
                    THEN pass[p].quotes[a] ELSE observed[a]]
    /\ alerts' = alerts \cup pass[p].alerts
    /\ announced' = announced \cup pass[p].raised
    /\ owed' = owed \cup pass[p].owes
    /\ pass' = [pass EXCEPT ![p] = Idle]
    /\ UNCHANGED <<observations, passes, aborts>>

(* The worker dies, the provider's client raises something else, or the    *)
(* database ends a deadlock between two passes.                            *)
Abort(p) ==
    /\ pass[p].phase # "idle" /\ aborts < MaxAborts
    /\ aborts' = aborts + 1 /\ pass' = [pass EXCEPT ![p] = Idle]
    /\ UNCHANGED <<observed, alerts, announced, owed, observations, passes>>

MonitoringNext ==
    \E p \in Passes :
        \/ StartPass(p) \/ Known(p) \/ Unknown(p) \/ StoreAlert(p) \/ LoseKey(p) \/ NextAsset(p)
        \/ Finish(p) \/ Abort(p)
        \/ \E a \in Watched : SkipAsset(p, a) \/ \E price \in {0, 1} : Observe(p, a, price)

MonitoringSpec == MonitoringInit /\ [][MonitoringNext]_monitoringVars

-----------------------------------------------------------------------------
(* Properties *)

MonitoringTypeOK ==
    /\ observed \in [Watched -> [price : {-1, 0, 1}, at : Nat]]
    /\ alerts \subseteq Keys /\ announced \subseteq Keys /\ owed \subseteq Keys
    /\ \A p \in Passes :
         /\ pass[p].phase \in {"idle", "polling", "recording", "inserting"}
         /\ pass[p].todo \subseteq Watched /\ pass[p].due \in Seq(Keys)
         /\ DOMAIN pass[p].quotes \subseteq Watched
         /\ pass[p].alerts \subseteq pass[p].raised /\ pass[p].raised \subseteq Keys
    /\ observations \in Nat /\ passes \in 0..MaxPasses /\ aborts \in 0..MaxAborts

(* A price is never on record without the alerts it gave rise to: passes   *)
(* that race for a key, lose their transaction or die may drop an          *)
(* observation, but never one whose crossing the next pass would then take *)
(* for old.                                                                *)
CrossingAlerted == owed \subseteq alerts

(* "The alerts are already stored by this point": a user is only ever told *)
(* of alerts that are there to be read.                                    *)
AnnouncedIsStored == announced \subseteq alerts
=============================================================================
