---------------------------- MODULE Recommendation ----------------------------
(***************************************************************************)
(* From analyzers to a stored recommendation and to the alert its stop     *)
(* gives rise to: recommendations/calibration.py scores the evidence,      *)
(* rules.py refuses answers, engine.py asks again and stores, and          *)
(* monitoring/alerts.py compares quotes with the stored stop.              *)
(*                                                                         *)
(* A confidence is in tenths of a percent, exactly as it is rounded; an    *)
(* answer is what the rules look at; prices are integers.                  *)
(***************************************************************************)
EXTENDS Integers, FiniteSets, FiniteSetsExt

CONSTANTS
    Evidence,       \* the analyzers' outputs: functions from sources to signals
    FactorCounts,   \* how many supporting or conflicting factors an answer lists
    LastClose,      \* of the bars the analysis read
    StopDistance,   \* STOP_ATR_MULTIPLE times ATR(14), or 0 without one
    SupportLevel,   \* the nearest swing level below, or 0
    ResistanceLevel,\* the nearest swing level above, or 0
    Quotes,         \* prices observed later
    MaxRuleRetries  \* RecommendationEngine's max_rule_retries

Sources == {"technical_analyzer", "fundamental_analyzer", "news_analyzer"}
Sufficiencies == {"sufficient", "partial", "insufficient"}
Signals == [direction : {-1, 0, 1}, sufficiency : Sufficiencies]
Labels == {"strong_buy", "buy", "watchlist", "hold", "reduce", "sell"}

(* support_resistance takes the swings strictly below and above the close. *)
ASSUME LevelsAssumption ==
    /\ LastClose \in Nat /\ StopDistance \in Nat
    /\ SupportLevel \in Nat /\ SupportLevel < LastClose
    /\ ResistanceLevel \in Nat
    /\ ResistanceLevel # 0 => LastClose < ResistanceLevel

ASSUME EvidenceAssumption ==
    /\ \A e \in Evidence : DOMAIN e \subseteq Sources /\ e \in [DOMAIN e -> Signals]
    /\ FactorCounts \subseteq Nat

VARIABLES
    evidence,       \* what the analyzers of this run said
    tries,          \* answers asked for so far
    recommendation, \* the recommendation, once stored
    extremes,       \* the lowest and the highest quote since
    stopTold        \* a suggested_stop_reached alert was raised

recommendationVars == <<evidence, tries, recommendation, extremes, stopTold>>

NoRecommendation == [label |-> "none"]

-----------------------------------------------------------------------------
(* calibration.py *)

Weight == [technical_analyzer |-> 45, fundamental_analyzer |-> 35, news_analyzer |-> 20]
Credit == [sufficient |-> 2, partial |-> 1, insufficient |-> 0]

Usable(e) == {s \in DOMAIN e : e[s].sufficiency # "insufficient"}

(* compute_coverage, in two-hundredths. *)
Credited(e, s) == IF s \in DOMAIN e THEN Weight[s] * Credit[e[s].sufficiency] ELSE 0
Coverage(e) == Credited(e, "technical_analyzer") + Credited(e, "fundamental_analyzer")
                 + Credited(e, "news_analyzer")

(* compute_agreement, as a fraction: the share of the commonest direction, *)
(* and one half for a lone source, which agrees with nobody.               *)
Agreement(e) ==
    IF Usable(e) = {} THEN <<0, 1>>
    ELSE IF Cardinality(Usable(e)) = 1 THEN <<1, 2>>
    ELSE <<Max({Cardinality({s \in Usable(e) : e[s].direction = d}) : d \in {-1, 0, 1}}),
           Cardinality(Usable(e))>>

(* compute_balance, as a fraction: nothing for a one-sided list. *)
Balance(supporting, conflicting) ==
    IF conflicting = 0 THEN <<0, 1>>
    ELSE LET more == Max({supporting, conflicting})
             less == Min({supporting, conflicting})
         IN  <<more + less, 2 * more>>

(* calibrate: weights of 40, 40 and 20, rounded to a tenth, 95 at most.    *)
Confidence(e, supporting, conflicting) ==
    LET a == Agreement(e)
        b == Balance(supporting, conflicting)
        unit == a[2] * b[2]
        tenths == 2 * Coverage(e) * unit + 400 * a[1] * b[2] + 200 * b[1] * a[2]
        rounded == (2 * tenths + unit) \div (2 * unit)
    IN  IF rounded > 950 THEN 950 ELSE rounded

(* evidence_direction: the one direction of the usable sources, or 0.      *)
EvidenceDirection(e) ==
    LET directions == {e[s].direction : s \in Usable(e)}
    IN  IF Cardinality(directions) = 1 THEN CHOOSE d \in directions : TRUE ELSE 0

-----------------------------------------------------------------------------
(* rules.py *)

Direction(label) ==
    IF label \in {"strong_buy", "buy"} THEN 1 ELSE IF label \in {"reduce", "sell"} THEN -1 ELSE 0

IsStrong(label) == label \in {"strong_buy", "sell"}

Answers == [label : Labels, complete : BOOLEAN,     \* narratives and risks filled in
            supporting : FactorCounts, conflicting : FactorCounts]

(* Mutant: a strong label needs what any lone analyzer can give.           *)
LooserFloor == 400

StrongLabelMinConfidence == 700

(* Mutant: nobody asks for an argument against it.                         *)
ViolationsOneSided(e, a) ==
    {r \in {"completeness", "supporting_factors_required",
            "label_contradicts_evidence", "strong_label_needs_confidence"} :
       \/ r = "completeness" /\ ~a.complete
       \/ r = "supporting_factors_required" /\ a.supporting = 0
       \/ r = "label_contradicts_evidence" /\ Direction(a.label) * EvidenceDirection(e) = -1
       \/ r = "strong_label_needs_confidence" /\ IsStrong(a.label)
            /\ Confidence(e, a.supporting, a.conflicting) < StrongLabelMinConfidence}

(* The rules an answer breaks; each is a line of the correction.           *)
Violations(e, a) ==
    {r \in {"completeness", "supporting_factors_required", "conflicting_factors_required",
            "label_contradicts_evidence", "strong_label_needs_confidence"} :
       \/ r = "completeness" /\ ~a.complete
       \/ r = "supporting_factors_required" /\ a.supporting = 0
       \/ r = "conflicting_factors_required" /\ a.conflicting = 0
       \/ r = "label_contradicts_evidence" /\ Direction(a.label) * EvidenceDirection(e) = -1
       \/ r = "strong_label_needs_confidence" /\ IsStrong(a.label)
            /\ Confidence(e, a.supporting, a.conflicting) < StrongLabelMinConfidence}

-----------------------------------------------------------------------------
(* derive_levels: nothing for a neutral label, and no stop at or below 0.  *)

Target(label) ==
    CASE Direction(label) = 1 -> ResistanceLevel
      [] Direction(label) = -1 -> SupportLevel
      [] OTHER -> 0

SuggestedStop(label) ==
    IF StopDistance = 0 \/ Direction(label) = 0 THEN 0
    ELSE IF LastClose - Direction(label) * StopDistance > 0
         THEN LastClose - Direction(label) * StopDistance ELSE 0

-----------------------------------------------------------------------------
(* strategy.py: what a label means for one who does not hold the asset and *)
(* for one who does, in whichever language; and what would show the        *)
(* holder's reading wrong, as the price it names, or 0 when it names none. *)

EntryConfidenceFloor == 550

NotHolding(label, confidence) ==
    CASE Direction(label) = 1 ->
            IF confidence < EntryConfidenceFloor THEN "wait_for_level" ELSE "entry_candidate"
      [] label = "watchlist" -> "wait_for_level"
      [] label = "hold" -> "no_entry_basis"
      [] OTHER -> "avoid"

Holding(label) ==
    CASE label = "strong_buy" -> "accumulate_candidate"
      [] label \in {"buy", "hold", "watchlist"} -> "maintain"
      [] label = "reduce" -> "trim_candidate"
      [] OTHER -> "exit_candidate"

(* stop_line: the stop, else the support, else no price.                   *)
InvalidatedAt(label) ==
    CASE Direction(label) = -1 -> 0
      [] Direction(label) # -1 /\ SuggestedStop(label) > 0 -> SuggestedStop(label)
      [] OTHER -> SupportLevel

-----------------------------------------------------------------------------
(* engine.py *)

RecommendationInit ==
    /\ evidence \in Evidence
    /\ tries = 0 /\ recommendation = NoRecommendation
    /\ extremes = <<LastClose, LastClose>> /\ stopTold = FALSE

(* An answer that breaks a rule is asked for again with the correction;    *)
(* after the last one the run ends without a recommendation.               *)
Generate(a) ==
    /\ recommendation = NoRecommendation /\ tries <= MaxRuleRetries
    /\ tries' = tries + 1
    /\ recommendation' = IF Violations(evidence, a) # {} THEN recommendation
                 ELSE [label |-> a.label, target |-> Target(a.label), stop |-> SuggestedStop(a.label),
                       supporting |-> a.supporting, conflicting |-> a.conflicting,
                       confidence |-> Confidence(evidence, a.supporting, a.conflicting)]
    /\ UNCHANGED <<evidence, extremes, stopTold>>

(* A monitoring pass within the recommendation's age: evaluate's stop rule *)
(* looks at the stop and not at the side it is on.                         *)
ObserveQuote(price) ==
    /\ recommendation # NoRecommendation
    /\ extremes' = <<Min({price, extremes[1]}), Max({price, extremes[2]})>>
    /\ stopTold' = (stopTold \/ (recommendation.stop > 0 /\ price <= recommendation.stop))
    /\ UNCHANGED <<evidence, tries, recommendation>>

RecommendationNext == (\E a \in Answers : Generate(a)) \/ (\E q \in Quotes : ObserveQuote(q))

RecommendationSpec == RecommendationInit /\ [][RecommendationNext]_recommendationVars

-----------------------------------------------------------------------------
(* Properties *)

(* "Strong Buy on thin, one-sided evidence" is never stored: a strong      *)
(* label has two usable sources behind it, which do not all say the        *)
(* contrary, and is stored with an argument for it and one against it; and *)
(* the prices of any label lie on the sides of the close its direction     *)
(* says.                                                                   *)
StrongNeedsWitnesses ==
    recommendation # NoRecommendation =>
        LET d == Direction(recommendation.label) IN
        /\ IsStrong(recommendation.label) =>
             /\ Cardinality(Usable(evidence)) >= 2
             /\ \E s \in Usable(evidence) : evidence[s].direction # -d
             /\ recommendation.supporting > 0 /\ recommendation.conflicting > 0
        /\ d = 0 => recommendation.target = 0 /\ recommendation.stop = 0
        /\ d # 0 /\ recommendation.target > 0 => (recommendation.target - LastClose) * d > 0
        /\ d # 0 /\ recommendation.stop > 0 => (LastClose - recommendation.stop) * d > 0

(* The two readings of one label cannot contradict each other: a holder is *)
(* asked to consider more only where a newcomer is asked to consider any,  *)
(* nobody enters what a holder should leave, and the price that would show *)
(* the holder wrong is one the close has not passed yet.                   *)
SidesAgree ==
    recommendation # NoRecommendation =>
        LET newcomer == NotHolding(recommendation.label, recommendation.confidence)
            holder == Holding(recommendation.label)
        IN  /\ holder = "accumulate_candidate" => newcomer = "entry_candidate"
            /\ holder \in {"trim_candidate", "exit_candidate"} <=> newcomer = "avoid"
            /\ InvalidatedAt(recommendation.label) > 0 =>
                   InvalidatedAt(recommendation.label) < LastClose

(* "Reached": a stop alert says that the price went as far against the     *)
(* stance as the stop is from the close ("for a constructive stance the    *)
(* stop sits below price, and vice versa").                                *)
StopAlertMeansReached ==
    stopTold => IF Direction(recommendation.label) = 1 THEN extremes[1] <= recommendation.stop
                ELSE extremes[2] >= recommendation.stop
=============================================================================
