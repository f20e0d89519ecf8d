---------------------------- MODULE Advice_proofs ----------------------------
(***************************************************************************)
(* Proofs about AnalysisRun for any number of analyses and translators,    *)
(* about Recommendation for every evidence and every set of levels, about  *)
(* MonitoringPass for any number of passes, assets and investors, and      *)
(* about AlertRules for every history of quotes and bars.                  *)
(***************************************************************************)
EXTENDS AlertRules, MonitoringPass, Recommendation, AnalysisRun, FiniteSetTheorems, SequenceTheorems, TLAPS

-----------------------------------------------------------------------------
(* AnalysisRun: what a run has reported so far *)

Snapshot ==
    [ran : SUBSET Agents, skipped : SUBSET Agents, failed : SUBSET Agents,
     rendered : SUBSET Agents, row : BOOLEAN, shown : BOOLEAN,
     rowRendered : BOOLEAN, shownRendered : BOOLEAN]

Reported(s) == s.ran \cup s.skipped \cup s.failed

(* An agent is reported once, and a synthesis or a recommendation has the  *)
(* inputs it needs.                                                        *)
Plausible(s) ==
    /\ s.ran \cap s.skipped = {} /\ s.ran \cap s.failed = {} /\ s.skipped \cap s.failed = {}
    /\ "summary_agent" \in s.ran => \E a, b \in s.ran \cap Analyzers : a # b
    /\ s.row <=> s.shown
    /\ s.row => s.ran \cap Analyzers # {}
    /\ s.rendered \subseteq s.ran

(* Before _recommend there is no recommendation, and before the snapshot   *)
(* is stored no translation.                                               *)
Fresh(s) == s.rendered = {} /\ ~s.rowRendered /\ ~s.shownRendered
Undecided(s) == ~s.row /\ ~s.shown /\ "recommendation_agent" \notin Reported(s)

Run == [phase : {"none", "agents", "recommending", "ending"}, route : {"job", "request"},
        data : SUBSET Kinds, wanted : BOOLEAN, at : Nat, so : Snapshot]

(* The agents of Order are reported up to the one whose turn it is.        *)
RunSound ==
    /\ run \in Run /\ Plausible(run.so) /\ Fresh(run.so)
    /\ run.phase = "agents" =>
          /\ run.at >= 1 /\ Undecided(run.so)
          /\ \A k \in 1..5 : Order[k] \in Reported(run.so) <=> k < run.at
    /\ run.phase = "recommending" => Undecided(run.so) /\ RanAnalyzers # {}
    /\ run.phase \in {"recommending", "ending"} =>
          Agents \ {"recommendation_agent"} \subseteq Reported(run.so)

(* What SnapshotTruthful says of one stored snapshot, of itself.           *)
Truthful(s) ==
    /\ Plausible(s)
    /\ Agents \ {"recommendation_agent"} \subseteq Reported(s)
    /\ s.shownRendered => s.shown /\ s.rowRendered

ResultsSound ==
    /\ results \in Seq(Snapshot)
    /\ \A i \in 1..Len(results) :
          /\ Truthful(results[i])
          /\ results[i].ran # {} => i \in renderings.queued \cup renderings.done
    /\ renderings \in [queued : SUBSET (1..Len(results)), done : SUBSET (1..Len(results))]

(* A translator's copy may be stale in what has been rendered since, and   *)
(* in nothing else.                                                        *)
CopyOf(c, s) ==
    /\ c.ran = s.ran /\ c.row = s.row /\ c.shown = s.shown
    /\ c.rendered \subseteq c.ran
    /\ c.shownRendered => c.shown /\ s.rowRendered

SessionsSound ==
    \A t \in Translators :
        /\ session[t] \in [of : 0..Len(results), copy : Snapshot]
        /\ session[t].of # 0 => CopyOf(session[t].copy, results[session[t].of])

AnalysisInv ==
    RunSound /\ ResultsSound /\ SessionsSound /\ DOMAIN session = Translators

LEMMA OrderIs ==
  /\ Order[1] = "market_analyzer" /\ Order[2] = "technical_analyzer"
  /\ Order[3] = "fundamental_analyzer" /\ Order[4] = "news_analyzer"
  /\ Order[5] = "summary_agent" /\ Len(Order) = 5
  /\ Agents = {"market_analyzer", "technical_analyzer", "fundamental_analyzer", "news_analyzer",
               "summary_agent", "recommendation_agent"}
  BY DEF Order, Agents, Analyzers

LEMMA OrderCovers ==
  /\ \A k \in 1..5 : Order[k] \in Agents /\ Order[k] # "recommendation_agent"
  /\ \A k, l \in 1..5 : Order[k] = Order[l] => k = l
  /\ \A a \in Agents \ {"recommendation_agent"} : \E k \in 1..5 : Order[k] = a
  <1>1. 1..5 = {1, 2, 3, 4, 5}
    OBVIOUS
  <1>2. \A a \in Agents \ {"recommendation_agent"} : \E k \in {1, 2, 3, 4, 5} : Order[k] = a
    BY OrderIs
  <1> QED
    BY <1>1, <1>2, OrderIs

LEMMA EmptyIsSound == Empty \in Snapshot /\ Plausible(Empty) /\ Fresh(Empty) /\ Undecided(Empty)
  BY DEF Empty, Snapshot, Plausible, Fresh, Undecided, Reported

LEMMA AnalysisInitially == AnalysisInit => AnalysisInv
  <1> SUFFICES ASSUME AnalysisInit PROVE AnalysisInv
    OBVIOUS
  <1>1. run = NoRun /\ results = <<>> /\ renderings = [queued |-> {}, done |-> {}]
        /\ session = [t \in Translators |-> Free]
    BY DEF AnalysisInit
  <1>2. RunSound
    BY <1>1, EmptyIsSound DEF NoRun, RunSound, Run, Kinds
  <1>3. results \in Seq(Snapshot) /\ Len(results) = 0
    BY <1>1, EmptySeq
  <1>4. ResultsSound
    BY <1>1, <1>3 DEF ResultsSound
  <1>5. SessionsSound
    BY <1>1, <1>3, EmptyIsSound DEF SessionsSound, Free
  <1> QED
    BY <1>1, <1>2, <1>4, <1>5 DEF AnalysisInv

(* What a report changes in a snapshot, whichever list it goes to.         *)
Adds(s, t, field, agent) ==
    /\ t \in Snapshot
    /\ t.ran = IF field = "ran" THEN s.ran \cup {agent} ELSE s.ran
    /\ t.skipped = IF field = "skipped" THEN s.skipped \cup {agent} ELSE s.skipped
    /\ t.failed = IF field = "failed" THEN s.failed \cup {agent} ELSE s.failed
    /\ t.rendered = s.rendered
    /\ t.row = s.row /\ t.shown = s.shown
    /\ t.rowRendered = s.rowRendered /\ t.shownRendered = s.shownRendered

LEMMA AddsTo ==
  ASSUME NEW s \in Snapshot, NEW agent \in Agents, NEW field \in {"ran", "skipped", "failed"}
  PROVE  Adds(s, [s EXCEPT ![field] = @ \cup {agent}], field, agent)
  <1>1. CASE field = "ran"
    BY <1>1 DEF Adds, Snapshot
  <1>2. CASE field = "skipped"
    BY <1>2 DEF Adds, Snapshot
  <1>3. CASE field = "failed"
    BY <1>3 DEF Adds, Snapshot
  <1> QED
    BY <1>1, <1>2, <1>3

(* What _recommend does to a snapshot besides.                             *)
Decides(s, t, given) ==
    /\ t \in Snapshot
    /\ t.ran = s.ran /\ t.skipped = s.skipped /\ t.failed = s.failed
    /\ t.rendered = s.rendered
    /\ t.row = given /\ t.shown = given
    /\ t.rowRendered = s.rowRendered /\ t.shownRendered = s.shownRendered

LEMMA DecidesOn ==
  ASSUME NEW s \in Snapshot, NEW given \in BOOLEAN
  PROVE  Decides(s, [s EXCEPT !.row = given, !.shown = given], given)
  BY DEF Decides, Snapshot

LEMMA RunUpdated ==
  ASSUME NEW r \in Run, NEW s \in Snapshot, NEW n \in Nat
  PROVE  [r EXCEPT !.so = s, !.at = n] \in Run
  BY Zenon DEF Run

(* Reporting the agent whose turn it is.                                   *)
LEMMA ReportSound ==
  ASSUME RunSound, run.phase = "agents", run.at <= Len(Order),
         NEW field \in {"ran", "skipped", "failed"}, Report(field, Order[run.at]),
         field = "ran" => Applicable(Order[run.at])
  PROVE  RunSound'
  <1> DEFINE agent == Order[run.at]
             s == run.so
             t == run'.so
  <1>1. run.at \in 1..5 /\ agent \in Agents /\ agent # "recommendation_agent"
        /\ agent \notin Reported(s)
    BY OrderIs, OrderCovers DEF RunSound, Run
  <1>2. /\ run'.phase = "agents" /\ run'.at = run.at + 1
        /\ t = [s EXCEPT ![field] = @ \cup {agent}]
    BY DEF Report, RunSound, Run
  <1>3. s \in Snapshot /\ Adds(s, t, field, agent)
    <2>1. s \in Snapshot
      BY DEF RunSound, Run
    <2>2. Adds(s, [s EXCEPT ![field] = @ \cup {agent}], field, agent)
      BY <1>1, <2>1, AddsTo
    <2> QED
      BY <1>2, <2>1, <2>2
  <1>6. run' \in Run
    <2>1. run' = [run EXCEPT !.so = t, !.at = run.at + 1]
      BY <1>2 DEF Report, RunSound, Run
    <2>2. t \in Snapshot
      BY <1>3 DEF Adds
    <2>3. run \in Run /\ run.at + 1 \in Nat
      BY <1>1 DEF RunSound
    <2>4. [run EXCEPT !.so = t, !.at = run.at + 1] \in Run
      BY <2>2, <2>3, RunUpdated
    <2> QED
      BY <2>1, <2>4
  <1>7. /\ Reported(t) = Reported(s) \cup {agent}
        /\ t.ran \cap t.skipped = {} /\ t.ran \cap t.failed = {} /\ t.skipped \cap t.failed = {}
    BY <1>1, <1>3 DEF RunSound, Plausible, Adds, Reported
  <1>4. "summary_agent" \in t.ran => \E a, b \in t.ran \cap Analyzers : a # b
    <2>1. CASE field = "ran" /\ agent = "summary_agent"
      BY <1>3, <2>1 DEF Applicable, RanAnalyzers, Adds
    <2>2. CASE ~(field = "ran" /\ agent = "summary_agent")
      BY <1>3, <2>2 DEF RunSound, Plausible, Adds
    <2> QED
      BY <2>1, <2>2
  <1>5. \A k \in 1..5 : Order[k] \in Reported(t) <=> k < run.at + 1
    BY <1>1, <1>7, OrderCovers DEF RunSound
  <1>8. Plausible(t) /\ Fresh(t) /\ Undecided(t)
    BY <1>1, <1>3, <1>4, <1>7 DEF RunSound, Plausible, Fresh, Undecided, Adds
  <1> QED
    BY <1>1, <1>2, <1>5, <1>6, <1>8 DEF RunSound

(* The engine's steps up to the snapshot of the recommendation.            *)
LEMMA RunStep ==
  ASSUME RunSound,
         \/ \E route \in {"job", "request"}, data \in SUBSET Kinds, wanted \in BOOLEAN :
              BeginAnalysis(route, data, wanted)
         \/ SkipAgent \/ Persist
         \/ \E outcome \in {"ran", "failed"} : RunAgent(outcome) \/ Recommend(outcome)
  PROVE  RunSound'
  <1>1. ASSUME NEW route \in {"job", "request"}, NEW data \in SUBSET Kinds, NEW wanted \in BOOLEAN,
               BeginAnalysis(route, data, wanted)
        PROVE  RunSound'
    <2>1. run' = [phase |-> "agents", route |-> route, data |-> data, wanted |-> wanted,
                  at |-> 1, so |-> Empty]
      BY <1>1 DEF BeginAnalysis, NoRun
    <2>2. run' \in Run
      BY <2>1, EmptyIsSound DEF Run
    <2>3. \A k \in 1..5 : Order[k] \in Reported(Empty) <=> k < 1
      BY DEF Reported, Empty
    <2> QED
      BY <2>1, <2>2, <2>3, EmptyIsSound DEF RunSound
  <1>2. CASE SkipAgent
    BY <1>2, ReportSound DEF SkipAgent
  <1>3. ASSUME NEW outcome \in {"ran", "failed"}, RunAgent(outcome) PROVE RunSound'
    BY <1>3, ReportSound DEF RunAgent
  <1>4. CASE Persist
    <2>1. run.phase = "agents" /\ run.at > 5
      BY <1>4, OrderIs DEF Persist
    <2>2. /\ run'.so = run.so /\ run' \in Run
          /\ run'.phase \in {"recommending", "ending"}
          /\ run'.phase = "recommending" => RanAnalyzers # {}
      BY <1>4 DEF Persist, RunSound, Run
    <2>3. Agents \ {"recommendation_agent"} \subseteq Reported(run.so)
      <3>1. \A k \in 1..5 : Order[k] \in Reported(run.so)
        BY <2>1 DEF RunSound, Run
      <3> QED
        BY <3>1, OrderCovers
    <2> QED
      BY <2>1, <2>2, <2>3 DEF RunSound, RanAnalyzers
  <1>5. ASSUME NEW outcome \in {"ran", "failed"}, Recommend(outcome) PROVE RunSound'
    <2> DEFINE s == run.so
               u == [s EXCEPT ![outcome] = @ \cup {"recommendation_agent"}]
               given == outcome = "ran"
               t == [u EXCEPT !.row = given, !.shown = given]
    <2>1. run.phase = "recommending" /\ s \in Snapshot
      BY <1>5 DEF Recommend, RunSound, Run
    <2>2. Adds(s, u, outcome, "recommendation_agent")
      BY <2>1, AddsTo, OrderIs
    <2>3. Decides(u, t, given)
      BY <2>2, DecidesOn DEF Adds
    <2>4. run' = [run EXCEPT !.phase = "ending", !.so = t]
      BY <1>5, <2>1 DEF Recommend, RunSound, Run, Snapshot
    <2> HIDE DEF u, t
    <2>5. /\ run'.phase = "ending" /\ run' \in Run /\ run'.so = t
      BY <2>1, <2>3, <2>4 DEF RunSound, Run, Decides
    <2>6. Reported(t) = Reported(s) \cup {"recommendation_agent"}
      BY <2>2, <2>3 DEF Adds, Decides, Reported
    <2>7. t.ran \cap Analyzers = s.ran \cap Analyzers
      BY <2>2, <2>3 DEF Adds, Decides, Analyzers
    <2>8. Plausible(t)
      BY <2>1, <2>2, <2>3, <2>7
         DEF RunSound, Plausible, Undecided, Adds, Decides, RanAnalyzers, Reported
    <2>9. Fresh(t)
      BY <2>1, <2>2, <2>3 DEF RunSound, Fresh, Adds, Decides
    <2> QED
      BY <2>1, <2>5, <2>6, <2>8, <2>9 DEF RunSound
  <1> QED
    BY <1>1, <1>2, <1>3, <1>4, <1>5

LEMMA NoRunSound == ASSUME run' = NoRun PROVE RunSound'
  BY EmptyIsSound DEF NoRun, RunSound, Run, Kinds

(* What nothing but the run changes in.                                    *)
LEMMA StoredStands ==
  ASSUME ResultsSound, SessionsSound, UNCHANGED <<results, renderings, session>>
  PROVE  ResultsSound' /\ SessionsSound'
  BY DEF ResultsSound, SessionsSound

(* A result is appended; it has asked for its rendering if anything ran.   *)
LEMMA StoreStep ==
  ASSUME AnalysisInv, run.phase = "ending", StoreResult, UNCHANGED session,
         \/ AskRendering
         \/ run.so.ran = {} /\ UNCHANGED renderings
  PROVE  ResultsSound' /\ SessionsSound'
  <1> DEFINE n == Len(results)
  <1>1. n \in Nat /\ results \in Seq(Snapshot) /\ run.so \in Snapshot
    BY LenProperties DEF AnalysisInv, ResultsSound, RunSound, Run
  <1>2. /\ results' \in Seq(Snapshot) /\ Len(results') = n + 1
        /\ results'[n + 1] = run.so /\ \A i \in 1..n : results'[i] = results[i]
    BY <1>1, AppendProperties DEF StoreResult
  <1>3. Truthful(run.so)
    BY DEF AnalysisInv, RunSound, Truthful, Fresh
  <1>4. /\ renderings' \in [queued : SUBSET (1..(n + 1)), done : SUBSET (1..(n + 1))]
        /\ renderings.queued \subseteq renderings'.queued /\ renderings.done = renderings'.done
        /\ run.so.ran # {} => n + 1 \in renderings'.queued
    <2>1. renderings \in [queued : SUBSET (1..n), done : SUBSET (1..n)]
      BY DEF AnalysisInv, ResultsSound
    <2>2. 1..n \subseteq 1..(n + 1) /\ n + 1 \in 1..(n + 1)
      BY <1>1
    <2> QED
      BY <2>1, <2>2 DEF AskRendering
  <1>5. \A i \in 1..(n + 1) : i \in 1..n \/ i = n + 1
    BY <1>1
  <1>6. ResultsSound'
    BY <1>1, <1>2, <1>3, <1>4, <1>5 DEF AnalysisInv, ResultsSound
  <1>7. SessionsSound'
    <2> SUFFICES ASSUME NEW t \in Translators
                 PROVE  /\ session[t] \in [of : 0..(n + 1), copy : Snapshot]
                        /\ session[t].of # 0 => CopyOf(session[t].copy, results'[session[t].of])
      BY <1>2 DEF SessionsSound
    <2>1. /\ session[t] \in [of : 0..n, copy : Snapshot]
          /\ session[t].of # 0 => CopyOf(session[t].copy, results[session[t].of])
      BY DEF AnalysisInv, SessionsSound
    <2>2. session[t].of \in 0..n /\ (session[t].of # 0 => session[t].of \in 1..n)
      BY <1>1, <2>1
    <2>3. session[t] \in [of : 0..(n + 1), copy : Snapshot]
      BY <1>1, <2>1
    <2> QED
      BY <1>2, <2>1, <2>2, <2>3
  <1> QED
    BY <1>6, <1>7

LEMMA LoadStep ==
  ASSUME AnalysisInv, NEW t \in Translators, NEW i \in 1..MaxRuns, LoadStored(t, i)
  PROVE  SessionsSound'
  <1>1. i \in 1..Len(results) /\ results[i] \in Snapshot
    BY ElementOfSeq DEF LoadStored, AnalysisInv, ResultsSound
  <1>2. CopyOf(results[i], results[i])
    BY <1>1 DEF AnalysisInv, ResultsSound, Truthful, Plausible, CopyOf
  <1>3. /\ results' = results /\ session'[t] = [of |-> i, copy |-> results[i]]
        /\ \A u \in Translators \ {t} : session'[u] = session[u]
    BY DEF LoadStored, AnalysisInv
  <1>4. i \in 0..Len(results) /\ i # 0
    BY <1>1
  <1> QED
    BY <1>1, <1>2, <1>3, <1>4 DEF AnalysisInv, SessionsSound

LEMMA FreeStep ==
  ASSUME AnalysisInv, NEW t \in Translators, UNCHANGED results,
         session' = [session EXCEPT ![t] = Free]
  PROVE  SessionsSound'
  <1>1. 0 \in 0..Len(results)
    BY LenProperties DEF AnalysisInv, ResultsSound
  <1>2. session'[t].of = 0 /\ session'[t] \in [of : 0..Len(results), copy : Snapshot]
    BY <1>1, EmptyIsSound DEF AnalysisInv, Free
  <1>3. \A u \in Translators \ {t} : session'[u] = session[u]
    BY DEF AnalysisInv
  <1> QED
    BY <1>2, <1>3 DEF AnalysisInv, SessionsSound

(* What rendering changes in a snapshot.                                   *)
Renders(s, t, rendered, shown, rec) ==
    /\ t \in Snapshot
    /\ t.ran = s.ran /\ t.skipped = s.skipped /\ t.failed = s.failed
    /\ t.row = s.row /\ t.shown = s.shown
    /\ t.rendered = rendered
    /\ t.shownRendered = shown
    /\ t.rowRendered = (s.rowRendered \/ rec)

LEMMA RendersOn ==
  ASSUME NEW s \in Snapshot, NEW rendered \in SUBSET Agents, NEW shown \in BOOLEAN,
         NEW rec \in BOOLEAN
  PROVE  Renders(s, [s EXCEPT !.rendered = rendered, !.shownRendered = shown,
                              !.rowRendered = @ \/ rec], rendered, shown, rec)
  BY DEF Renders, Snapshot

LEMMA SaveStep ==
  ASSUME AnalysisInv, NEW t \in Translators, NEW agents \in SUBSET Agents, NEW rec \in BOOLEAN,
         SaveRendered(t, agents, rec)
  PROVE  ResultsSound' /\ SessionsSound'
  <1> DEFINE i == session[t].of
             copy == session[t].copy
             n == Len(results)
             rendered == copy.rendered \cup agents
             shown == copy.shownRendered \/ (rec /\ copy.shown)
             s == [results[i] EXCEPT !.rendered = rendered, !.shownRendered = shown,
                                     !.rowRendered = @ \/ rec]
  <1>1. /\ i \in 1..n /\ copy \in Snapshot /\ CopyOf(copy, results[i])
        /\ n \in Nat /\ results \in Seq(Snapshot) /\ results[i] \in Snapshot
        /\ Truthful(results[i])
    <2>1. n \in Nat /\ results \in Seq(Snapshot)
      BY LenProperties DEF AnalysisInv, ResultsSound
    <2>2. i # 0 /\ i \in 0..n /\ copy \in Snapshot /\ CopyOf(copy, results[i])
      BY DEF SaveRendered, AnalysisInv, SessionsSound
    <2>3. i \in 1..n
      BY <2>1, <2>2
    <2> QED
      BY <2>1, <2>2, <2>3, ElementOfSeq DEF AnalysisInv, ResultsSound
  <1>2. /\ agents \subseteq copy.ran \ copy.rendered /\ (rec => copy.row)
        /\ results' = IF agents = {} /\ ~rec THEN results ELSE [results EXCEPT ![i] = s]
        /\ renderings' = [queued |-> renderings.queued \ {i}, done |-> renderings.done \cup {i}]
        /\ session' = [session EXCEPT ![t] = Free]
    BY <1>1 DEF SaveRendered
  <1>3. rendered \in SUBSET Agents /\ rendered \subseteq copy.ran /\ shown \in BOOLEAN
    BY <1>1, <1>2 DEF Snapshot, CopyOf
  <1>4. Renders(results[i], s, rendered, shown, rec)
    BY <1>1, <1>3, RendersOn
  <1>5. shown => copy.shown /\ (results[i].rowRendered \/ rec)
    BY <1>1 DEF CopyOf
  <1> HIDE DEF rendered, shown, s
  <1>6. Truthful(s)
    BY <1>1, <1>3, <1>4, <1>5 DEF Renders, CopyOf, Truthful, Plausible, Reported
  <1>7. /\ results' \in Seq(Snapshot) /\ Len(results') = n
        /\ \A j \in 1..n \ {i} : results'[j] = results[j]
        /\ results'[i] \in {s, results[i]}
    BY <1>1, <1>2, <1>4, ExceptSeq DEF Renders
  <1>8. ResultsSound'
    <2>1. \A j \in 1..n : Truthful(results'[j]) /\ results'[j].ran = results[j].ran
      BY <1>1, <1>4, <1>6, <1>7 DEF AnalysisInv, ResultsSound, Renders
    <2>2. /\ renderings' \in [queued : SUBSET (1..n), done : SUBSET (1..n)]
          /\ renderings.queued \cup renderings.done \subseteq renderings'.queued \cup renderings'.done
      BY <1>1, <1>2 DEF AnalysisInv, ResultsSound
    <2> QED
      BY <1>7, <2>1, <2>2 DEF AnalysisInv, ResultsSound
  <1>9. SessionsSound'
    <2> SUFFICES ASSUME NEW u \in Translators
                 PROVE  /\ session'[u] \in [of : 0..n, copy : Snapshot]
                        /\ session'[u].of # 0 => CopyOf(session'[u].copy, results'[session'[u].of])
      BY <1>7 DEF SessionsSound
    <2>1. CASE u = t
      BY <1>1, <1>2, <2>1, EmptyIsSound DEF AnalysisInv, Free
    <2>2. CASE u # t
      <3>1. /\ session'[u] = session[u] /\ session[u] \in [of : 0..n, copy : Snapshot]
            /\ session[u].of # 0 => CopyOf(session[u].copy, results[session[u].of])
        BY <1>2, <2>2 DEF AnalysisInv, SessionsSound
      <3>2. CASE session[u].of = i
        <4>1. CopyOf(session[u].copy, results[i])
          BY <1>1, <3>1, <3>2
        <4>2. CopyOf(session[u].copy, s)
          BY <1>4, <4>1 DEF CopyOf, Renders
        <4> QED
          BY <1>7, <3>1, <3>2, <4>1, <4>2
      <3>3. CASE session[u].of # i
        <4>1. session[u].of \in 0..n
          BY <3>1
        <4>2. session[u].of # 0 => results'[session[u].of] = results[session[u].of]
          BY <1>7, <3>3, <4>1
        <4> QED
          BY <3>1, <4>2
      <3> QED
        BY <3>2, <3>3
    <2> QED
      BY <2>1, <2>2
  <1> QED
    BY <1>8, <1>9

LEMMA AnalysisStep ==
  ASSUME AnalysisInv, [AnalysisNext]_analysisVars
  PROVE  AnalysisInv'
  <1>1. CASE \/ \E route \in {"job", "request"}, data \in SUBSET Kinds, wanted \in BOOLEAN :
                   BeginAnalysis(route, data, wanted)
             \/ SkipAgent \/ Persist
             \/ \E outcome \in {"ran", "failed"} : RunAgent(outcome) \/ Recommend(outcome)
    <2>1. UNCHANGED <<results, renderings, session>>
      BY <1>1 DEF BeginAnalysis, SkipAgent, Persist, RunAgent, Recommend
    <2> QED
      BY <1>1, <2>1, RunStep, StoredStands DEF AnalysisInv
  <1>2. CASE Complete \/ EndEmptyJob
    <2>1. /\ run' = NoRun /\ run.phase = "ending" /\ StoreResult /\ UNCHANGED session
          /\ \/ AskRendering
             \/ run.so.ran = {} /\ UNCHANGED renderings
      BY <1>2 DEF Complete, EndEmptyJob
    <2> QED
      BY <2>1, NoRunSound, StoreStep DEF AnalysisInv
  <1>3. CASE EndEmptyRequest \/ CrashRun
    BY <1>3, NoRunSound, StoredStands DEF EndEmptyRequest, CrashRun, AnalysisInv
  <1>4. ASSUME NEW t \in Translators, CrashRendering(t) PROVE AnalysisInv'
    BY <1>4, FreeStep DEF CrashRendering, AnalysisInv, RunSound, ResultsSound, RanAnalyzers
  <1>5. ASSUME NEW t \in Translators, NEW i \in 1..MaxRuns, LoadStored(t, i) PROVE AnalysisInv'
    BY <1>5, LoadStep DEF LoadStored, AnalysisInv, RunSound, ResultsSound, RanAnalyzers
  <1>6. ASSUME NEW t \in Translators, NEW agents \in SUBSET Agents, NEW rec \in BOOLEAN,
               SaveRendered(t, agents, rec)
        PROVE  AnalysisInv'
    BY <1>6, SaveStep DEF SaveRendered, AnalysisInv, RunSound, RanAnalyzers
  <1>7. CASE UNCHANGED analysisVars
    BY <1>7, StoredStands DEF analysisVars, AnalysisInv, RunSound, RanAnalyzers
  <1> QED
    BY <1>1, <1>2, <1>3, <1>4, <1>5, <1>6, <1>7 DEF AnalysisNext

(* Whatever is skipped, fails, crashes or is rendered twice at once, a     *)
(* stored analysis shows what happened and what is stored.                 *)
THEOREM ResultsAreTruthful == AnalysisSpec => []SnapshotTruthful
  <1>1. AnalysisInv => SnapshotTruthful
    BY DEF AnalysisInv, ResultsSound, Truthful, Plausible, Reported, SnapshotTruthful
  <1>2. AnalysisInit => AnalysisInv
    BY AnalysisInitially
  <1>3. AnalysisInv /\ [AnalysisNext]_analysisVars => AnalysisInv'
    BY AnalysisStep
  <1> QED
    BY <1>1, <1>2, <1>3, PTL DEF AnalysisSpec

-----------------------------------------------------------------------------
(* Recommendation: the arithmetic of a confidence *)

IsEvidence(e) == DOMAIN e \subseteq Sources /\ e \in [DOMAIN e -> Signals]

LEMMA UsableIsFinite ==
  ASSUME NEW e, IsEvidence(e)
  PROVE  /\ Usable(e) \subseteq DOMAIN e /\ IsFiniteSet(Usable(e))
         /\ Cardinality(Usable(e)) \in Nat
         /\ \A s \in Usable(e) : e[s].direction \in {-1, 0, 1}
  <1>1. Usable(e) \subseteq {"technical_analyzer", "fundamental_analyzer", "news_analyzer"}
    BY DEF IsEvidence, Usable, Sources
  <1>2. IsFiniteSet({"technical_analyzer"} \cup {"fundamental_analyzer"} \cup {"news_analyzer"})
    BY FS_Singleton, FS_Union
  <1>3. IsFiniteSet(Usable(e))
    BY <1>1, <1>2, FS_Subset
  <1> QED
    BY <1>3, FS_CardinalityType DEF IsEvidence, Usable, Signals

(* Fewer than two of them is none, or one.                                 *)
LEMMA FewUsable ==
  ASSUME NEW e, IsEvidence(e), ~(Cardinality(Usable(e)) >= 2)
  PROVE  Usable(e) = {} \/ \E s : Usable(e) = {s}
  <1>1. Cardinality(Usable(e)) = 0 \/ Cardinality(Usable(e)) = 1
    BY UsableIsFinite
  <1> QED
    BY <1>1, UsableIsFinite, FS_EmptySet, FS_Singleton

LEMMA MaxOfThree ==
  ASSUME NEW a \in Nat, NEW b \in Nat, NEW c \in Nat
  PROVE  Max({a, b, c}) \in Nat
  <1>1. \E x \in {a, b, c} : \A y \in {a, b, c} : x >= y
    OBVIOUS
  <1>2. Max({a, b, c}) \in {a, b, c}
    BY <1>1 DEF Max
  <1> QED
    BY <1>2

LEMMA AgreementIsFraction ==
  ASSUME NEW e, IsEvidence(e)
  PROVE  Agreement(e) \in Nat \X (Nat \ {0})
  <1> DEFINE C(d) == Cardinality({s \in Usable(e) : e[s].direction = d})
  <1>1. \A d : C(d) \in Nat
    <2> TAKE d
    <2>1. IsFiniteSet({s \in Usable(e) : e[s].direction = d})
      BY UsableIsFinite, FS_Subset
    <2> QED
      BY <2>1, FS_CardinalityType
  <1>2. {C(d) : d \in {-1, 0, 1}} = {C(-1), C(0), C(1)}
    OBVIOUS
  <1>3. Max({C(d) : d \in {-1, 0, 1}}) \in Nat
    <2>1. C(-1) \in Nat /\ C(0) \in Nat /\ C(1) \in Nat
      BY <1>1
    <2> HIDE DEF C
    <2>2. Max({C(-1), C(0), C(1)}) \in Nat
      BY <2>1, MaxOfThree
    <2> QED
      BY <1>2, <2>2
  <1>4. Usable(e) # {} => Cardinality(Usable(e)) \in Nat \ {0}
    BY UsableIsFinite, FS_EmptySet
  <1> HIDE DEF C
  <1>5. Agreement(e) = IF Usable(e) = {} THEN <<0, 1>>
                       ELSE IF Cardinality(Usable(e)) = 1 THEN <<1, 2>>
                       ELSE <<Max({C(d) : d \in {-1, 0, 1}}), Cardinality(Usable(e))>>
    BY DEF Agreement, C
  <1> QED
    BY <1>3, <1>4, <1>5

LEMMA BalanceIsFraction ==
  ASSUME NEW m \in Nat, NEW n \in Nat
  PROVE  /\ Balance(m, n) \in Nat \X (Nat \ {0})
         /\ Balance(m, n)[1] <= Balance(m, n)[2]
         /\ n = 0 => Balance(m, n) = <<0, 1>>
  <1>1. CASE n = 0
    BY <1>1 DEF Balance
  <1>2. CASE n # 0
    <2> DEFINE more == Max({m, n})
               less == Min({m, n})
    <2>1. more \in {m, n} /\ more >= m /\ more >= n
      <3>1. \E x \in {m, n} : \A y \in {m, n} : x >= y
        OBVIOUS
      <3> QED
        BY <3>1 DEF Max
    <2>2. less \in {m, n}
      <3>1. \E x \in {m, n} : \A y \in {m, n} : x <= y
        OBVIOUS
      <3> QED
        BY <3>1 DEF Min
    <2>3. Balance(m, n) = <<more + less, 2 * more>>
      BY <1>2 DEF Balance
    <2> HIDE DEF more, less
    <2>4. more + less \in Nat /\ 2 * more \in Nat \ {0} /\ more + less <= 2 * more
      BY <1>2, <2>1, <2>2
    <2> QED
      BY <1>2, <2>3, <2>4
  <1> QED
    BY <1>1, <1>2

(* One source is worth 90 two-hundredths at most.                          *)
LEMMA CoverageBounds ==
  ASSUME NEW e, IsEvidence(e)
  PROVE  /\ Coverage(e) \in Nat
         /\ ~(Cardinality(Usable(e)) >= 2) => Coverage(e) <= 90
         /\ Usable(e) = {} => Coverage(e) = 0
  <1> DEFINE T == Credited(e, "technical_analyzer")
             F == Credited(e, "fundamental_analyzer")
             N == Credited(e, "news_analyzer")
  <1>1. /\ T \in {0, 45, 90} /\ F \in {0, 35, 70} /\ N \in {0, 20, 40}
        /\ T # 0 => "technical_analyzer" \in Usable(e)
        /\ F # 0 => "fundamental_analyzer" \in Usable(e)
        /\ N # 0 => "news_analyzer" \in Usable(e)
    BY DEF IsEvidence, Credited, Weight, Credit, Usable, Signals, Sufficiencies
  <1>2. Coverage(e) = T + F + N
    BY DEF Coverage
  <1> HIDE DEF T, F, N
  <1>3. ASSUME ~(Cardinality(Usable(e)) >= 2) PROVE Coverage(e) <= 90
    <2>1. \A a, b \in Usable(e) : a = b
      BY <1>3, FewUsable
    <2>2. (T = 0 \/ F = 0) /\ (T = 0 \/ N = 0) /\ (F = 0 \/ N = 0)
      BY <1>1, <2>1
    <2> QED
      BY <1>1, <1>2, <2>2
  <1> QED
    BY <1>1, <1>2, <1>3

LEMMA QuotientBelow ==
  ASSUME NEW x \in Nat, NEW y \in Nat \ {0}
  PROVE  /\ x \div y \in Nat
         /\ x < 700 * y => x \div y < 700
  OBVIOUS

LEMMA ProductsMonotone ==
  ASSUME NEW a \in Nat, NEW b \in Nat, NEW u \in Nat, a <= b
  PROVE  a * u \in Nat /\ a * u <= b * u
  OBVIOUS

(* With fewer than two usable sources the confidence stays below that of a *)
(* strong label: 90 of coverage, half of agreement, all of balance are 58. *)
LEMMA ConfidenceBounds ==
  ASSUME NEW e, IsEvidence(e), NEW m \in Nat, NEW n \in Nat
  PROVE  /\ Confidence(e, m, n) \in Nat
         /\ ~(Cardinality(Usable(e)) >= 2) => Confidence(e, m, n) < StrongLabelMinConfidence
  <1> DEFINE c == Coverage(e)
             a1 == Agreement(e)[1]
             a2 == Agreement(e)[2]
             b1 == Balance(m, n)[1]
             b2 == Balance(m, n)[2]
             unit == a2 * b2
             tenths == 2 * c * unit + 400 * a1 * b2 + 200 * b1 * a2
             rounded == (2 * tenths + unit) \div (2 * unit)
  <1>1. /\ c \in Nat /\ a1 \in Nat /\ a2 \in Nat \ {0} /\ b1 \in Nat /\ b2 \in Nat \ {0}
        /\ b1 <= b2
    BY CoverageBounds, AgreementIsFraction, BalanceIsFraction
  <1>2. Confidence(e, m, n) = IF rounded > 950 THEN 950 ELSE rounded
    BY DEF Confidence
  <1>3. Cardinality(Usable(e)) < 2 => c <= 90 /\ 2 * a1 <= a2
    <2> SUFFICES ASSUME Cardinality(Usable(e)) < 2 PROVE c <= 90 /\ 2 * a1 <= a2
      OBVIOUS
    <2>1. Usable(e) = {} \/ Cardinality(Usable(e)) = 1
      BY UsableIsFinite, FS_EmptySet
    <2>2. Agreement(e) = <<0, 1>> \/ Agreement(e) = <<1, 2>>
      BY <2>1 DEF Agreement
    <2> QED
      BY <2>2, UsableIsFinite, CoverageBounds
  <1> HIDE DEF c, a1, a2, b1, b2
  <1>4. unit \in Nat \ {0} /\ tenths \in Nat
    BY <1>1
  <1>5. ASSUME c <= 90, 2 * a1 <= a2 PROVE tenths <= 580 * unit
    <2>1. c * unit <= 90 * unit
      BY <1>1, <1>4, <1>5, ProductsMonotone
    <2>2. (2 * a1) * b2 <= a2 * b2
      BY <1>1, <1>5, ProductsMonotone
    <2>3. b1 * a2 <= b2 * a2
      BY <1>1, ProductsMonotone
    <2> QED
      BY <1>1, <1>4, <2>1, <2>2, <2>3
  <1> HIDE DEF unit, tenths
  <1>6. rounded \in Nat
    BY <1>4, QuotientBelow
  <1>7. ASSUME tenths <= 580 * unit PROVE rounded < 700
    <2>1. 2 * tenths + unit < 700 * (2 * unit)
      BY <1>4, <1>7
    <2> QED
      BY <1>4, <2>1, QuotientBelow
  <1> QED
    BY <1>2, <1>3, <1>5, <1>6, <1>7, UsableIsFinite DEF StrongLabelMinConfidence

-----------------------------------------------------------------------------
(* Recommendation: what is stored *)

(* A stored recommendation is an answer that broke no rule.                *)
StoredAs(a) ==
    /\ Violations(evidence, a) = {}
    /\ recommendation =
          [label |-> a.label, target |-> Target(a.label), stop |-> SuggestedStop(a.label),
           supporting |-> a.supporting, conflicting |-> a.conflicting,
           confidence |-> Confidence(evidence, a.supporting, a.conflicting)]

AdviceInv ==
    /\ evidence \in Evidence
    /\ recommendation # NoRecommendation => \E a \in Answers : StoredAs(a)

LEMMA AdviceStep ==
  ASSUME AdviceInv, [RecommendationNext]_recommendationVars
  PROVE  AdviceInv'
  <1>1. ASSUME NEW a \in Answers, Generate(a) PROVE AdviceInv'
    BY <1>1 DEF AdviceInv, Generate, StoredAs
  <1>2. ASSUME NEW q \in Quotes, ObserveQuote(q) PROVE AdviceInv'
    BY <1>2 DEF AdviceInv, ObserveQuote, StoredAs
  <1>3. CASE UNCHANGED recommendationVars
    BY <1>3 DEF AdviceInv, recommendationVars, StoredAs
  <1> QED
    BY <1>1, <1>2, <1>3 DEF RecommendationNext

LEMMA AdviceInvariant == RecommendationSpec => []AdviceInv
  <1>1. RecommendationInit => AdviceInv
    BY DEF RecommendationInit, AdviceInv
  <1>2. AdviceInv /\ [RecommendationNext]_recommendationVars => AdviceInv'
    BY AdviceStep
  <1> QED
    BY <1>1, <1>2, PTL DEF RecommendationSpec

LEMMA AnswerIsTyped ==
  ASSUME NEW a \in Answers
  PROVE  a.label \in Labels /\ a.supporting \in Nat /\ a.conflicting \in Nat
  BY EvidenceAssumption DEF Answers

LEMMA DirectionIsSign ==
  ASSUME NEW l \in Labels
  PROVE  /\ Direction(l) \in {-1, 0, 1}
         /\ IsStrong(l) => Direction(l) \in {-1, 1}
  BY DEF Labels, Direction, IsStrong

(* Evidence that is all of one direction points there.                     *)
LEMMA UnanimousPoints ==
  ASSUME NEW e, Usable(e) # {}, NEW d, \A s \in Usable(e) : e[s].direction = d
  PROVE  EvidenceDirection(e) = d
  <1>1. {e[s].direction : s \in Usable(e)} = {d}
    OBVIOUS
  <1>2. Cardinality({d}) = 1
    BY FS_Singleton
  <1> QED
    BY <1>1, <1>2 DEF EvidenceDirection

LEMMA RulesOnStrong ==
  ASSUME NEW e, NEW a, Violations(e, a) = {}
  PROVE  /\ Direction(a.label) * EvidenceDirection(e) # -1
         /\ IsStrong(a.label) =>
               ~(Confidence(e, a.supporting, a.conflicting) < StrongLabelMinConfidence)
         /\ a.supporting # 0 /\ a.conflicting # 0
  BY DEF Violations

LEMMA StrongIsWitnessed ==
  ASSUME NEW e, IsEvidence(e), NEW a \in Answers, Violations(e, a) = {}, IsStrong(a.label)
  PROVE  /\ Cardinality(Usable(e)) >= 2
         /\ \E s \in Usable(e) : e[s].direction # -Direction(a.label)
  <1>1. Cardinality(Usable(e)) >= 2
    BY RulesOnStrong, AnswerIsTyped, ConfidenceBounds
  <1>2. Usable(e) # {}
    BY <1>1, FS_EmptySet
  <1>3. Direction(a.label) \in {-1, 1}
    BY AnswerIsTyped, DirectionIsSign
  <1>4. ASSUME \A s \in Usable(e) : e[s].direction = -Direction(a.label) PROVE FALSE
    <2>1. EvidenceDirection(e) = -Direction(a.label)
      BY <1>2, <1>4, UnanimousPoints
    <2>2. Direction(a.label) * EvidenceDirection(e) = -1
      BY <1>3, <2>1
    <2> QED
      BY <2>2, RulesOnStrong
  <1> QED
    BY <1>1, <1>4

(* Prices lie on the sides of the close that the label's direction says.   *)
LEMMA LevelsOnTheirSides ==
  ASSUME NEW l \in Labels
  PROVE  LET d == Direction(l) IN
         /\ d = 0 => Target(l) = 0 /\ SuggestedStop(l) = 0
         /\ d # 0 /\ Target(l) > 0 => (Target(l) - LastClose) * d > 0
         /\ d # 0 /\ SuggestedStop(l) > 0 => (LastClose - SuggestedStop(l)) * d > 0
         /\ InvalidatedAt(l) > 0 => InvalidatedAt(l) < LastClose
  <1>1. Direction(l) \in {-1, 0, 1}
    BY DirectionIsSign
  <1>2. CASE Direction(l) = 0
    BY <1>2, LevelsAssumption DEF Target, SuggestedStop, InvalidatedAt
  <1>3. CASE Direction(l) = 1
    BY <1>3, LevelsAssumption DEF Target, SuggestedStop, InvalidatedAt
  <1>4. CASE Direction(l) = -1
    BY <1>4, LevelsAssumption DEF Target, SuggestedStop, InvalidatedAt
  <1> QED
    BY <1>1, <1>2, <1>3, <1>4

(* No evidence, answer or retry puts a strong label on thin, one-sided or  *)
(* contrary evidence, or a price on the wrong side of the close.           *)
THEOREM StrongLabelsAreWitnessed == RecommendationSpec => []StrongNeedsWitnesses
  <1>1. AdviceInv => StrongNeedsWitnesses
    <2> SUFFICES ASSUME AdviceInv, recommendation # NoRecommendation
                 PROVE  StrongNeedsWitnesses
      BY DEF StrongNeedsWitnesses
    <2>1. PICK a \in Answers : StoredAs(a)
      BY DEF AdviceInv
    <2>2. IsEvidence(evidence)
      BY EvidenceAssumption DEF AdviceInv, IsEvidence
    <2>3. /\ recommendation.label = a.label /\ recommendation.target = Target(a.label)
          /\ recommendation.stop = SuggestedStop(a.label)
          /\ recommendation.supporting = a.supporting /\ recommendation.conflicting = a.conflicting
      BY <2>1 DEF StoredAs
    <2>4. IsStrong(a.label) =>
             /\ Cardinality(Usable(evidence)) >= 2
             /\ \E s \in Usable(evidence) : evidence[s].direction # -Direction(a.label)
      BY <2>1, <2>2, StrongIsWitnessed DEF StoredAs
    <2>5. a.supporting > 0 /\ a.conflicting > 0
      BY <2>1, RulesOnStrong, AnswerIsTyped DEF StoredAs
    <2> QED
      BY <2>3, <2>4, <2>5, AnswerIsTyped, LevelsOnTheirSides DEF StrongNeedsWitnesses
  <1> QED
    BY <1>1, AdviceInvariant, PTL

(* What a label says to who holds the asset never contradicts what it says *)
(* to who does not, and the holder is not told of a price already passed.  *)
THEOREM ReadingsAgree == RecommendationSpec => []SidesAgree
  <1>1. AdviceInv => SidesAgree
    <2> SUFFICES ASSUME AdviceInv, recommendation # NoRecommendation
                 PROVE  SidesAgree
      BY DEF SidesAgree
    <2>1. PICK a \in Answers : StoredAs(a)
      BY DEF AdviceInv
    <2> DEFINE l == a.label
               c == Confidence(evidence, a.supporting, a.conflicting)
    <2>2. recommendation.label = l /\ recommendation.confidence = c
      BY <2>1 DEF StoredAs
    <2>3. l \in Labels /\ c \in Nat
      BY AnswerIsTyped, ConfidenceBounds, EvidenceAssumption DEF AdviceInv, IsEvidence
    <2>4. IsStrong(l) => c >= 700
      BY <2>1, <2>3, RulesOnStrong DEF StoredAs, StrongLabelMinConfidence
    <2> HIDE DEF c
    <2>5. Holding(l) = "accumulate_candidate" => NotHolding(l, c) = "entry_candidate"
      BY <2>3, <2>4 DEF Labels, Holding, NotHolding, IsStrong, Direction, EntryConfidenceFloor
    <2>6. Holding(l) \in {"trim_candidate", "exit_candidate"} <=> NotHolding(l, c) = "avoid"
      BY <2>3 DEF Labels, Holding, NotHolding, Direction
    <2> QED
      BY <2>2, <2>3, <2>5, <2>6, LevelsOnTheirSides DEF SidesAgree
  <1> QED
    BY <1>1, AdviceInvariant, PTL

-----------------------------------------------------------------------------
(* MonitoringPass: what is new for whom is a finite set *)

Elements(q) == {q[i] : i \in 1..Len(q)}

LEMMA KeysFinite ==
  ASSUME NEW U, IsFiniteSet(U), NEW a, NEW W, IsFiniteSet(W)
  PROVE  IsFiniteSet([user : U, asset : {a}, what : W])
  <1> DEFINE K == [user : U, asset : {a}, what : W]
             f == [x \in U \X W |-> [user |-> x[1], asset |-> a, what |-> x[2]]]
  <1>1. IsFiniteSet(U \X W)
    BY FS_Product
  <1>2. f \in [U \X W -> K]
    OBVIOUS
  <1>3. ASSUME NEW k \in K PROVE \E x \in U \X W : f[x] = k
    <2>1. <<k.user, k.what>> \in U \X W /\ k = [user |-> k.user, asset |-> a, what |-> k.what]
      OBVIOUS
    <2> QED
      BY <2>1
  <1>4. f \in Surjection(U \X W, K)
    BY <1>2, <1>3 DEF Surjection
  <1> QED
    BY <1>1, <1>4, FS_Surjection

LEMMA CandidatesFinite ==
  ASSUME NEW a \in Watched, NEW prev, NEW price
  PROVE  /\ Candidates(a, prev, price) \subseteq Keys
         /\ IsFiniteSet(Candidates(a, prev, price))
  <1> DEFINE falls == IF Trailing(price) = {} THEN {} ELSE Holders[a]
  <1>1. /\ Followers[a] \cup falls \subseteq Investors /\ falls \subseteq Investors
        /\ IsFiniteSet(Followers[a] \cup falls) /\ IsFiniteSet(falls)
    BY MonitoringAssumption, FS_Subset
  <1>2. IsFiniteSet(Crossing(prev, price)) /\ Crossing(prev, price) \subseteq {"cross-up", "cross-down"}
    BY FS_EmptySet, FS_Singleton DEF Crossing
  <1>3. IsFiniteSet(Trailing(price)) /\ Trailing(price) \subseteq {"trailing"}
    BY FS_EmptySet, FS_Singleton DEF Trailing
  <1>4. Candidates(a, prev, price) =
            [user : Followers[a] \cup falls, asset : {a}, what : Crossing(prev, price)]
              \cup [user : falls, asset : {a}, what : Trailing(price)]
    BY DEF Candidates
  <1> HIDE DEF falls
  <1>5. /\ IsFiniteSet([user : Followers[a] \cup falls, asset : {a}, what : Crossing(prev, price)])
        /\ IsFiniteSet([user : falls, asset : {a}, what : Trailing(price)])
    BY <1>1, <1>2, <1>3, KeysFinite
  <1>6. Candidates(a, prev, price) \subseteq Keys
    <2>1. \A U \in SUBSET Investors, W \in SUBSET {"cross-up", "cross-down", "trailing"} :
             [user : U, asset : {a}, what : W] \subseteq Keys
      BY DEF Keys
    <2>2. /\ [user : Followers[a] \cup falls, asset : {a}, what : Crossing(prev, price)] \subseteq Keys
          /\ [user : falls, asset : {a}, what : Trailing(price)] \subseteq Keys
      BY <1>1, <1>2, <1>3, <2>1, Zenon
    <2> QED
      BY <1>4, <2>2
  <1> DEFINE A == [user : Followers[a] \cup falls, asset : {a}, what : Crossing(prev, price)]
             B == [user : falls, asset : {a}, what : Trailing(price)]
  <1>7. /\ Candidates(a, prev, price) = A \cup B
        /\ IsFiniteSet(A) /\ IsFiniteSet(B)
    BY <1>4, <1>5
  <1> HIDE DEF A, B
  <1>8. IsFiniteSet(Candidates(a, prev, price))
    BY <1>7, FS_Union
  <1> QED
    BY <1>6, <1>8

(* SetToSeq loses nothing.                                                 *)
LEMMA SetToSeqCovers ==
  ASSUME NEW S, IsFiniteSet(S)
  PROVE  SetToSeq(S) \in Seq(S) /\ S \subseteq Elements(SetToSeq(S))
  <1> DEFINE n == Cardinality(S)
             q == SetToSeq(S)
  <1>1. n \in Nat /\ ExistsBijection(1..n, S)
    BY FS_CardinalityType
  <1>2. \E f \in [1..n -> S] : IsInjective(f)
    BY <1>1 DEF ExistsBijection, Bijection, Injection, IsInjective
  <1>3. q \in [1..n -> S] /\ IsInjective(q)
    BY <1>2 DEF SetToSeq
  <1> HIDE DEF q
  <1>4. q \in Seq(S) /\ Len(q) = n
    BY <1>1, <1>3
  <1>5. ASSUME NEW y \in S, y \notin Elements(q) PROVE FALSE
    <2>1. q \in [1..n -> S \ {y}]
      BY <1>3, <1>4, <1>5 DEF Elements
    <2>2. IsFiniteSet(S \ {y}) /\ Cardinality(S \ {y}) = n - 1
      BY <1>5, FS_RemoveElement
    <2>3. IsFiniteSet(1..n) /\ Cardinality(1..n) = n
      BY <1>1, FS_Interval
    <2>4. \E i, j \in 1..n : i # j /\ q[i] = q[j]
      BY <1>1, <2>1, <2>2, <2>3, FS_PigeonHole
    <2> QED
      BY <1>3, <2>4 DEF IsInjective
  <1> QED
    BY <1>4, <1>5 DEF q

-----------------------------------------------------------------------------
(* MonitoringPass: nothing owed is ever out of sight of a pass *)

Books == UNION {[S -> [price : {0, 1}, at : Nat]] : S \in SUBSET Watched}

PassRows ==
    [phase : {"idle", "polling", "recording", "inserting"}, todo : SUBSET Watched,
     due : Seq(Keys), quotes : Books, owes : SUBSET Keys, alerts : SUBSET Keys,
     raised : SUBSET Keys]

MonitoringTyped ==
    pass \in [Passes -> PassRows] /\ observations \in Nat

(* What a pass's quotes gave rise to is stored, or in its transaction, or  *)
(* about to be: a pass that polls has nothing left to record.              *)
PassCovers(row, stored) ==
    /\ row.owes \subseteq stored \cup row.alerts \cup Elements(row.due)
    /\ row.phase \in {"idle", "polling"} => row.due = <<>>
    /\ row.phase = "inserting" => row.due # <<>>

MonitoringInv ==
    /\ MonitoringTyped
    /\ owed \subseteq alerts
    /\ \A p \in Passes : PassCovers(pass[p], alerts)

LEMMA ElementsOfEmpty == Elements(<<>>) = {}
  BY DEF Elements

LEMMA IdleCovers == Idle \in PassRows /\ \A stored : PassCovers(Idle, stored)
  <1>1. <<>> \in Seq(Keys)
    BY EmptySeq
  <1>2. [a \in {} |-> None] \in Books
    <2>1. [a \in {} |-> None] \in [{} -> [price : {0, 1}, at : Nat]] /\ {} \in SUBSET Watched
      OBVIOUS
    <2> QED
      BY <2>1, Zenon DEF Books
  <1> QED
    BY <1>1, <1>2 DEF Idle, PassRows, PassCovers

LEMMA HeadAndRest ==
  ASSUME NEW q \in Seq(Keys), q # <<>>
  PROVE  /\ Head(q) \in Keys /\ Tail(q) \in Seq(Keys)
         /\ Elements(q) = {Head(q)} \cup Elements(Tail(q))
  <1>1. /\ Head(q) \in Keys /\ Tail(q) \in Seq(Keys) /\ Len(Tail(q)) = Len(q) - 1
        /\ \A i \in 1..Len(Tail(q)) : Tail(q)[i] = q[i + 1]
    BY HeadTailProperties
  <1>2. Len(q) \in Nat \ {0} /\ Head(q) = q[1]
    BY EmptySeq
  <1>3. Elements(q) \subseteq {Head(q)} \cup Elements(Tail(q))
    <2> SUFFICES ASSUME NEW i \in 1..Len(q), i # 1 PROVE q[i] \in Elements(Tail(q))
      BY <1>2 DEF Elements
    <2>1. i - 1 \in 1..Len(Tail(q)) /\ Tail(q)[i - 1] = q[i]
      BY <1>1, <1>2
    <2> QED
      BY <2>1 DEF Elements
  <1>4. {Head(q)} \cup Elements(Tail(q)) \subseteq Elements(q)
    <2> SUFFICES ASSUME NEW i \in 1..Len(Tail(q)) PROVE Tail(q)[i] \in Elements(q)
      BY <1>2 DEF Elements
    <2>1. i + 1 \in 1..Len(q) /\ Tail(q)[i] = q[i + 1]
      BY <1>1, <1>2
    <2> QED
      BY <2>1 DEF Elements
  <1> QED
    BY <1>1, <1>3, <1>4

(* A step of one pass that commits nothing.                                *)
LEMMA OnePassStep ==
  ASSUME MonitoringInv, NEW p \in Passes, NEW row \in PassRows, PassCovers(row, alerts),
         pass' = [pass EXCEPT ![p] = row], observations' \in Nat, UNCHANGED <<alerts, owed>>
  PROVE  MonitoringInv'
  BY DEF MonitoringInv, MonitoringTyped

LEMMA RecordingStep ==
  ASSUME MonitoringInv, NEW p \in Passes,
         \/ Known(p) \/ Unknown(p) \/ StoreAlert(p) \/ LoseKey(p) \/ NextAsset(p)
  PROVE  MonitoringInv'
  <1> DEFINE row == pass[p]
             key == Head(row.due)
             rest == Tail(row.due)
  <1>1. /\ row \in PassRows /\ PassCovers(row, alerts) /\ row.due \in Seq(Keys)
        /\ observations \in Nat
    BY DEF MonitoringInv, MonitoringTyped, PassRows
  <1>2. row.due # <<>> => /\ key \in Keys /\ rest \in Seq(Keys)
                          /\ Elements(row.due) = {key} \cup Elements(rest)
    BY <1>1, HeadAndRest
  <1>3. UNCHANGED <<alerts, owed, observations>>
    BY DEF Known, Unknown, StoreAlert, LoseKey, NextAsset
  <1>4. CASE Known(p)
    <2> DEFINE new == [row EXCEPT !.due = rest]
    <2>1. pass' = [pass EXCEPT ![p] = new] /\ row.phase = "recording" /\ row.due # <<>>
          /\ key \in alerts \cup row.alerts
      BY <1>1, <1>4 DEF Known, MonitoringInv, MonitoringTyped
    <2>2. new \in PassRows
      BY <1>1, <1>2, <2>1 DEF PassRows
    <2>3. PassCovers(new, alerts)
      BY <1>1, <1>2, <2>1 DEF PassRows, PassCovers
    <2> QED
      BY <1>1, <1>3, <2>1, <2>2, <2>3, OnePassStep
  <1>5. CASE Unknown(p)
    <2> DEFINE new == [row EXCEPT !.phase = "inserting"]
    <2>1. pass' = [pass EXCEPT ![p] = new] /\ row.phase = "recording" /\ row.due # <<>>
      BY <1>1, <1>5 DEF Unknown, MonitoringInv, MonitoringTyped
    <2>2. new \in PassRows /\ PassCovers(new, alerts)
      BY <1>1, <2>1 DEF PassRows, PassCovers
    <2> QED
      BY <1>1, <1>3, <2>1, <2>2, OnePassStep
  <1>6. CASE StoreAlert(p)
    <2> DEFINE new == [row EXCEPT !.phase = "recording", !.due = rest,
                                  !.alerts = @ \cup {key}, !.raised = @ \cup {key}]
    <2>1. row.phase = "inserting" /\ row.due # <<>>
      BY <1>1, <1>6 DEF StoreAlert, PassCovers
    <2>5. pass' = [pass EXCEPT ![p] = new]
      BY <1>6, Zenon DEF StoreAlert
    <2>2. new \in PassRows
      BY <1>1, <1>2, <2>1 DEF PassRows
    <2>3. PassCovers(new, alerts)
      BY <1>1, <1>2, <2>1 DEF PassRows, PassCovers
    <2> QED
      BY <1>1, <1>3, <2>2, <2>3, <2>5, OnePassStep
  <1>7. CASE LoseKey(p)
    <2> DEFINE new == [row EXCEPT !.phase = "recording", !.due = rest,
                                  !.quotes = Idle.quotes, !.owes = {}, !.alerts = {}]
    <2>1. row.phase = "inserting" /\ row.due # <<>>
      BY <1>1, <1>7 DEF LoseKey, PassCovers
    <2>5. pass' = [pass EXCEPT ![p] = new]
      BY <1>7, Zenon DEF LoseKey
    <2>2. Idle.quotes \in Books
      BY IdleCovers DEF PassRows
    <2>3. new \in PassRows
      BY <1>1, <1>2, <2>1, <2>2 DEF PassRows
    <2>4. PassCovers(new, alerts)
      BY <1>1, <1>2, <2>1 DEF PassRows, PassCovers
    <2> QED
      BY <1>1, <1>3, <2>3, <2>4, <2>5, OnePassStep
  <1>8. CASE NextAsset(p)
    <2> DEFINE new == [row EXCEPT !.phase = "polling"]
    <2>1. pass' = [pass EXCEPT ![p] = new] /\ row.phase = "recording" /\ row.due = <<>>
      BY <1>1, <1>8 DEF NextAsset, MonitoringInv, MonitoringTyped
    <2>2. new \in PassRows /\ PassCovers(new, alerts)
      BY <1>1, <2>1 DEF PassRows, PassCovers
    <2> QED
      BY <1>1, <1>3, <2>1, <2>2, OnePassStep
  <1> QED
    BY <1>4, <1>5, <1>6, <1>7, <1>8

LEMMA StartOrEnd ==
  ASSUME MonitoringInv, NEW p \in Passes,
         StartPass(p) \/ Abort(p) \/ (\E a \in Watched : SkipAsset(p, a))
  PROVE  MonitoringInv'
  <1>1. /\ pass[p] \in PassRows /\ PassCovers(pass[p], alerts) /\ observations \in Nat
        /\ UNCHANGED <<alerts, owed, observations>>
    BY DEF MonitoringInv, MonitoringTyped, StartPass, Abort, SkipAsset
  <1>2. CASE StartPass(p)
    <2> DEFINE new == [Idle EXCEPT !.phase = "polling", !.todo = Watched]
    <2>1. Idle \in PassRows /\ Idle.owes = {} /\ Idle.due = <<>>
      BY IdleCovers DEF Idle
    <2>2. new \in PassRows
      BY <2>1 DEF PassRows
    <2>3. PassCovers(new, alerts)
      BY <2>1, <2>2 DEF PassRows, PassCovers
    <2> QED
      BY <1>1, <1>2, <2>2, <2>3, OnePassStep DEF StartPass
  <1>3. CASE Abort(p)
    BY <1>1, <1>3, IdleCovers, OnePassStep DEF Abort
  <1>4. ASSUME NEW a \in Watched, SkipAsset(p, a) PROVE MonitoringInv'
    <2> DEFINE new == [pass[p] EXCEPT !.todo = @ \ {a}]
    <2>1. pass' = [pass EXCEPT ![p] = new]
      BY <1>1, <1>4 DEF SkipAsset, MonitoringInv, MonitoringTyped
    <2>2. new \in PassRows /\ PassCovers(new, alerts)
      BY <1>1 DEF PassRows, PassCovers
    <2> QED
      BY <1>1, <2>1, <2>2, OnePassStep
  <1> QED
    BY <1>2, <1>3, <1>4

LEMMA BookAdds ==
  ASSUME NEW b \in Books, NEW a \in Watched, NEW q \in [price : {0, 1}, at : Nat]
  PROVE  Noted(b, a, q) \in Books
  <1>1. PICK S \in SUBSET Watched : b \in [S -> [price : {0, 1}, at : Nat]]
    BY DEF Books
  <1>2. Noted(b, a, q) \in [S \cup {a} -> [price : {0, 1}, at : Nat]]
    BY <1>1 DEF Noted
  <1>3. S \cup {a} \in SUBSET Watched
    OBVIOUS
  <1> QED
    BY <1>2, <1>3 DEF Books

LEMMA ObserveStep ==
  ASSUME MonitoringInv, NEW p \in Passes, NEW a \in Watched, NEW price \in {0, 1},
         Observe(p, a, price)
  PROVE  MonitoringInv'
  <1> DEFINE row == pass[p]
             due == Candidates(a, Previous(p, a).price, price)
             book == Noted(row.quotes, a, [price |-> price, at |-> observations + 1])
             new == [row EXCEPT !.phase = "recording", !.todo = @ \ {a},
                                !.due = SetToSeq(due), !.owes = @ \cup due, !.quotes = book]
  <1>1. /\ row \in PassRows /\ PassCovers(row, alerts) /\ observations \in Nat
        /\ row.phase = "polling"
    BY DEF MonitoringInv, MonitoringTyped, Observe
  <1>2. due \subseteq Keys /\ IsFiniteSet(due)
    BY CandidatesFinite
  <1>3. pass' = [pass EXCEPT ![p] = new]
    BY Zenon DEF Observe
  <1>4. observations' \in Nat /\ UNCHANGED <<alerts, owed>>
    BY <1>1 DEF Observe
  <1>5. book \in Books
    BY <1>1, BookAdds DEF PassRows
  <1> HIDE DEF due, book
  <1>6. SetToSeq(due) \in Seq(Keys) /\ due \subseteq Elements(SetToSeq(due))
    BY <1>2, SetToSeqCovers, SeqMonotonic
  <1>7. new \in PassRows
    BY <1>1, <1>2, <1>5, <1>6 DEF PassRows
  <1>8. PassCovers(new, alerts)
    BY <1>1, <1>6, ElementsOfEmpty DEF PassRows, PassCovers
  <1> HIDE DEF new
  <1> QED
    BY <1>3, <1>4, <1>7, <1>8, OnePassStep

LEMMA FinishStep ==
  ASSUME MonitoringInv, NEW p \in Passes, Finish(p)
  PROVE  MonitoringInv'
  <1>1. /\ pass[p] \in PassRows /\ PassCovers(pass[p], alerts) /\ pass[p].phase = "polling"
        /\ alerts' = alerts \cup pass[p].alerts /\ owed' = owed \cup pass[p].owes
        /\ pass' = [pass EXCEPT ![p] = Idle] /\ UNCHANGED observations
    BY DEF MonitoringInv, MonitoringTyped, Finish
  <1>2. pass[p].owes \subseteq alerts'
    BY <1>1, ElementsOfEmpty DEF PassCovers
  <1>3. \A q \in Passes : PassCovers(pass'[q], alerts')
    <2> TAKE q \in Passes
    <2>1. CASE q = p
      BY <1>1, <2>1, IdleCovers DEF MonitoringInv, MonitoringTyped
    <2>2. CASE q # p
      BY <1>1, <2>2 DEF MonitoringInv, MonitoringTyped, PassCovers
    <2> QED
      BY <2>1, <2>2
  <1> QED
    BY <1>1, <1>2, <1>3, IdleCovers DEF MonitoringInv, MonitoringTyped

LEMMA MonitoringStep ==
  ASSUME MonitoringInv, [MonitoringNext]_monitoringVars
  PROVE  MonitoringInv'
  <1>1. ASSUME NEW p \in Passes,
               \/ StartPass(p) \/ Known(p) \/ Unknown(p) \/ StoreAlert(p) \/ LoseKey(p)
               \/ NextAsset(p) \/ Finish(p) \/ Abort(p)
        PROVE  MonitoringInv'
    BY <1>1, StartOrEnd, RecordingStep, FinishStep
  <1>2. ASSUME NEW p \in Passes, NEW a \in Watched, SkipAsset(p, a) PROVE MonitoringInv'
    BY <1>2, StartOrEnd
  <1>3. ASSUME NEW p \in Passes, NEW a \in Watched, NEW price \in {0, 1}, Observe(p, a, price)
        PROVE  MonitoringInv'
    BY <1>3, ObserveStep
  <1>4. CASE UNCHANGED monitoringVars
    BY <1>4 DEF monitoringVars, MonitoringInv, MonitoringTyped
  <1> QED
    BY <1>1, <1>2, <1>3, <1>4 DEF MonitoringNext

(* However many passes race for a key, lose their transaction or die: a    *)
(* price on record has its alerts on record.                               *)
THEOREM CrossingsAreAlerted == MonitoringSpec => []CrossingAlerted
  <1>1. MonitoringInv => CrossingAlerted
    BY DEF MonitoringInv, CrossingAlerted
  <1>2. MonitoringInit => MonitoringInv
    BY IdleCovers DEF MonitoringInit, MonitoringInv, MonitoringTyped
  <1>3. MonitoringInv /\ [MonitoringNext]_monitoringVars => MonitoringInv'
    BY MonitoringStep
  <1> QED
    BY <1>1, <1>2, <1>3, PTL DEF MonitoringSpec

-----------------------------------------------------------------------------
(* AlertRules: which rule a key is of *)

QuoteRules == {"cross-up", "near-resistance", "cross-down", "near-support", "stop", "limit",
               "unusual", "trailing-stop", "reward-risk"}
BarRules == Events \cup {"gap-up", "gap-down", "volume-spike", "volume-spike-quiet",
                         "range-expansion", "52w-high", "52w-low", "false-breakout",
                         "support-divergence"}
Turns == Events \cup {"gap-up", "gap-down"}

(* What an event says of the two bars it was read from. *)
Turned(e, b, n) ==
    /\ e = "golden-cross" => CrossedAbove(b.averages, n.averages)
    /\ e = "death-cross" => CrossedAbove(Mirror(b.averages), Mirror(n.averages))
    /\ e = "macd-up" => CrossedAbove(b.macd, n.macd)
    /\ e = "macd-down" => CrossedAbove(Mirror(b.macd), Mirror(n.macd))
    /\ e = "rsi-oversold" => Entered(b.rsi, n.rsi, 30)
    /\ e = "rsi-overbought" => Entered(Mirror(b.rsi), Mirror(n.rsi), -70)
    /\ e = "stochastic-oversold" => Entered(b.stochastic, n.stochastic, 20)
    /\ e = "stochastic-overbought" => Entered(Mirror(b.stochastic), Mirror(n.stochastic), -80)
    /\ e = "squeeze" => Entered(b.squeeze, n.squeeze, SqueezePercentile + 1)
    /\ e = "gap-up" => 100 * (n.open - b.close) >= GapPercent * b.close
    /\ e = "gap-down" => 100 * (b.close - n.open) >= GapPercent * b.close

LEMMA RulesApart ==
  /\ "cross-up" \notin BarRules \cup {"foreign-flow"} /\ "cross-down" \notin BarRules \cup {"foreign-flow"}
  /\ Turns \subseteq BarRules /\ Turns \cap (QuoteRules \cup {"foreign-flow"}) = {}
  BY DEF QuoteRules, BarRules, Turns, Events

LEMMA KeyFields == \A rule, ref, day :
  Key(rule, ref, day).rule = rule /\ Key(rule, ref, day).ref = ref /\ Key(rule, ref, day).day = day
  BY DEF Key

LEMMA StopAndLimit ==
  ASSUME NEW price, NEW day, NEW k \in StopReached(price, day) \cup LimitApproached(price, day)
  PROVE  \E ref : k = Key("stop", ref, day) \/ k = Key("limit", ref, day)
  <1>1. CASE k \in StopReached(price, day)
    BY <1>1 DEF StopReached
  <1>2. CASE k \in LimitApproached(price, day)
    BY <1>2 DEF LimitApproached
  <1> QED
    BY <1>1, <1>2

LEMMA QuoteKeys ==
  ASSUME NEW prev, NEW price, NEW day, NEW k \in Evaluate(prev, price, day)
  PROVE  k.rule \in QuoteRules /\ k.day = day
  <1>1. CASE k \in Resisted(prev, price, day)
    <2>1. \E l : k = Key("cross-up", <<l>>, day) \/ k = Key("near-resistance", <<l>>, day)
      BY <1>1 DEF Resisted
    <2> QED
      BY <2>1, KeyFields DEF QuoteRules
  <1>2. CASE k \in Supported(prev, price, day)
    <2>1. \E l : k = Key("cross-down", <<l>>, day) \/ k = Key("near-support", <<l>>, day)
      BY <1>2 DEF Supported
    <2> QED
      BY <2>1, KeyFields DEF QuoteRules
  <1>3. CASE k \in StopReached(price, day) \cup LimitApproached(price, day)
    <2>1. PICK ref : k = Key("stop", ref, day) \/ k = Key("limit", ref, day)
      BY <1>3, StopAndLimit
    <2>2. k.rule \in {"stop", "limit"} /\ k.day = day
      BY <2>1, KeyFields
    <2> QED
      BY <2>2 DEF QuoteRules
  <1>4. CASE k \in UnusualMove(price, day) \cup TrailingStop(price, day)
    BY <1>4, KeyFields DEF UnusualMove, TrailingStop, QuoteRules
  <1>5. CASE k \in RewardToRisk(price, day)
    BY <1>5, KeyFields DEF RewardToRisk, QuoteRules
  <1> QED
    BY <1>1, <1>2, <1>3, <1>4, <1>5 DEF Evaluate

(* A level is told as crossed exactly when the quote went through it.      *)
LEMMA CrossingKeys ==
  ASSUME NEW prev, NEW price, NEW day, NEW l, NEW d
  PROVE  /\ Key("cross-up", <<l>>, d) \in Evaluate(prev, price, day) <=>
              d = day /\ l \in levels.resistances /\ CrossedUp(prev, l, price)
         /\ Key("cross-down", <<l>>, d) \in Evaluate(prev, price, day) <=>
              d = day /\ l \in levels.supports /\ CrossedDown(prev, l, price)
  <1> DEFINE up == Key("cross-up", <<l>>, d)
             down == Key("cross-down", <<l>>, d)
  <1>1. up \in Resisted(prev, price, day) <=>
          d = day /\ l \in levels.resistances /\ CrossedUp(prev, l, price)
    BY DEF Resisted, Key
  <1>2. down \in Supported(prev, price, day) <=>
          d = day /\ l \in levels.supports /\ CrossedDown(prev, l, price)
    BY DEF Supported, Key
  <1>3. up \notin Supported(prev, price, day) /\ down \notin Resisted(prev, price, day)
    <2>1. \A k \in Supported(prev, price, day) : k.rule # "cross-up"
      <3> SUFFICES ASSUME NEW k \in Supported(prev, price, day) PROVE k.rule # "cross-up"
        OBVIOUS
      <3>1. \E m : k = Key("cross-down", <<m>>, day) \/ k = Key("near-support", <<m>>, day)
        BY DEF Supported
      <3> QED
        BY <3>1, KeyFields
    <2>2. \A k \in Resisted(prev, price, day) : k.rule # "cross-down"
      <3> SUFFICES ASSUME NEW k \in Resisted(prev, price, day) PROVE k.rule # "cross-down"
        OBVIOUS
      <3>1. \E m : k = Key("cross-up", <<m>>, day) \/ k = Key("near-resistance", <<m>>, day)
        BY DEF Resisted
      <3> QED
        BY <3>1, KeyFields
    <2> QED
      BY <2>1, <2>2, KeyFields
  <1>4. \A k \in StopReached(price, day) \cup LimitApproached(price, day)
                  \cup UnusualMove(price, day) \cup TrailingStop(price, day)
                  \cup RewardToRisk(price, day) : k.rule \notin {"cross-up", "cross-down"}
    <2>1. \A k \in StopReached(price, day) \cup LimitApproached(price, day) :
              k.rule \notin {"cross-up", "cross-down"}
      <3> SUFFICES ASSUME NEW k \in StopReached(price, day) \cup LimitApproached(price, day)
                   PROVE  k.rule \notin {"cross-up", "cross-down"}
        OBVIOUS
      <3>1. PICK ref : k = Key("stop", ref, day) \/ k = Key("limit", ref, day)
        BY StopAndLimit
      <3>2. k.rule \in {"stop", "limit"}
        BY <3>1, KeyFields
      <3> QED
        BY <3>2
    <2>2. \A k \in UnusualMove(price, day) \cup TrailingStop(price, day) :
              k.rule \notin {"cross-up", "cross-down"}
      BY KeyFields DEF UnusualMove, TrailingStop
    <2>3. \A k \in RewardToRisk(price, day) : k.rule \notin {"cross-up", "cross-down"}
      BY KeyFields DEF RewardToRisk
    <2> QED
      BY <2>1, <2>2, <2>3
  <1>5. up.rule = "cross-up" /\ down.rule = "cross-down"
    BY KeyFields
  <1> HIDE DEF up, down
  <1> QED
    BY <1>1, <1>2, <1>3, <1>4, <1>5 DEF Evaluate, up, down

LEMMA RaisedKeys ==
  ASSUME NEW rule, NEW holds, NEW day, NEW k \in Raised(rule, holds, day)
  PROVE  k.rule = rule /\ k.day = day /\ holds
  BY KeyFields DEF Raised

(* What is told of bars is told of the last one, and what turned, turned.  *)
LEMMA BarKeys ==
  ASSUME NEW price, NEW k \in EvaluateSignals(price), bars \in Seq(Indicators)
  PROVE  /\ k.rule \in BarRules /\ Len(bars) >= 2 /\ k.day = Len(bars)
         /\ k.rule \in Turns => Turned(k.rule, bars[Len(bars) - 1], bars[Len(bars)])
  <1> DEFINE n == bars[Len(bars)]
             b == bars[Len(bars) - 1]
             day == Len(bars)
  <1>1. Len(bars) >= 2 /\ k \in AverageCrossings(b, n, day) \cup Oscillators(b, n, day)
                                 \cup Sizes(b, n, price, day) \cup Places(n, price, day)
    BY DEF EvaluateSignals, Last
  <1> HIDE DEF n, b, day
  <1>2. CASE k \in AverageCrossings(b, n, day)
    <2>1. k.rule \in {"golden-cross", "death-cross", "macd-up", "macd-down"} /\ k.day = day
      BY <1>2, RaisedKeys DEF AverageCrossings
    <2>2. Turned(k.rule, b, n)
      BY <1>2, RaisedKeys DEF AverageCrossings, Turned
    <2> QED
      BY <1>1, <2>1, <2>2 DEF n, b, day, BarRules, Events
  <1>3. CASE k \in Oscillators(b, n, day)
    <2>1. k.rule \in {"rsi-oversold", "rsi-overbought", "stochastic-oversold",
                      "stochastic-overbought", "squeeze"} /\ k.day = day
      BY <1>3, RaisedKeys DEF Oscillators
    <2>2. Turned(k.rule, b, n)
      BY <1>3, RaisedKeys DEF Oscillators, Turned
    <2> QED
      BY <1>1, <2>1, <2>2 DEF n, b, day, BarRules, Events
  <1>4. CASE k \in Sizes(b, n, price, day)
    <2>1. k.rule \in {"volume-spike", "volume-spike-quiet", "range-expansion", "gap-up", "gap-down"}
            /\ k.day = day
      BY <1>4, RaisedKeys DEF Sizes
    <2>2. Turned(k.rule, b, n)
      <3>1. CASE k.rule \notin {"gap-up", "gap-down"}
        BY <2>1, <3>1 DEF Turned
      <3>2. CASE k.rule \in {"gap-up", "gap-down"}
        <4>1. \/ k \in Raised("gap-up", AllKnown({n.open}) /\ 100 * (n.open - b.close) >= GapPercent * b.close, day)
              \/ k \in Raised("gap-down", AllKnown({n.open}) /\ 100 * (b.close - n.open) >= GapPercent * b.close, day)
          BY <1>4, <3>2, RaisedKeys DEF Sizes
        <4> QED
          BY <4>1, KeyFields DEF Raised, Turned
      <3> QED
        BY <3>1, <3>2
    <2> QED
      BY <1>1, <2>1, <2>2 DEF n, b, day, BarRules, Events
  <1>5. CASE k \in Places(n, price, day)
    <2>1. k.rule \in {"52w-high", "52w-low", "false-breakout", "support-divergence"} /\ k.day = day
      BY <1>5, RaisedKeys DEF Places
    <2> QED
      BY <1>1, <2>1 DEF n, b, day, BarRules, Turns, Events
  <1> QED
    BY <1>1, <1>2, <1>3, <1>4, <1>5

-----------------------------------------------------------------------------
(* AlertRules: what is told, and of what *)

SomeLevels == Levels \cup {NoLevels}
QuoteRecords == [price : Prices, session : Nat, levels : SomeLevels]

QuotesTyped ==
    /\ today \in Nat \ {0} /\ levels \in SomeLevels
    /\ quotes \in Seq(QuoteRecords)
    /\ \A i \in 1..Len(quotes) : quotes[i].session \in 1..today
    /\ \A i, j \in 1..Len(quotes) : i <= j => quotes[i].session <= quotes[j].session

Crossings == {"cross-up", "cross-down"}

(* No crossing is told of a day to come. *)
CrossingsDated == \A k \in told : k.rule \in Crossings => k.day \in 1..today

(* A turn on record is one of bars on record, until they are revised.      *)
TurnsStand ==
    /\ bars \in Seq(Indicators) /\ revised \subseteq 1..Len(bars)
    /\ \A k \in told : k.rule \in Turns =>
          /\ k.day \in 2..Len(bars)
          /\ {k.day - 1, k.day} \cap revised = {} => Turned(k.rule, bars[k.day - 1], bars[k.day])

RulesInv == QuotesTyped /\ CrossingsDated /\ CrossingsTold /\ TurnsStand

LEMMA RulesInitially == RulesInit => RulesInv
  <1> SUFFICES ASSUME RulesInit PROVE RulesInv
    OBVIOUS
  <1>1. quotes = <<>> /\ today = 1 /\ bars = <<>> /\ levels = NoLevels /\ revised = {} /\ told = {}
    BY DEF RulesInit
  <1>2. QuotesTyped /\ CrossingsDated /\ TurnsStand
    BY <1>1 DEF QuotesTyped, SomeLevels, CrossingsDated, TurnsStand
  <1>3. CrossingsTold
    BY <1>1 DEF CrossingsTold
  <1> QED
    BY <1>2, <1>3 DEF RulesInv

(* The previous quote of a poll, if there is one, and the one it adds.     *)
LEMMA PolledQuotes ==
  ASSUME QuotesTyped, NEW price \in Prices, Poll(price)
  PROVE  /\ Len(quotes') = Len(quotes) + 1 /\ Len(quotes) \in Nat
         /\ \A i \in 1..Len(quotes) : quotes'[i] = quotes[i]
         /\ quotes'[Len(quotes) + 1] = [price |-> price, session |-> today, levels |-> levels]
         /\ \A i \in 1..Len(quotes) : quotes[i].price \in Nat \ {0}
         /\ today' = today /\ levels' = levels
         /\ QuotesTyped'
  <1>1. /\ quotes' = Append(quotes, [price |-> price, session |-> today, levels |-> levels])
        /\ today' = today /\ levels' = levels
    BY DEF Poll
  <1>2. [price |-> price, session |-> today, levels |-> levels] \in QuoteRecords
    BY DEF QuotesTyped, QuoteRecords
  <1>3. /\ Len(quotes') = Len(quotes) + 1 /\ Len(quotes) \in Nat
        /\ \A i \in 1..Len(quotes) : quotes'[i] = quotes[i]
        /\ quotes'[Len(quotes) + 1] = [price |-> price, session |-> today, levels |-> levels]
        /\ quotes' \in Seq(QuoteRecords)
    BY <1>1, <1>2 DEF QuotesTyped
  <1>4. \A i \in 1..Len(quotes) : quotes[i].price \in Nat \ {0}
    <2>1. \A i \in 1..Len(quotes) : quotes[i] \in QuoteRecords
      BY ElementOfSeq DEF QuotesTyped
    <2> QED
      BY <2>1, RulesAssumption DEF QuoteRecords
  <1>5. QuotesTyped'
    <2>1. \A i \in 1..Len(quotes') : i \in 1..Len(quotes) \/ i = Len(quotes) + 1
      BY <1>3
    <2>2. quotes'[Len(quotes) + 1].session = today
      BY <1>3
    <2>3. today \in Nat \ {0} /\ \A i \in 1..Len(quotes) : quotes[i].session \in 1..today
      BY DEF QuotesTyped
    <2>4. \A i \in 1..Len(quotes') : quotes'[i].session \in 1..today
      <3>1. today \in 1..today
        BY <2>3
      <3> QED
        BY <1>3, <2>1, <2>2, <2>3, <3>1
    <2>5. \A i, j \in 1..Len(quotes') : i <= j => quotes'[i].session <= quotes'[j].session
      <3> SUFFICES ASSUME NEW i \in 1..Len(quotes'), NEW j \in 1..Len(quotes'), i <= j
                   PROVE  quotes'[i].session <= quotes'[j].session
        OBVIOUS
      <3>1. CASE j \in 1..Len(quotes)
        <4>1. i \in 1..Len(quotes)
          BY <1>3, <3>1
        <4> QED
          BY <1>3, <3>1, <4>1 DEF QuotesTyped
      <3>2. CASE j = Len(quotes) + 1
        BY <2>2, <2>3, <2>4, <3>2
      <3> QED
        BY <2>1, <3>1, <3>2
    <2> QED
      BY <1>1, <1>3, <2>3, <2>4, <2>5 DEF QuotesTyped
  <1> QED
    BY <1>1, <1>3, <1>4, <1>5

(* The keys a poll adds. *)
LEMMA PolledKeys ==
  ASSUME RulesInv, NEW price \in Prices, Poll(price),
         NEW prev, prev = IF quotes = <<>> THEN Missing ELSE Last(quotes).price
  PROVE  /\ told \subseteq told'
         /\ \A l, d : Key("cross-up", <<l>>, d) \in told' <=>
               \/ Key("cross-up", <<l>>, d) \in told
               \/ d = today /\ l \in levels.resistances /\ CrossedUp(prev, l, price)
         /\ \A l, d : Key("cross-down", <<l>>, d) \in told' <=>
               \/ Key("cross-down", <<l>>, d) \in told
               \/ d = today /\ l \in levels.supports /\ CrossedDown(prev, l, price)
         /\ \A k \in told' : k.rule \in Crossings => k \in told \/ k.day = today
         /\ \A k \in told' : k.rule \in Turns => k \in told \/ k \in EvaluateSignals(price)
  <1>1. PICK flow \in SUBSET FlowSpiked :
          told' = told \cup Evaluate(prev, price, today) \cup EvaluateSignals(price) \cup flow
    BY DEF Poll
  <1>2. \A k \in flow : k.rule = "foreign-flow"
    BY KeyFields DEF FlowSpiked
  <1>3. \A k \in EvaluateSignals(price) : k.rule \in BarRules
    BY BarKeys DEF RulesInv, TurnsStand
  <1>4. \A k \in Evaluate(prev, price, today) : k.rule \in QuoteRules /\ k.day = today
    BY QuoteKeys
  <1>5. \A l, d : Key("cross-up", <<l>>, d).rule = "cross-up" /\ Key("cross-down", <<l>>, d).rule = "cross-down"
    BY KeyFields
  <1>6. \A l, d : /\ Key("cross-up", <<l>>, d) \in told' <=>
                       Key("cross-up", <<l>>, d) \in told \cup Evaluate(prev, price, today)
                  /\ Key("cross-down", <<l>>, d) \in told' <=>
                       Key("cross-down", <<l>>, d) \in told \cup Evaluate(prev, price, today)
    BY <1>1, <1>2, <1>3, <1>5, RulesApart
  <1>7. \A l, d : /\ Key("cross-up", <<l>>, d) \in Evaluate(prev, price, today) <=>
                       d = today /\ l \in levels.resistances /\ CrossedUp(prev, l, price)
                  /\ Key("cross-down", <<l>>, d) \in Evaluate(prev, price, today) <=>
                       d = today /\ l \in levels.supports /\ CrossedDown(prev, l, price)
    BY CrossingKeys
  <1>8. \A k \in told' : k.rule \in Crossings => k \in told \/ k.day = today
    BY <1>1, <1>2, <1>3, <1>4, RulesApart DEF Crossings
  <1>9. \A k \in told' : k.rule \in Turns => k \in told \/ k \in EvaluateSignals(price)
    BY <1>1, <1>2, <1>4, RulesApart
  <1> QED
    BY <1>1, <1>6, <1>7, <1>8, <1>9

(* The quotes of a session, those one of a session follows, and whether    *)
(* they left a set of prices in that session while the levels were of a    *)
(* certain kind.                                                           *)
SeenOn(d) == {i \in 1..Len(quotes) : quotes[i].session = d}
FromOn(d) == {i \in 1..Len(quotes) : i \in SeenOn(d) \/ (i + 1) \in SeenOn(d)}
WentOut(d, S, V) ==
    \E i \in FromOn(d), j \in SeenOn(d) :
        /\ i < j /\ quotes[i].price \in S /\ quotes[j].price \notin S
        /\ \A k \in (i + 1)..j : quotes[k].levels \in V

AtMost(l) == {x \in Nat : x <= l}
AtLeast(l) == {x \in Nat : x >= l}
Resisting(l) == {v \in SomeLevels : l \in v.resistances}
Supporting(l) == {v \in SomeLevels : l \in v.supports}

(* The crossings on record are the levels the quotes went through.         *)
CrossingsOnRecord ==
    \A d \in 1..today :
        /\ \A l \in Resistances : Key("cross-up", <<l>>, d) \in told <=> WentOut(d, AtMost(l), Resisting(l))
        /\ \A l \in Supports : Key("cross-down", <<l>>, d) \in told <=> WentOut(d, AtLeast(l), Supporting(l))

LEMMA CrossingsMean ==
  QuotesTyped => (CrossingsTold <=> CrossingsOnRecord)
  <1> SUFFICES ASSUME QuotesTyped PROVE CrossingsTold <=> CrossingsOnRecord
    OBVIOUS
  <1>0. Len(quotes) \in Nat
    BY DEF QuotesTyped
  <1>1. \A i \in 1..Len(quotes) : quotes[i].price \in Nat /\ quotes[i].levels \in SomeLevels
    <2>1. \A i \in 1..Len(quotes) : quotes[i] \in QuoteRecords
      BY ElementOfSeq DEF QuotesTyped
    <2> QED
      BY <2>1, RulesAssumption DEF QuoteRecords
  <1>2. \A d \in 1..today, l \in Resistances :
          WentOut(d, AtMost(l), Resisting(l)) <=>
            \E i \in FromOn(d), j \in SeenOn(d) :
               /\ i < j /\ quotes[i].price <= l /\ l < quotes[j].price
               /\ \A k \in (i + 1)..j : l \in quotes[k].levels.resistances
    <2>0. Resistances \subseteq Nat
      BY RulesAssumption DEF Resistances
    <2>1. \A l \in Resistances, i \in 1..Len(quotes) :
            (quotes[i].price \in AtMost(l) <=> quotes[i].price <= l)
            /\ (quotes[i].price \notin AtMost(l) <=> l < quotes[i].price)
      BY <1>1, <2>0 DEF AtMost
    <2>2. ASSUME NEW d \in 1..today, NEW l \in Resistances, NEW i \in FromOn(d), NEW j \in SeenOn(d), i < j
          PROVE  (\A k \in (i + 1)..j : quotes[k].levels \in Resisting(l))
                   <=> \A k \in (i + 1)..j : l \in quotes[k].levels.resistances
      <3>1. (i + 1)..j \subseteq 1..Len(quotes)
        BY <2>2, <1>0 DEF FromOn, SeenOn
      <3> QED
        BY <1>1, <3>1 DEF Resisting
    <2>3. \A d \in 1..today : FromOn(d) \subseteq 1..Len(quotes) /\ SeenOn(d) \subseteq 1..Len(quotes)
      BY DEF FromOn, SeenOn
    <2> QED
      BY <2>1, <2>2, <2>3 DEF WentOut
  <1>3. \A d \in 1..today, l \in Supports :
          WentOut(d, AtLeast(l), Supporting(l)) <=>
            \E i \in FromOn(d), j \in SeenOn(d) :
               /\ i < j /\ quotes[i].price >= l /\ l > quotes[j].price
               /\ \A k \in (i + 1)..j : l \in quotes[k].levels.supports
    <2>0. Supports \subseteq Nat
      BY RulesAssumption DEF Supports
    <2>1. \A l \in Supports, i \in 1..Len(quotes) :
            (quotes[i].price \in AtLeast(l) <=> quotes[i].price >= l)
            /\ (quotes[i].price \notin AtLeast(l) <=> l > quotes[i].price)
      BY <1>1, <2>0 DEF AtLeast
    <2>2. ASSUME NEW d \in 1..today, NEW l \in Supports, NEW i \in FromOn(d), NEW j \in SeenOn(d), i < j
          PROVE  (\A k \in (i + 1)..j : quotes[k].levels \in Supporting(l))
                   <=> \A k \in (i + 1)..j : l \in quotes[k].levels.supports
      <3>1. (i + 1)..j \subseteq 1..Len(quotes)
        BY <2>2, <1>0 DEF FromOn, SeenOn
      <3> QED
        BY <1>1, <3>1 DEF Supporting
    <2>3. \A d \in 1..today : FromOn(d) \subseteq 1..Len(quotes) /\ SeenOn(d) \subseteq 1..Len(quotes)
      BY DEF FromOn, SeenOn
    <2> QED
      BY <2>1, <2>2, <2>3 DEF WentOut
  <1> QED
    BY <1>2, <1>3 DEF CrossingsTold, CrossingsOnRecord, FromOn, SeenOn

LEMMA CrossingsMeanNext ==
  QuotesTyped' => (CrossingsTold' <=> CrossingsOnRecord')
  BY CrossingsMean, PTL

(* A poll is a step out of a set if the quote before it was in the set and *)
(* it is not: then the session's quotes have gone out of it, and they had  *)
(* not already if and only if this is the first time.                      *)
LEMMA PollGoesOut ==
  ASSUME QuotesTyped, NEW price \in Prices, Poll(price), NEW S, NEW V, NEW d \in 1..today
  PROVE  WentOut(d, S, V)' <=>
           \/ WentOut(d, S, V)
           \/ d = today /\ quotes # <<>> /\ Last(quotes).price \in S /\ price \notin S /\ levels \in V
  <1> DEFINE n == Len(quotes)
  <1>1. /\ Len(quotes') = n + 1 /\ n \in Nat
        /\ \A i \in 1..n : quotes'[i] = quotes[i]
        /\ quotes'[n + 1].price = price /\ quotes'[n + 1].session = today
        /\ quotes'[n + 1].levels = levels /\ today \in Nat
    <2>1. /\ Len(quotes') = n + 1 /\ n \in Nat
          /\ \A i \in 1..n : quotes'[i] = quotes[i]
          /\ quotes'[n + 1] = [price |-> price, session |-> today, levels |-> levels]
      BY PolledQuotes
    <2> QED
      BY <2>1 DEF QuotesTyped
  <1>2. /\ \A i \in 1..n : quotes[i].session \in 1..today
        /\ \A i, j \in 1..n : i <= j => quotes[i].session <= quotes[j].session
    BY DEF QuotesTyped
  <1>3. /\ SeenOn(d) = {i \in 1..n : quotes[i].session = d}
        /\ SeenOn(d)' = {i \in 1..(n + 1) : quotes'[i].session = d}
        /\ FromOn(d) = {i \in 1..n : i \in SeenOn(d) \/ (i + 1) \in SeenOn(d)}
        /\ FromOn(d)' = {i \in 1..(n + 1) : i \in SeenOn(d)' \/ (i + 1) \in SeenOn(d)'}
    BY <1>1 DEF SeenOn, FromOn
  <1>4. /\ WentOut(d, S, V) <=> \E i \in FromOn(d), j \in SeenOn(d) :
              /\ i < j /\ quotes[i].price \in S /\ quotes[j].price \notin S
              /\ \A k \in (i + 1)..j : quotes[k].levels \in V
        /\ WentOut(d, S, V)' <=> \E i \in FromOn(d)', j \in SeenOn(d)' :
              /\ i < j /\ quotes'[i].price \in S /\ quotes'[j].price \notin S
              /\ \A k \in (i + 1)..j : quotes'[k].levels \in V
    BY DEF WentOut
  <1>5. Last(quotes) = quotes[n] /\ (quotes # <<>> <=> n # 0)
    BY DEF Last, QuotesTyped
  <1> HIDE DEF n
  <1>6. SeenOn(d) \subseteq SeenOn(d)' /\ FromOn(d) \subseteq FromOn(d)'
    BY <1>1, <1>3
  <1>7. ASSUME WentOut(d, S, V) PROVE WentOut(d, S, V)'
    <2>1. PICK i \in FromOn(d), j \in SeenOn(d) :
            /\ i < j /\ quotes[i].price \in S /\ quotes[j].price \notin S
            /\ \A k \in (i + 1)..j : quotes[k].levels \in V
      BY <1>4, <1>7
    <2>2. i \in 1..n /\ j \in 1..n
      BY <1>3
    <2>3. quotes'[i] = quotes[i] /\ quotes'[j] = quotes[j] /\ \A k \in (i + 1)..j : quotes'[k] = quotes[k]
      BY <1>1, <2>2
    <2> QED
      BY <1>4, <1>6, <2>1, <2>3
  <1>8. ASSUME d = today, n # 0, quotes[n].price \in S, price \notin S, levels \in V
        PROVE  WentOut(d, S, V)'
    <2>1. n + 1 \in SeenOn(d)' /\ n \in FromOn(d)'
      BY <1>1, <1>3, <1>8
    <2>2. /\ quotes'[n].price \in S /\ quotes'[n + 1].price \notin S /\ n < n + 1
          /\ \A k \in (n + 1)..(n + 1) : quotes'[k].levels \in V
      BY <1>1, <1>8
    <2> QED
      BY <1>4, <2>1, <2>2
  <1>9. ASSUME WentOut(d, S, V)', ~WentOut(d, S, V)
        PROVE  d = today /\ n # 0 /\ quotes[n].price \in S /\ price \notin S /\ levels \in V
    <2>1. PICK i \in FromOn(d)', j \in SeenOn(d)' :
            /\ i < j /\ quotes'[i].price \in S /\ quotes'[j].price \notin S
            /\ \A k \in (i + 1)..j : quotes'[k].levels \in V
      BY <1>4, <1>9
    <2>2. i \in 1..(n + 1) /\ j \in 1..(n + 1)
      BY <1>3
    <2>3. j = n + 1
      <3> SUFFICES ASSUME j \in 1..n PROVE FALSE
        BY <1>1, <2>2
      <3>1. i \in 1..n /\ i + 1 \in 1..n
        BY <1>1, <2>1, <2>2
      <3>2. i \in FromOn(d) /\ j \in SeenOn(d)
        BY <1>1, <1>3, <3>1
      <3>3. \A k \in (i + 1)..j : quotes[k].levels \in V
        BY <1>1, <2>1, <3>1
      <3> QED
        BY <1>1, <1>4, <1>9, <2>1, <3>1, <3>2, <3>3
    <2>4. d = today /\ price \notin S /\ i \in 1..n /\ n # 0 /\ quotes[i].price \in S
      BY <1>1, <1>3, <2>1, <2>2, <2>3
    <2>5. levels \in V /\ \A k \in (i + 1)..n : quotes[k].levels \in V
      <3>1. n + 1 \in (i + 1)..j /\ \A k \in (i + 1)..n : k \in (i + 1)..j /\ k \in 1..n
        BY <1>1, <2>3, <2>4
      <3> QED
        BY <1>1, <2>1, <3>1
    <2>6. quotes[n].price \in S
      <3> SUFFICES ASSUME quotes[n].price \notin S PROVE FALSE
        OBVIOUS
      <3>1. i < n /\ i + 1 \in 1..n /\ n \in 1..n
        BY <1>1, <2>4
      <3>2. i \in FromOn(d)
        BY <1>1, <1>3, <3>1
      <3>3. n \in SeenOn(d)
        <4>1. quotes[i].session = d \/ quotes[i + 1].session = d
          BY <1>3, <3>2
        <4> QED
          BY <1>1, <1>2, <1>3, <2>4, <3>1, <4>1
      <3> QED
        BY <1>4, <1>9, <2>4, <2>5, <3>1, <3>2, <3>3
    <2> QED
      BY <2>4, <2>5, <2>6
  <1> QED
    BY <1>5, <1>7, <1>8, <1>9

LEMMA PollKeeps ==
  ASSUME RulesInv, NEW price \in Prices, Poll(price) PROVE RulesInv'
  <1> DEFINE prev == IF quotes = <<>> THEN Missing ELSE Last(quotes).price
  <1>1. /\ QuotesTyped /\ QuotesTyped' /\ today' = today /\ today \in Nat /\ today \in 1..today
        /\ levels \in SomeLevels
    <2>1. QuotesTyped /\ QuotesTyped' /\ today' = today
      BY PolledQuotes DEF RulesInv
    <2>2. today \in Nat \ {0} /\ levels \in SomeLevels
      BY <2>1 DEF QuotesTyped
    <2> HIDE DEF prev
    <2> QED
      BY <2>1, <2>2
  <1>2. /\ told \subseteq told'
        /\ \A l, d : Key("cross-up", <<l>>, d) \in told' <=>
              \/ Key("cross-up", <<l>>, d) \in told
              \/ d = today /\ l \in levels.resistances /\ CrossedUp(prev, l, price)
        /\ \A l, d : Key("cross-down", <<l>>, d) \in told' <=>
              \/ Key("cross-down", <<l>>, d) \in told
              \/ d = today /\ l \in levels.supports /\ CrossedDown(prev, l, price)
        /\ \A k \in told' : k.rule \in Crossings => k \in told \/ k.day = today
        /\ \A k \in told' : k.rule \in Turns => k \in told \/ k \in EvaluateSignals(price)
    BY PolledKeys
  <1>3. CrossingsDated'
    BY <1>1, <1>2 DEF RulesInv, CrossingsDated
  <1>4. prev # Missing <=> quotes # <<>>
    <2>1. quotes # <<>> => Last(quotes).price \in Nat
      <3>1. quotes # <<>> => Len(quotes) \in 1..Len(quotes) /\ Last(quotes) = quotes[Len(quotes)]
        BY <1>1 DEF QuotesTyped, Last
      <3> QED
        BY <1>1, <3>1, PolledQuotes
    <2> QED
      BY <2>1 DEF Missing
  <1>5. quotes # <<>> => prev = Last(quotes).price /\ prev \in Nat
    <2>1. quotes # <<>> => Len(quotes) \in 1..Len(quotes) /\ Last(quotes) = quotes[Len(quotes)]
      BY <1>1 DEF QuotesTyped, Last
    <2> QED
      BY <1>1, <2>1, PolledQuotes
  <1> HIDE DEF prev
  <1>6. \A l \in Resistances :
          CrossedUp(prev, l, price) <=> quotes # <<>> /\ Last(quotes).price \in AtMost(l) /\ price \notin AtMost(l)
    BY <1>4, <1>5, RulesAssumption DEF Resistances, CrossedUp, AtMost
  <1>7. \A l \in Supports :
          CrossedDown(prev, l, price) <=> quotes # <<>> /\ Last(quotes).price \in AtLeast(l) /\ price \notin AtLeast(l)
    BY <1>4, <1>5, RulesAssumption DEF Supports, CrossedDown, AtLeast
  <1>8. CrossingsTold'
    <2>1. \A d \in 1..today :
            /\ \A l \in Resistances : Key("cross-up", <<l>>, d) \in told <=> WentOut(d, AtMost(l), Resisting(l))
            /\ \A l \in Supports : Key("cross-down", <<l>>, d) \in told <=> WentOut(d, AtLeast(l), Supporting(l))
      BY <1>1, CrossingsMean DEF RulesInv, CrossingsOnRecord
    <2>2. ASSUME NEW d \in 1..today, NEW l \in Resistances
          PROVE  Key("cross-up", <<l>>, d) \in told' <=> WentOut(d, AtMost(l), Resisting(l))'
      <3>1. WentOut(d, AtMost(l), Resisting(l))' <=>
              \/ WentOut(d, AtMost(l), Resisting(l))
              \/ d = today /\ quotes # <<>> /\ Last(quotes).price \in AtMost(l) /\ price \notin AtMost(l)
                   /\ levels \in Resisting(l)
        BY <1>1, PollGoesOut DEF AtMost, Resisting
      <3>2. levels \in Resisting(l) <=> l \in levels.resistances
        BY <1>1 DEF Resisting
      <3> QED
        BY <1>2, <1>6, <2>1, <3>1, <3>2
    <2>3. ASSUME NEW d \in 1..today, NEW l \in Supports
          PROVE  Key("cross-down", <<l>>, d) \in told' <=> WentOut(d, AtLeast(l), Supporting(l))'
      <3>1. WentOut(d, AtLeast(l), Supporting(l))' <=>
              \/ WentOut(d, AtLeast(l), Supporting(l))
              \/ d = today /\ quotes # <<>> /\ Last(quotes).price \in AtLeast(l) /\ price \notin AtLeast(l)
                   /\ levels \in Supporting(l)
        BY <1>1, PollGoesOut DEF AtLeast, Supporting
      <3>2. levels \in Supporting(l) <=> l \in levels.supports
        BY <1>1 DEF Supporting
      <3> QED
        BY <1>2, <1>7, <2>1, <3>1, <3>2
    <2> QED
      BY <1>1, <2>2, <2>3, CrossingsMeanNext DEF CrossingsOnRecord
  <1>9. TurnsStand'
    <2>1. UNCHANGED <<bars, revised>>
      BY DEF Poll
    <2>2. ASSUME NEW k \in EvaluateSignals(price), k.rule \in Turns
          PROVE  /\ k.day \in 2..Len(bars)
                 /\ Turned(k.rule, bars[k.day - 1], bars[k.day])
      BY <2>2, BarKeys DEF RulesInv, TurnsStand
    <2> QED
      BY <1>2, <2>1, <2>2 DEF RulesInv, TurnsStand, Turned
  <1> QED
    BY <1>1, <1>3, <1>8, <1>9 DEF RulesInv

(* A session that begins has seen no quote. *)
LEMMA SessionKeeps ==
  ASSUME RulesInv, NewSession PROVE RulesInv'
  <1>1. /\ today' = today + 1 /\ today \in Nat \ {0}
        /\ UNCHANGED <<quotes, bars, levels, revised, told>>
        /\ \A i \in 1..Len(quotes) : quotes[i].session \in 1..today
    BY DEF NewSession, RulesInv, QuotesTyped
  <1>2. QuotesTyped'
    <2>1. \A i \in 1..Len(quotes) : quotes[i].session \in 1..(today + 1)
      BY <1>1
    <2> QED
      BY <1>1, <2>1 DEF RulesInv, QuotesTyped
  <1>3. CrossingsDated' /\ TurnsStand'
    <2>1. \A k \in told : k.rule \in Crossings => k.day \in 1..today
      BY DEF RulesInv, CrossingsDated
    <2>2. CrossingsDated'
      <3> SUFFICES ASSUME NEW k \in told, k.rule \in Crossings, k.day \in 1..today
                   PROVE  k.day \in 1..(today + 1)
        BY <1>1, <2>1 DEF CrossingsDated
      <3> QED
        BY <1>1
    <2> QED
      BY <1>1, <2>2 DEF RulesInv, TurnsStand
  <1>4. CrossingsTold'
    <2>1. \A d, l : /\ WentOut(d, AtMost(l), Resisting(l))' <=> WentOut(d, AtMost(l), Resisting(l))
                    /\ WentOut(d, AtLeast(l), Supporting(l))' <=> WentOut(d, AtLeast(l), Supporting(l))
      BY <1>1 DEF WentOut, FromOn, SeenOn, AtMost, AtLeast, Resisting, Supporting
    <2>2. \A l : ~WentOut(today + 1, AtMost(l), Resisting(l)) /\ ~WentOut(today + 1, AtLeast(l), Supporting(l))
      BY <1>1 DEF WentOut, SeenOn
    <2>3. \A l : Key("cross-up", <<l>>, today + 1) \notin told /\ Key("cross-down", <<l>>, today + 1) \notin told
      BY <1>1, KeyFields DEF RulesInv, CrossingsDated, Crossings
    <2>4. CrossingsOnRecord
      BY CrossingsMean DEF RulesInv
    <2>5. CrossingsOnRecord'
      <3> SUFFICES ASSUME NEW d \in 1..(today + 1)
                   PROVE  /\ \A l \in Resistances : Key("cross-up", <<l>>, d) \in told <=> WentOut(d, AtMost(l), Resisting(l))'
                          /\ \A l \in Supports : Key("cross-down", <<l>>, d) \in told <=> WentOut(d, AtLeast(l), Supporting(l))'
        BY <1>1 DEF CrossingsOnRecord
      <3>1. CASE d \in 1..today
        BY <2>1, <2>4, <3>1 DEF CrossingsOnRecord
      <3>2. CASE d = today + 1
        BY <2>1, <2>2, <2>3, <3>2
      <3> QED
        BY <1>1, <3>1, <3>2
    <2> QED
      BY <1>2, <2>5, CrossingsMeanNext
  <1> QED
    BY <1>2, <1>3, <1>4 DEF RulesInv

LEMMA NothingPolled ==
  ASSUME RulesInv, UNCHANGED <<quotes, today, told>>, levels' \in SomeLevels
  PROVE  QuotesTyped' /\ CrossingsDated' /\ CrossingsTold'
  <1>1. QuotesTyped' /\ CrossingsDated'
    BY DEF RulesInv, QuotesTyped, CrossingsDated
  <1>2. \A d, l : /\ WentOut(d, AtMost(l), Resisting(l))' <=> WentOut(d, AtMost(l), Resisting(l))
                  /\ WentOut(d, AtLeast(l), Supporting(l))' <=> WentOut(d, AtLeast(l), Supporting(l))
    BY DEF WentOut, FromOn, SeenOn, AtMost, AtLeast, Resisting, Supporting
  <1>3. CrossingsOnRecord
    BY CrossingsMean DEF RulesInv
  <1>4. CrossingsOnRecord'
    BY <1>2, <1>3 DEF CrossingsOnRecord
  <1> QED
    BY <1>1, <1>4, CrossingsMeanNext

(* A new bar leaves those before it as they are, and a revised one is no   *)
(* longer accounted for.                                                   *)
LEMMA BarKeeps ==
  ASSUME RulesInv, NEW b \in Indicators, NewBar(b) \/ ReviseBar(b) PROVE RulesInv'
  <1> DEFINE n == Len(bars)
  <1>1. UNCHANGED <<quotes, today, told>> /\ levels' \in SomeLevels
    BY DEF NewBar, ReviseBar, SomeLevels
  <1>2. QuotesTyped' /\ CrossingsDated' /\ CrossingsTold'
    BY <1>1, NothingPolled
  <1>3. /\ bars \in Seq(Indicators) /\ n \in Nat /\ revised \subseteq 1..n
        /\ \A k \in told : k.rule \in Turns =>
              /\ k.day \in 2..n
              /\ {k.day - 1, k.day} \cap revised = {} => Turned(k.rule, bars[k.day - 1], bars[k.day])
    BY DEF RulesInv, TurnsStand
  <1>4. CASE NewBar(b)
    <2>1. /\ bars' \in Seq(Indicators) /\ Len(bars') = n + 1
          /\ \A i \in 1..n : bars'[i] = bars[i]
          /\ revised' = revised
      BY <1>3, <1>4 DEF NewBar
    <2> HIDE DEF n
    <2>2. ASSUME NEW k \in told', k.rule \in Turns
          PROVE  /\ k.day \in 2..(n + 1)
                 /\ {k.day - 1, k.day} \cap revised' = {} =>
                      Turned(k.rule, bars'[k.day - 1], bars'[k.day])
      <3>1. k \in told /\ k.day \in 2..n
        BY <1>1, <1>3, <2>2
      <3>2. k.day - 1 \in 1..n /\ k.day \in 1..n
        BY <1>3, <3>1
      <3>3. bars'[k.day - 1] = bars[k.day - 1] /\ bars'[k.day] = bars[k.day]
        BY <2>1, <3>2
      <3> QED
        BY <1>3, <2>1, <2>2, <3>1, <3>3
    <2>3. revised' \subseteq 1..(n + 1)
      BY <1>3, <2>1
    <2>4. TurnsStand'
      BY <2>1, <2>2, <2>3 DEF TurnsStand
    <2> QED
      BY <1>2, <2>4 DEF RulesInv
  <1>5. CASE ReviseBar(b)
    <2>1. n # 0 /\ Front(bars) \in Seq(Indicators) /\ Len(Front(bars)) = n - 1
          /\ \A i \in 1..(n - 1) : Front(bars)[i] = bars[i]
      <3>1. n \in 1..n
        BY <1>3, <1>5 DEF ReviseBar
      <3>2. \A i \in 1..n : bars[i] \in Indicators
        BY <1>3, ElementOfSeq
      <3>3. Front(bars) = [i \in 1..(n - 1) |-> bars[i]]
        BY DEF Front
      <3> HIDE DEF n
      <3>4. Front(bars) \in Seq(Indicators) /\ Len(Front(bars)) = n - 1
        <4>1. n - 1 \in Nat /\ \A i \in 1..(n - 1) : bars[i] \in Indicators
          BY <1>3, <3>1, <3>2
        <4> QED
          BY <3>3, <4>1
      <3> QED
        BY <1>3, <3>1, <3>3, <3>4
    <2>2. /\ bars' \in Seq(Indicators) /\ Len(bars') = n
          /\ \A i \in 1..(n - 1) : bars'[i] = bars[i]
          /\ revised' = revised \cup {n}
      BY <1>3, <1>5, <2>1 DEF ReviseBar
    <2> HIDE DEF n
    <2>3. ASSUME NEW k \in told', k.rule \in Turns
          PROVE  /\ k.day \in 2..n
                 /\ {k.day - 1, k.day} \cap revised' = {} =>
                      Turned(k.rule, bars'[k.day - 1], bars'[k.day])
      <3>1. k \in told /\ k.day \in 2..n
        BY <1>1, <1>3, <2>3
      <3>2. {k.day - 1, k.day} \cap revised' = {} =>
              /\ {k.day - 1, k.day} \cap revised = {}
              /\ k.day - 1 \in 1..(n - 1) /\ k.day \in 1..(n - 1)
        <4>1. {k.day - 1, k.day} \cap revised' = {} => k.day # n
          BY <2>2
        <4>2. {k.day - 1, k.day} \cap revised' = {} => {k.day - 1, k.day} \cap revised = {}
          BY <2>2
        <4> QED
          BY <1>3, <3>1, <4>1, <4>2
      <3>3. {k.day - 1, k.day} \cap revised' = {} =>
              bars'[k.day - 1] = bars[k.day - 1] /\ bars'[k.day] = bars[k.day]
        BY <2>2, <3>2
      <3>4. ASSUME {k.day - 1, k.day} \cap revised' = {}
            PROVE  Turned(k.rule, bars'[k.day - 1], bars'[k.day])
        <4>1. Turned(k.rule, bars[k.day - 1], bars[k.day])
          BY <1>3, <2>3, <3>1, <3>2, <3>4
        <4> QED
          BY <3>3, <3>4, <4>1
      <3> QED
        BY <3>1, <3>4
    <2>4. revised' \subseteq 1..n
      <3>1. n \in 1..n /\ revised \subseteq 1..n
        BY <1>3, <2>1
      <3> QED
        BY <2>2, <3>1
    <2>5. TurnsStand'
      BY <2>2, <2>3, <2>4 DEF TurnsStand
    <2> QED
      BY <1>2, <2>5 DEF RulesInv
  <1> QED
    BY <1>4, <1>5

LEMMA RulesStep ==
  ASSUME RulesInv, [RulesNext]_rulesVars PROVE RulesInv'
  <1>1. CASE NewSession
    BY <1>1, SessionKeeps
  <1>2. ASSUME NEW p \in Prices, Poll(p) PROVE RulesInv'
    BY <1>2, PollKeeps
  <1>3. ASSUME NEW b \in Indicators, NewBar(b) \/ ReviseBar(b) PROVE RulesInv'
    BY <1>3, BarKeeps
  <1>4. CASE UNCHANGED rulesVars
    <2>1. UNCHANGED <<quotes, today, bars, revised, told>> /\ levels' \in SomeLevels
      BY <1>4 DEF rulesVars, RulesInv, QuotesTyped
    <2>2. CrossingsTold' /\ QuotesTyped' /\ CrossingsDated'
      BY <2>1, NothingPolled
    <2>3. TurnsStand'
      BY <2>1 DEF RulesInv, TurnsStand
    <2> QED
      BY <2>2, <2>3 DEF RulesInv
  <1> QED
    BY <1>1, <1>2, <1>3, <1>4 DEF RulesNext

(* Two bars turn one way or the other, and a third does not turn again the *)
(* way the second did.                                                     *)
LEMMA TurnsExclude ==
  ASSUME NEW b \in Indicators, NEW n \in Indicators, NEW m \in Indicators
  PROVE  /\ \A o \in Opposites : ~(Turned(o[1], b, n) /\ Turned(o[2], b, n))
         /\ \A e \in Events : ~(Turned(e, b, n) /\ Turned(e, n, m))
  <1>1. /\ b.close \in Nat \ {0}
        /\ {b.averages, b.macd, b.rsi, b.stochastic, b.squeeze, b.open} \subseteq Int
        /\ {n.averages, n.macd, n.rsi, n.stochastic, n.squeeze, n.open} \subseteq Int
        /\ {m.averages, m.macd, m.rsi, m.stochastic, m.squeeze, m.open} \subseteq Int
    BY RulesAssumption
  <1>2. ASSUME NEW o \in Opposites PROVE ~(Turned(o[1], b, n) /\ Turned(o[2], b, n))
    <2>1. CASE o = <<"golden-cross", "death-cross">>
      BY <1>1, <2>1 DEF Turned, CrossedAbove, Mirror, AllKnown, Missing
    <2>2. CASE o = <<"macd-up", "macd-down">>
      BY <1>1, <2>2 DEF Turned, CrossedAbove, Mirror, AllKnown, Missing
    <2>3. CASE o = <<"rsi-oversold", "rsi-overbought">>
      BY <1>1, <2>3 DEF Turned, Entered, Mirror, AllKnown, Missing
    <2>4. CASE o = <<"stochastic-oversold", "stochastic-overbought">>
      BY <1>1, <2>4 DEF Turned, Entered, Mirror, AllKnown, Missing
    <2>5. CASE o = <<"gap-up", "gap-down">>
      BY <1>1, <2>5 DEF Turned, GapPercent
    <2> QED
      BY <2>1, <2>2, <2>3, <2>4, <2>5 DEF Opposites
  <1>3. ASSUME NEW e \in Events PROVE ~(Turned(e, b, n) /\ Turned(e, n, m))
    <2>1. CASE e \in {"golden-cross", "death-cross", "macd-up", "macd-down"}
      BY <1>1, <2>1 DEF Turned, CrossedAbove, Mirror, AllKnown, Missing
    <2>2. CASE e \in {"rsi-oversold", "rsi-overbought", "stochastic-oversold",
                      "stochastic-overbought", "squeeze"}
      BY <1>1, <2>2 DEF Turned, Entered, Mirror, AllKnown, Missing, SqueezePercentile
    <2> QED
      BY <2>1, <2>2 DEF Events
  <1> QED
    BY <1>2, <1>3

LEMMA TurnsAreEvents ==
  ASSUME RulesInv PROVE EventsNotStates
  <1>1. /\ bars \in Seq(Indicators) /\ Len(bars) \in Nat
        /\ \A k \in told : k.rule \in Turns =>
              /\ k.day \in 2..Len(bars)
              /\ {k.day - 1, k.day} \cap revised = {} => Turned(k.rule, bars[k.day - 1], bars[k.day])
    BY DEF RulesInv, TurnsStand
  <1>2. \A e \in Turns : \A d : Key(e, <<>>, d) \in told =>
          /\ d \in 2..Len(bars)
          /\ {d - 1, d} \cap revised = {} => Turned(e, bars[d - 1], bars[d])
    BY <1>1, KeyFields
  <1>3. \A i \in 1..Len(bars) : bars[i] \in Indicators
    BY <1>1, ElementOfSeq
  <1>4. \A o \in Opposites : o[1] \in Turns /\ o[2] \in Turns
    BY DEF Opposites, Turns, Events
  <1>5. ASSUME NEW d \in 1..MaxBars, {d - 1, d} \cap revised = {}, NEW o \in Opposites,
               Key(o[1], <<>>, d) \in told, Key(o[2], <<>>, d) \in told
        PROVE  FALSE
    <2>1. d \in 2..Len(bars) /\ Turned(o[1], bars[d - 1], bars[d]) /\ Turned(o[2], bars[d - 1], bars[d])
      BY <1>2, <1>4, <1>5
    <2>2. bars[d - 1] \in Indicators /\ bars[d] \in Indicators
      BY <1>1, <1>3, <2>1
    <2> QED
      BY <2>1, <2>2, TurnsExclude
  <1>6. ASSUME NEW d \in 1..MaxBars, {d - 1, d, d + 1} \cap revised = {}, NEW e \in Events,
               Key(e, <<>>, d) \in told, Key(e, <<>>, d + 1) \in told
        PROVE  FALSE
    <2>1. e \in Turns /\ {d - 1, d} \cap revised = {} /\ {(d + 1) - 1, d + 1} \cap revised = {}
      BY <1>6 DEF Turns
    <2>2. /\ d \in 2..Len(bars) /\ d + 1 \in 2..Len(bars)
          /\ Turned(e, bars[d - 1], bars[d]) /\ Turned(e, bars[(d + 1) - 1], bars[d + 1])
      BY <1>2, <1>6, <2>1
    <2>3. (d + 1) - 1 = d /\ d - 1 \in 1..Len(bars) /\ d \in 1..Len(bars) /\ d + 1 \in 1..Len(bars)
      BY <1>1, <2>2
    <2> QED
      BY <1>3, <2>2, <2>3, TurnsExclude
  <1> QED
    BY <1>5, <1>6 DEF EventsNotStates

(* Whatever the quotes and the bars: a session's crossings on record are   *)
(* the levels its quotes went through, and an indicator is told of when it *)
(* turns, not while it stays and not with its opposite.                    *)
THEOREM AlertsTellOfEvents ==
  RulesSpec => []AlertsAreEvents
  <1>1. RulesInit => RulesInv
    BY RulesInitially
  <1>2. RulesInv /\ [RulesNext]_rulesVars => RulesInv'
    BY RulesStep
  <1>3. RulesInv => AlertsAreEvents
    BY TurnsAreEvents DEF AlertsAreEvents, RulesInv
  <1> QED
    BY <1>1, <1>2, <1>3, PTL DEF RulesSpec
=============================================================================
