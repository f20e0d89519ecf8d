----------------------------- MODULE AnalysisRun -----------------------------
(***************************************************************************)
(* One multi-agent analysis: the engine (agents/engine.py) runs its agents *)
(* in order, stores the result, asks for a recommendation and stores what  *)
(* became of it; it is run by the job (jobs/handlers.py) or by the request *)
(* (api/routes/analysis.py), each with its own way to end the transaction. *)
(* The other language is rendered afterwards, by a job of its own.         *)
(*                                                                         *)
(* What an agent says is not modelled, only whether it ran, was skipped or *)
(* failed, which is what the stored snapshot reports.                      *)
(***************************************************************************)
EXTENDS Integers, SequencesExt

CONSTANTS
    MaxRuns,        \* bound: analyses begun
    MaxCrashes,     \* bound: workers that die, calls that raise something else
    Translators     \* sessions that may render at once (a reclaimed job runs twice)

Analyzers == {"market_analyzer", "technical_analyzer", "fundamental_analyzer", "news_analyzer"}
Order == <<"market_analyzer", "technical_analyzer", "fundamental_analyzer", "news_analyzer",
           "summary_agent">>
Agents == Analyzers \cup {"summary_agent", "recommendation_agent"}
Kinds == {"prices", "fundamentals", "news"}

VARIABLES
    run,        \* the analysis under way
    results,    \* committed analyses, the latest last
    renderings, \* analyses whose translation job is queued, or done
    session,    \* per translator, the result it works on and the copy it took
    runs,
    crashes

analysisVars == <<run, results, renderings, session, runs, crashes>>

(* A snapshot and the row beside it.  row: the recommendation is stored,   *)
(* shown: the snapshot has it; rowRendered, shownRendered: its translation *)
(* is; rendered: the agents whose translation the snapshot has.            *)
Empty == [ran |-> {}, skipped |-> {}, failed |-> {}, rendered |-> {}, row |-> FALSE,
          shown |-> FALSE, rowRendered |-> FALSE, shownRendered |-> FALSE]
NoRun == [phase |-> "none", route |-> "job", data |-> {}, wanted |-> TRUE, at |-> 0, so |-> Empty]
Free == [of |-> 0, copy |-> Empty]

AnalysisInit ==
    /\ run = NoRun /\ results = <<>> /\ renderings = [queued |-> {}, done |-> {}]
    /\ session = [t \in Translators |-> Free]
    /\ runs = 0 /\ crashes = 0

-----------------------------------------------------------------------------
(* The engine *)

(* The context is what is stored about the asset at this moment.           *)
BeginAnalysis(route, data, wanted) ==
    /\ run.phase = "none" /\ runs < MaxRuns /\ runs' = runs + 1
    /\ run' = [NoRun EXCEPT !.phase = "agents", !.route = route, !.data = data,
                            !.wanted = wanted, !.at = 1]
    /\ UNCHANGED <<results, renderings, session, crashes>>

RanAnalyzers == run.so.ran \cap Analyzers

Applicable(agent) ==
    CASE agent = "fundamental_analyzer" -> "fundamentals" \in run.data
      [] agent = "news_analyzer" -> "news" \in run.data
      [] agent = "summary_agent" -> \E a, b \in RanAnalyzers : a # b
      [] OTHER -> "prices" \in run.data

Report(field, agent) == run' = [run EXCEPT !.so[field] = @ \cup {agent}, !.at = @ + 1]

SkipAgent ==
    /\ run.phase = "agents" /\ run.at <= Len(Order) /\ ~Applicable(Order[run.at])
    /\ Report("skipped", Order[run.at])
    /\ UNCHANGED <<results, renderings, session, runs, crashes>>

(* _execute: an answer, or a failure of validation or of every provider.   *)
RunAgent(outcome) ==
    /\ run.phase = "agents" /\ run.at <= Len(Order) /\ Applicable(Order[run.at])
    /\ Report(outcome, Order[run.at])
    /\ UNCHANGED <<results, renderings, session, runs, crashes>>

(* _persist, whatever the agents produced.                                 *)
Persist ==
    /\ run.phase = "agents" /\ run.at > Len(Order)
    /\ run' = [run EXCEPT !.phase = IF run.wanted /\ RanAnalyzers # {}
                                    THEN "recommending" ELSE "ending"]
    /\ UNCHANGED <<results, renderings, session, runs, crashes>>

(* Mutant: the snapshot is left as it was before the recommendation. *)
RecommendUnshown(outcome) ==
    /\ run.phase = "recommending"
    /\ run' = [run EXCEPT !.phase = "ending", !.so.row = (outcome = "ran")]
    /\ UNCHANGED <<results, renderings, session, runs, crashes>>

(* _recommend and _update_snapshot: the row and the snapshot's account of  *)
(* it, or the reason there is none.                                        *)
Recommend(outcome) ==
    /\ run.phase = "recommending"
    /\ run' = [run EXCEPT !.phase = "ending",
                          !.so[outcome] = @ \cup {"recommendation_agent"},
                          !.so.row = (outcome = "ran"), !.so.shown = (outcome = "ran")]
    /\ UNCHANGED <<results, renderings, session, runs, crashes>>

-----------------------------------------------------------------------------
(* Its two callers *)

StoreResult == results' = Append(results, run.so)
AskRendering ==
    renderings' = [renderings EXCEPT !.queued = @ \cup {Len(results) + 1}]

(* Something ran: stored together with the job that renders it.            *)
Complete ==
    /\ run.phase = "ending" /\ run.so.ran # {}
    /\ StoreResult /\ AskRendering /\ run' = NoRun
    /\ UNCHANGED <<session, runs, crashes>>

(* The job raises PermanentJobError, and the worker commits its session.   *)
EndEmptyJob ==
    /\ run.phase = "ending" /\ run.so.ran = {} /\ run.route = "job"
    /\ StoreResult /\ run' = NoRun
    /\ UNCHANGED <<renderings, session, runs, crashes>>

(* The request answers 409, and its session is rolled back.                *)
EndEmptyRequest ==
    /\ run.phase = "ending" /\ run.so.ran = {} /\ run.route = "request"
    /\ run' = NoRun
    /\ UNCHANGED <<results, renderings, session, runs, crashes>>

(* The worker dies or something else is raised: nothing is stored, and a   *)
(* retry is another run.                                                   *)
CrashRun ==
    /\ run.phase # "none" /\ crashes < MaxCrashes /\ crashes' = crashes + 1
    /\ run' = NoRun
    /\ UNCHANGED <<results, renderings, session, runs>>

-----------------------------------------------------------------------------
(* The other language *)

(* The snapshot is deep-copied before the first call.                      *)
LoadStored(t, i) ==
    /\ session[t] = Free /\ i \in renderings.queued
    /\ session' = [session EXCEPT ![t] = [of |-> i, copy |-> results[i]]]
    /\ UNCHANGED <<run, results, renderings, runs, crashes>>

(* The calls that succeed render some agents not rendered already, and the *)
(* recommendation's row or not; if anything was rendered, the snapshot is  *)
(* replaced by the copy that was edited.                                   *)
SaveRendered(t, agents, rec) ==
    LET i == session[t].of
        copy == session[t].copy IN
    /\ i # 0
    /\ agents \subseteq copy.ran \ copy.rendered /\ (rec => copy.row)
    /\ results' = IF agents = {} /\ ~rec THEN results
                  ELSE [results EXCEPT
                          ![i].rendered = copy.rendered \cup agents,
                          ![i].shownRendered = copy.shownRendered \/ (rec /\ copy.shown),
                          ![i].rowRendered = @ \/ rec]
    /\ renderings' = [queued |-> renderings.queued \ {i}, done |-> renderings.done \cup {i}]
    /\ session' = [session EXCEPT ![t] = Free]
    /\ UNCHANGED <<run, runs, crashes>>

CrashRendering(t) ==
    /\ session[t] # Free /\ crashes < MaxCrashes /\ crashes' = crashes + 1
    /\ session' = [session EXCEPT ![t] = Free]
    /\ UNCHANGED <<run, results, renderings, runs>>

AnalysisNext ==
    \/ \E route \in {"job", "request"}, data \in SUBSET Kinds, wanted \in BOOLEAN :
         BeginAnalysis(route, data, wanted)
    \/ SkipAgent \/ Persist \/ Complete \/ EndEmptyJob \/ EndEmptyRequest \/ CrashRun
    \/ \E outcome \in {"ran", "failed"} : RunAgent(outcome) \/ Recommend(outcome)
    \/ \E t \in Translators :
         \/ CrashRendering(t)
         \/ \E i \in 1..MaxRuns : LoadStored(t, i)
         \/ \E agents \in SUBSET Agents, rec \in BOOLEAN : SaveRendered(t, agents, rec)

AnalysisSpec == AnalysisInit /\ [][AnalysisNext]_analysisVars

-----------------------------------------------------------------------------
(* Properties *)

(* What a reader is shown is what happened and what is stored: every agent *)
(* is reported exactly once, a synthesis has two inputs, a recommendation  *)
(* one, its row is there exactly if the snapshot shows it, a translation   *)
(* shown is stored, and every analysis with output has asked for one, even *)
(* when two sessions render it at once.                                    *)
SnapshotTruthful ==
    \A i \in 1..Len(results) : LET r == results[i] IN
        /\ r.ran \cap r.skipped = {} /\ r.ran \cap r.failed = {} /\ r.skipped \cap r.failed = {}
        /\ Agents \ {"recommendation_agent"} \subseteq r.ran \cup r.skipped \cup r.failed
        /\ "summary_agent" \in r.ran => \E a, b \in r.ran \cap Analyzers : a # b
        /\ r.row <=> r.shown
        /\ r.row => r.ran \cap Analyzers # {}
        /\ r.rendered \subseteq r.ran
        /\ r.shownRendered => r.shown /\ r.rowRendered
        /\ r.ran # {} => i \in renderings.queued \cup renderings.done

(* "Both routes leave the system in the same state": an analysis in which  *)
(* no agent produced output is stored by neither, so that the latest one   *)
(* stored is always one to read.                                           *)
StoredHasOutput == \A i \in 1..Len(results) : results[i].ran # {}
=============================================================================
