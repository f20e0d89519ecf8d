---------------------------- MODULE JobLifecycle ----------------------------
(***************************************************************************)
(* What the job queue promises, with no lock times, sessions, retries or   *)
(* delays: a submitted job waits, is held by at most one worker, and is    *)
(* finished or buried once.  Work is committed only by the step that       *)
(* finishes the job.  A job is taken from a worker only when none holds    *)
(* it any more.                                                            *)
(***************************************************************************)
EXTENDS Naturals

CONSTANTS Jobs, Workers

VARIABLES
    phase,      \* per job: "new", "waiting", "held", "finished" or "buried"
    holders,    \* per job: the workers executing it
    done        \* per job: how often its work was committed

vars == <<phase, holders, done>>

Init ==
    /\ phase = [j \in Jobs |-> "new"]
    /\ holders = [j \in Jobs |-> {}]
    /\ done = [j \in Jobs |-> 0]

Submit(j) ==
    /\ phase[j] = "new"
    /\ phase' = [phase EXCEPT ![j] = "waiting"]
    /\ UNCHANGED <<holders, done>>

Take(w, j) ==
    /\ phase[j] = "waiting" /\ holders[j] = {}
    /\ phase' = [phase EXCEPT ![j] = "held"]
    /\ holders' = [holders EXCEPT ![j] = {w}]
    /\ UNCHANGED done

(* The holder ends its attempt; only a finishing one leaves its work. *)
End(w, j, p) ==
    /\ phase[j] = "held" /\ holders[j] = {w}
    /\ p \in {"waiting", "finished", "buried"}
    /\ phase' = [phase EXCEPT ![j] = p]
    /\ holders' = [holders EXCEPT ![j] = {}]
    /\ done' = IF p = "finished" THEN [done EXCEPT ![j] = @ + 1] ELSE done

(* The holder is gone without a word. *)
Vanish(w, j) ==
    /\ phase[j] = "held" /\ holders[j] = {w}
    /\ holders' = [holders EXCEPT ![j] = {}]
    /\ UNCHANGED <<phase, done>>

(* Some of the jobs whose holder vanished wait again. *)
Recover(S) ==
    /\ S # {} /\ \A j \in S : phase[j] = "held" /\ holders[j] = {}
    /\ phase' = [j \in Jobs |-> IF j \in S THEN "waiting" ELSE phase[j]]
    /\ UNCHANGED <<holders, done>>

Next ==
    \/ \E j \in Jobs : Submit(j)
    \/ \E w \in Workers, j \in Jobs :
        \/ Take(w, j)
        \/ \E p \in {"waiting", "finished", "buried"} : End(w, j, p)
        \/ Vanish(w, j)
    \/ \E S \in SUBSET Jobs : Recover(S)

Spec == Init /\ [][Next]_vars
=============================================================================
