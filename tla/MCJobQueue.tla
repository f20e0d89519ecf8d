----------------------------- MODULE MCJobQueue -----------------------------
(* Instances of JobQueue for TLC: rows and workers are interchangeable     *)
(* model values; a unit of time is large compared with a transaction.      *)
EXTENDS JobQueue, TLC

MCEnqueueDelays == {0, 1}
MCDeferDelays == {2}

Symmetry == Permutations(Jobs) \cup Permutations(Workers)
=============================================================================
