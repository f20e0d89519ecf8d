--------------------------- MODULE MCNewsSchedule ---------------------------
(* NewsSchedule on small instances. *)
EXTENDS NewsSchedule, TLC

Symmetry == Permutations(Runners)
=============================================================================
