-------------------------- MODULE MCJobQueueDialects --------------------------
(* JobQueue on both dialects in one run: a behaviour is one of the         *)
(* instance the cfg describes or one of the fallback without SKIP LOCKED.  *)
EXTENDS MCJobQueue

VARIABLE dialect

Fallback == INSTANCE JobQueue WITH SkipLocked <- FALSE, LockTimeout <- 1, MaxRun <- 1,
                                   EnqueueDelays <- {0}, MaxFaults <- 1, MaxDefers <- 0

BothInit == \/ dialect = "postgresql" /\ Init
            \/ dialect = "fallback" /\ Fallback!Init

BothNext == \/ dialect = "postgresql" /\ Next /\ UNCHANGED dialect
            \/ dialect = "fallback" /\ Fallback!Next /\ UNCHANGED dialect

BothSpec == BothInit /\ [][BothNext]_<<vars, dialect>>
=============================================================================
