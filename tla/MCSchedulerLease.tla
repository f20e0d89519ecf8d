-------------------------- MODULE MCSchedulerLease --------------------------
(* SchedulerLease on small instances. *)
EXTENDS SchedulerLease

MCAllDaemons == Schedulers
=============================================================================
