------------------------------ MODULE MCAccounts ------------------------------
(* Three people and an analysis of the first. *)
EXTENDS Accounts

ByAnn == [x \in Subjects |-> "ann"]
=============================================================================
