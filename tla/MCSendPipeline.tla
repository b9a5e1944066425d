---------------------------- MODULE MCSendPipeline ----------------------------
(* Finite instances of SendPipeline for TLC; tasks and deposits are alike. *)
EXTENDS SendPipeline, TLC

Symmetry == Permutations(Tasks) \cup Permutations(Deposits \ OldDeposits)
=============================================================================
