---------------------- MODULE MCFederationMigration ----------------------
(* Finite instances of FederationMigration for TLC.  The federations other *)
(* than the configured one are alike, and so are the invocations.          *)
EXTENDS FederationMigration, TLC

Symmetry == Permutations(Tools) \cup Permutations(Feds \ {Fed0})
==========================================================================
