------------------------ MODULE MCElementsMigration ------------------------
(* Finite instances of ElementsMigration for TLC.  The federations other   *)
(* than the configured one are alike, and so are the invocations.          *)
EXTENDS ElementsMigration, TLC

Mode(o, b) == [only |-> o, batched |-> b]

(* A full run of the batched strategy, and a resumed one of the other.     *)
MCModes == {Mode(FALSE, TRUE), Mode(TRUE, FALSE)}

Symmetry == Permutations(Tools) \cup Permutations(Feds \ {Fed0})
============================================================================
