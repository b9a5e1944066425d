-------------------------- MODULE MCElementsIngest --------------------------
(* Finite instances of ElementsIngest for TLC.                             *)
EXTENDS ElementsIngest, TLC

CONSTANTS v1, v2, c1, c2

(* Two versions of one wallet; c1 is L-BTC, c2 another asset.             *)
MCWallet == (v1 :> 1) @@ (v2 :> 1)

MCOwner == (c1 :> v1) @@ (c2 :> v2)
=============================================================================
