----------------------- MODULE MCWalletProvisioning -----------------------
(* Finite instances of WalletProvisioning for TLC.                         *)
EXTENDS WalletProvisioning, TLC

CONSTANTS u1, u2, u3, r1, r2

MCUsers1 == {u1}
MCSeedOrder1 == <<u1>>
MCUsers2 == {u1, u2}
MCSeedOrder2 == <<u1, u2>>
MCUsers3 == {u1, u2, u3}
MCSeedOrder3 == <<u1, u2, u3>>
Symmetry == Permutations(Requests)
=============================================================================
