----------------------------- MODULE MCWalletSync -----------------------------
(* Finite instances of WalletSync for TLC.                                 *)
EXTENDS WalletSync

MCBoth == {"emitter", "revealed"}
===============================================================================
