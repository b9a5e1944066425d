---------------------------- MODULE MCWatchSession ----------------------------
(* Finite instances of WatchSession for TLC.                               *)
EXTENDS WatchSession

MCBoth == {"watched", "polled"}
MCPolled == {"polled"}
=============================================================================
