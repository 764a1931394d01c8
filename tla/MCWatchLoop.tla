---------------------------- MODULE MCWatchLoop ----------------------------
(* Small instances of WatchLoop for TLC; a tick stands for a minute.       *)
EXTENDS WatchLoop

CONSTANTS a1, a2
=============================================================================
