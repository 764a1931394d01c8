---------------------------- MODULE MCSseStream ----------------------------
(* Small instances of SseStream for TLC.                                   *)
EXTENDS SseStream

CONSTANTS s1, s2
=============================================================================
