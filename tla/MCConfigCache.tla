--------------------------- MODULE MCConfigCache ---------------------------
(* Small instances of ConfigCache for TLC.                                 *)
EXTENDS ConfigCache

CONSTANTS t1, t2
=============================================================================
