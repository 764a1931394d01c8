---------------------------- MODULE MCRowActions ----------------------------
(* Small instances of RowActions for TLC.                                  *)
EXTENDS RowActions, TLC

CONSTANTS k1, k2, g1, g2

(* Two groups of one row each.                                             *)
TwoGroups == k1 :> g1 @@ k2 :> g2
=============================================================================
