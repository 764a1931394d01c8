-------------------------- MODULE MCDashboardView --------------------------
(* Small instances of DashboardView for TLC.                               *)
EXTENDS DashboardView

CONSTANTS a, b

(* The order changes with version 1, a is removed with version 2.          *)
Reordered == [v \in 0..MaxVersion |-> CASE v = 0 -> <<a, b>> [] v = 1 -> <<b, a>> [] OTHER -> <<b>>]
=============================================================================
