------------------------------ MODULE Ranking ------------------------------
(***************************************************************************)
(* A finite set written down in an order.  GitHub lists threads by their   *)
(* latest activity, a dashboard its rows by a sort key; both are the       *)
(* elements of a set, each at the place that the number of elements before *)
(* it gives.  An order is a set of pairs.  No variables here.              *)
(***************************************************************************)
EXTENDS Integers, FiniteSets

(* The elements of S that come before x.                                   *)
Preceding(S, R, x) == {y \in S : <<y, x>> \in R}

Ranked(S, R) ==
  [p \in 1..Cardinality(S) |-> CHOOSE x \in S : Cardinality(Preceding(S, R, x)) = p - 1]

(* R orders S strictly, and any two elements of it.                        *)
Orders(R, S) ==
  /\ \A x \in S : <<x, x>> \notin R
  /\ \A x, y \in S : x # y => <<x, y>> \in R \/ <<y, x>> \in R
  /\ \A x, y, z \in S : <<x, y>> \in R /\ <<y, z>> \in R => <<x, z>> \in R

(* Places of a sequence, in their order.                                   *)
InOrder(places) == Ranked(places, {q \in places \X places : q[1] < q[2]})
=============================================================================
