------------------------- MODULE DashboardContract -------------------------
(***************************************************************************)
(* What corvix promises of every notification, whatever happens inside:    *)
(* it is absent, shown or hidden; hidden is final until the row is         *)
(* forgotten together with its announcements; only a stored notification   *)
(* is announced.  PollCycle is shown to implement this.                    *)
(***************************************************************************)
EXTENDS Naturals

CONSTANT Keys

VARIABLES
  view,      \* [Keys -> {"absent", "shown", "hidden"}]
  announced  \* <<key, activity>> announced for the present rows

vars == <<view, announced>>

Init ==
  /\ view = [k \in Keys |-> "absent"]
  /\ announced = {}

(* A poll adds rows, shown or hidden at once; it changes no other one.     *)
Refresh ==
  /\ view' \in [Keys -> {"absent", "shown", "hidden"}]
  /\ \A k \in Keys : view[k] # "absent" => view'[k] = view[k]
  /\ UNCHANGED announced

Hide(k) ==
  /\ view[k] # "absent"
  /\ view' = [view EXCEPT ![k] = "hidden"]
  /\ UNCHANGED announced

Forget(S) ==
  /\ view' = [k \in Keys |-> IF k \in S THEN "absent" ELSE view[k]]
  /\ announced' = {t \in announced : t[1] \notin S}

Announce ==
  /\ announced \subseteq announced'
  /\ \A t \in announced' \ announced : view[t[1]] # "absent"
  /\ UNCHANGED view

Next ==
  \/ Refresh
  \/ \E k \in Keys : Hide(k)
  \/ \E S \in SUBSET Keys : Forget(S)
  \/ Announce

Spec == Init /\ [][Next]_vars
=============================================================================
