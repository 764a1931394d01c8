----------------------------- MODULE MCRuleFlow -----------------------------
(* Small instances of RuleFlow for TLC.                                    *)
EXTENDS RuleFlow, TLC

CONSTANTS k1, k2, k3, ci, done

A == [repository |-> 1, reason |-> 1, subject_type |-> 1, title |-> 1]
B == [A EXCEPT !.title = 2]

MCKeys == {k1, k2, k3}
MCShapes == k1 :> {A, B} @@ k2 :> {A} @@ k3 :> {}
MCContextsOf == k1 :> {Nothing, ci :> done} @@ k2 :> {Nothing} @@ k3 :> {Nothing}
MCStored0 == [k \in MCKeys |-> IF k # k3 THEN None ELSE
  [key |-> k3, score |-> 2, excluded |-> FALSE, dismissed |-> FALSE, context |-> Nothing,
   n |-> [repository |-> 2, reason |-> 2, subject_type |-> 1, title |-> 1,
          unread |-> FALSE, updated_at |-> 0]]]
(* A thread's title is worth its number, and keeps its worth.              *)
MCScoring0 ==
  [unread_bonus |-> 0, age_decay_per_hour |-> 0, reason_weights |-> [r \in Reasons |-> 0],
   repository_weights |-> [r \in Repositories |-> 0],
   subject_type_weights |-> [t \in SubjectTypes |-> 0], title_weights |-> [t \in Titles |-> t]]
MCRules0 == [global |-> {}, per_repository |->
  (1 :> {[match |-> [AnyNotification EXCEPT
                       !.title_regex = {2}, !.max_age = 0,
                       !.context = {[path |-> ci, op |-> "in", expected |-> TRUE,
                                     values |-> {done}]}],
           exclude |-> TRUE]}
   @@ 2 :> {})]

(* One dashboard of unread rows, one row at a time; one of the rest.       *)
MCDashboards0 ==
  << [DashboardNamed("triage") EXCEPT !.max_items = 1, !.match.max_age = 0],
     [DashboardNamed("all") EXCEPT !.include_read = TRUE, !.group_by = "repository",
                                   !.sort_by = "updated_at",
                                   !.ignore_rules = {[AnyNotification EXCEPT
                                                        !.unread = TRUE, !.max_age = 0]}] >>
=============================================================================
