------------------------------- MODULE Rules -------------------------------
(***************************************************************************)
(* Scoring and matching of notifications (scoring.py, rules.py) and the    *)
(* ready made criteria of a row (web/rule_snippets.py).  No variables here.*)
(* Names are numbers, their places in string order.  A pattern, be it a    *)
(* glob, a token or a regular expression, is the set of the names it       *)
(* matches; a predicate's operand is the set of the values it accepts.     *)
(***************************************************************************)
EXTENDS Integers, FiniteSets

CONSTANTS
  Repositories, Reasons, SubjectTypes, Titles, \* sets of Nat
  Paths,        \* context paths, enrichment may set
  SnippetPaths, \* those _context_predicate_lines looks at
  Values,       \* values found there
  Scalars,      \* those that are a bool, a number or a string
  None          \* "no such criterion"

ASSUME RulesAssumption ==
  /\ Repositories \cup Reasons \cup SubjectTypes \cup Titles \subseteq Nat
  /\ SnippetPaths \subseteq Paths
  /\ Scalars \subseteq Values
  /\ None \notin Int \cup BOOLEAN
  /\ \A found \in SUBSET Titles : None # found

(* What enrichment found: some paths, each with a value.                   *)
Context == UNION {[P -> Values] : P \in SUBSET Paths}

Notification == [repository : Repositories, reason : Reasons,
                 subject_type : SubjectTypes, title : Titles,
                 unread : BOOLEAN, updated_at : Nat]

Ops == {"exists", "in", "not_equals"}
Predicate == [path : Paths, op : Ops, expected : BOOLEAN, values : SUBSET Values]
Criteria ==
  [repository_in : SUBSET Repositories, repository_glob : SUBSET SUBSET Repositories,
   reason_in : SUBSET Reasons, subject_type_in : SUBSET SubjectTypes,
   title_contains_any : SUBSET SUBSET Titles, title_regex : {None} \cup SUBSET Titles,
   unread : {None} \cup BOOLEAN, min_score : {None} \cup Int,
   max_age : {None} \cup Nat, context : SUBSET Predicate]

(* MatchCriteria(): nothing is asked for.                                  *)
AnyNotification ==
  [repository_in |-> {}, repository_glob |-> {}, reason_in |-> {},
   subject_type_in |-> {}, title_contains_any |-> {}, title_regex |-> None,
   unread |-> None, min_score |-> None, max_age |-> None, context |-> {}]

-----------------------------------------------------------------------------
OneOf(x, allowed) == allowed = {} \/ x \in allowed
AnyOf(x, patterns) == patterns = {} \/ \E p \in patterns : x \in p

(* _evaluate_context_predicate: a missing path fails every operator but    *)
(* exists, not_equals too.  equals, contains, regex and in are "in".       *)
PredicateHolds(p, ctx) ==
  IF p.op = "exists" THEN (p.path \in DOMAIN ctx) = p.expected
  ELSE /\ p.path \in DOMAIN ctx
       /\ (ctx[p.path] \in p.values) = (p.op = "in")

Age(n, now) == IF now > n.updated_at THEN now - n.updated_at ELSE 0

(* score_notification.  A weight that is not configured is 0; what counts  *)
(* of the keywords is the sum for each title of those it contains.         *)
Scoring == [unread_bonus : Int, age_decay_per_hour : Int,
            reason_weights : [Reasons -> Int], repository_weights : [Repositories -> Int],
            subject_type_weights : [SubjectTypes -> Int], title_weights : [Titles -> Int]]
Score(n, s, now) ==
  (IF n.unread THEN s.unread_bonus ELSE 0)
    + s.reason_weights[n.reason] + s.repository_weights[n.repository]
    + s.subject_type_weights[n.subject_type] + s.title_weights[n.title]
    - Age(n, now) * s.age_decay_per_hour

Matches(c, n, score, now, ctx) ==
  /\ OneOf(n.repository, c.repository_in)
  /\ AnyOf(n.repository, c.repository_glob)
  /\ OneOf(n.reason, c.reason_in)
  /\ OneOf(n.subject_type, c.subject_type_in)
  /\ AnyOf(n.title, c.title_contains_any)
  /\ c.title_regex = None \/ n.title \in c.title_regex
  /\ c.unread = None \/ n.unread = c.unread
  /\ c.min_score = None \/ score >= c.min_score
  /\ c.max_age = None \/ Age(n, now) <= c.max_age
  /\ \A p \in c.context : PredicateHolds(p, ctx)

(* A rule, and evaluate_rules: the global rules and those of the           *)
(* repository are all tried; none of them ends the search.                 *)
Rule == [match : Criteria, exclude : BOOLEAN]
Matched(rules, n, score, now, ctx) ==
  {r \in rules.global \cup rules.per_repository[n.repository] :
     Matches(r.match, n, score, now, ctx)}

(* A bug to exclude: a repository with rules of its own ignores the global *)
(* ones.                                                                   *)
Excluded_RepositoryFirst(rules, n, score, now, ctx) ==
  LET own == rules.per_repository[n.repository]
  IN  \E r \in (IF own = {} THEN rules.global ELSE own) :
        r.exclude /\ Matches(r.match, n, score, now, ctx)

Excluded(rules, n, score, now, ctx) ==
  \E r \in Matched(rules, n, score, now, ctx) : r.exclude

-----------------------------------------------------------------------------
(* The attributes a snippet names.                                         *)
About(n) == [repository |-> n.repository, reason |-> n.reason,
             subject_type |-> n.subject_type, title |-> n.title]

(* The part of a context a snippet with predicates names.                  *)
Told(ctx) == {p \in SnippetPaths \cap DOMAIN ctx : ctx[p] \in Scalars}

(* _rule_match_lines, as parsed: the title's regular expression is escaped *)
(* and anchored, so it finds that title only.  One predicate per path.     *)
(* A bug to exclude: the title is left out.                                *)
SnippetCriteria_NoTitle(n, ctx, withContext) ==
  [AnyNotification EXCEPT !.repository_in = {n.repository}, !.reason_in = {n.reason},
                          !.subject_type_in = {n.subject_type}]

SnippetCriteria(n, ctx, withContext) ==
  [AnyNotification EXCEPT
     !.repository_in = {n.repository},
     !.reason_in = {n.reason},
     !.subject_type_in = {n.subject_type},
     !.title_regex = {n.title},
     !.context = IF withContext
                 THEN {[path |-> p, op |-> "in", expected |-> TRUE, values |-> {ctx[p]}] :
                         p \in Told(ctx)}
                 ELSE {}]
=============================================================================
