------------------------------ MODULE RuleFlow ------------------------------
(***************************************************************************)
(* From "Create ignore rule" to a quieter dashboard: the snippet route     *)
(* (web/rule_snippets.py), the configuration file the user pastes into,    *)
(* the poller that stores verdicts (services.py, rules.py) and the views   *)
(* the web process builds from stored rows (snapshot.py, dashboarding.py). *)
(* The web process reads the file for every request (ConfigCache says how) *)
(* and the poller once, when it starts.  A poll cycle is one step here;    *)
(* PollCycle has its interleavings.                                        *)
(***************************************************************************)
EXTENDS Dashboards

CONSTANTS
  Shapes,      \* [Keys -> what an activity may make of a thread]
  ContextsOf,  \* [Keys -> contexts a poll may find]
  Scoring0,    \* the scoring of the configuration
  Stored0,     \* rows of earlier days
  Rules0,      \* the rules of the initial configuration
  Dashboards0, \* its dashboards, a sequence
  MaxNow,      \* bound on now
  MaxPastes    \* bound on snippets pasted

RuleSet == [global : SUBSET Rule, per_repository : [Repositories -> SUBSET Rule]]
Subject == [repository : Repositories, reason : Reasons,
            subject_type : SubjectTypes, title : Titles]

ASSUME RuleFlowAssumption ==
  /\ Shapes \in [Keys -> SUBSET Subject]
  /\ ContextsOf \in [Keys -> SUBSET Context]
  /\ Scoring0 \in Scoring
  /\ Rules0 \in RuleSet
  /\ Dashboards0 \in Seq(Dashboard)
  /\ \A i \in DOMAIN Dashboards0 : Dashboards0[i].name \in Names
  /\ Stored0 \in [Keys -> Row \cup {None}]
  /\ \A k \in Keys : Stored0[k] # None => Stored0[k].key = k
  /\ IsFiniteSet({k \in Keys : Stored0[k] # None})
  /\ MaxNow \in Nat \ {0} /\ MaxPastes \in Nat

(* The verdicts of earlier days are those of the rules in the file.        *)
ExcludedAtSomeTime(r, hour) ==
  \E t \in r.n.updated_at..hour :
    Excluded(Rules0, [r.n EXCEPT !.unread = TRUE], r.score, t, r.context)
ASSUME StoredAssumption ==
  \A k \in Keys : Stored0[k] # None /\ Stored0[k].excluded => ExcludedAtSomeTime(Stored0[k], 1)

VARIABLES
  inbox,    \* GitHub's unread threads: [Keys -> notification, or None]
  db,       \* notification_records: [Keys -> Row, or None]
  rules,    \* the file: rules
  dashboards, \* the file: dashboards, in their order
  running,  \* the rules the poller was started with
  now,      \* hours
  pasted    \* history: what was pasted, read by the properties only

serverVars == <<db, rules, dashboards, running>>
vars == <<inbox, serverVars, now, pasted>>

Nothing == [p \in {} |-> CHOOSE v \in Values : TRUE]
ShownNames == {Available(dashboards)[i].name : i \in DOMAIN Available(dashboards)}

Paste == [where : Names \cup {Default, None}, about : Subject, told : Context]

TypeOK ==
  /\ inbox \in [Keys -> Notification \cup {None}]
  /\ db \in [Keys -> Row \cup {None}]
  /\ \A k \in Keys : db[k] # None => db[k].key = k
  /\ rules \in RuleSet /\ running \in RuleSet
  /\ dashboards \in Seq(Dashboard) /\ Len(dashboards) = Len(Dashboards0)
  /\ now \in 1..MaxNow
  /\ pasted \subseteq Paste

Init ==
  /\ inbox = [k \in Keys |-> None]
  /\ db = Stored0
  /\ rules = Rules0 /\ running = Rules0
  /\ dashboards = Dashboards0
  /\ now = 1
  /\ pasted = {}

-----------------------------------------------------------------------------
(* The surroundings: GitHub, time and the poller.                          *)

(* A thread becomes unread, maybe under another title or for another       *)
(* reason.                                                                 *)
Activity(k) ==
  /\ \E shape \in Shapes[k] :
       inbox' = [inbox EXCEPT ![k] =
                   [repository |-> shape.repository, reason |-> shape.reason,
                    subject_type |-> shape.subject_type, title |-> shape.title,
                    unread |-> TRUE, updated_at |-> now]]
  /\ UNCHANGED <<serverVars, now, pasted>>

Tick ==
  /\ now < MaxNow
  /\ now' = now + 1
  /\ UNCHANGED <<inbox, serverVars, pasted>>

(* _process_notifications and save_records.  Enrichment finds what is true *)
(* then, or nothing: it fails open.                                        *)
Stored(k, ctx) ==
  LET score == Score(inbox[k], Scoring0, now)
  IN  [key |-> k, n |-> inbox[k], score |-> score,
       excluded |-> Excluded(running, inbox[k], score, now, ctx),
       dismissed |-> db[k] # None /\ db[k].dismissed,
       context |-> ctx]
Truths == {f \in [Keys -> Context] : \A k \in Keys : f[k] \in ContextsOf[k]}
Enriched ==
  {[k \in Keys |-> IF k \in found THEN f[k] ELSE Nothing] : f \in Truths, found \in SUBSET Keys}
Poll ==
  /\ UNCHANGED <<inbox, rules, dashboards, running, now, pasted>>
  /\ \E ctx \in Enriched :
       db' = [k \in Keys |-> IF inbox[k] = None THEN db[k] ELSE Stored(k, ctx[k])]

(* The poller reads the file when it starts, and only then.                *)
RestartPoller ==
  /\ running' = rules
  /\ UNCHANGED <<inbox, db, rules, dashboards, now, pasted>>

(* The web process: dismiss and mark-read, done at GitHub and in the table.*)
Dismiss(k) ==
  /\ db[k] # None
  /\ db' = [db EXCEPT ![k].dismissed = TRUE]
  /\ inbox' = [inbox EXCEPT ![k] = None]
  /\ UNCHANGED <<rules, dashboards, running, now, pasted>>

MarkRead(k) ==
  /\ db[k] # None
  /\ db' = [db EXCEPT ![k].n.unread = FALSE]
  /\ inbox' = [inbox EXCEPT ![k] = None]
  /\ UNCHANGED <<rules, dashboards, running, now, pasted>>

-----------------------------------------------------------------------------
(* The user asks for the snippets of a row, in some dashboard, and saves   *)
(* one of them: under that dashboard, if the file has it, or globally; of  *)
(* either kind there is a variant with predicates if the row has a context *)
(* to name (_notification_rule_snippets_impl).  Asking and saving are one  *)
(* step: what is saved depends on the row as it was asked for, and nothing *)
(* that happens in between depends on the saving.                          *)
Add(c, name) ==
  [i \in DOMAIN dashboards |->
     IF dashboards[i].name = name
     THEN [dashboards[i] EXCEPT !.ignore_rules = @ \cup {c}]
     ELSE dashboards[i]]
PasteSnippet(k, name, global, withContext) ==
  LET row   == db[k]
      c     == SnippetCriteria(row.n, row.context, withContext)
      where == Select(dashboards, name).name
      told  == IF withContext THEN Told(row.context) ELSE {}
  IN
  /\ Cardinality(pasted) < MaxPastes
  /\ row # None
  /\ withContext => told # {}
  /\ IF global
     THEN /\ rules' = [rules EXCEPT !.global = @ \cup {[match |-> c, exclude |-> TRUE]}]
          /\ UNCHANGED dashboards
     ELSE /\ \E i \in DOMAIN dashboards : dashboards[i].name = where
          /\ dashboards' = Add(c, where)
          /\ UNCHANGED rules
  /\ pasted' = pasted \cup {[where |-> IF global THEN None ELSE where,
                             about |-> About(row.n),
                             told  |-> [q \in told |-> row.context[q]]]}
  /\ UNCHANGED <<inbox, db, running, now>>

-----------------------------------------------------------------------------
Next ==
  \/ \E k \in Keys : Activity(k) \/ Dismiss(k) \/ MarkRead(k)
  \/ Tick \/ Poll \/ RestartPoller
  \/ \E k \in Keys, name \in ShownNames \cup {None}, global, withContext \in BOOLEAN :
       PasteSnippet(k, name, global, withContext)

Spec == Init /\ [][Next]_vars

(* run_watch_loop polls again and again (WatchLoop).  Whether the poller   *)
(* is ever restarted is up to the operator.                                *)
FairSpec == Spec /\ WF_vars(Poll)

-----------------------------------------------------------------------------
(* Whether a row's context has all the values a snippet named.             *)
Agrees(told, ctx) ==
  \A p \in DOMAIN told : p \in DOMAIN ctx /\ ctx[p] = told[p]
Covers(p, r) == p.about = About(r.n) /\ Agrees(p.told, r.context)
Rows == {db[k] : k \in Keys} \ {None}
Shown == {Available(dashboards)[i] : i \in DOMAIN Available(dashboards)}

(* A row that is not dismissed is missing from a dashboard only for a      *)
(* reason: it is read, the dashboard asks for others, the initial file     *)
(* ignores it there or excluded it when it was polled (unread), or         *)
(* somebody pasted a snippet made of a row with the same repository,       *)
(* reason, type and title, here or globally.  The built-in dashboard shows *)
(* all of them.  A snippet never silences another notification.            *)
Explained(r, d) ==
  /\ d.name # NoFilters
  /\ \/ ~r.n.unread /\ ~d.include_read
     \/ ~Hits(d.match, r, now)
     \/ \E i \in DOMAIN Dashboards0 :
          /\ Dashboards0[i].name = d.name
          /\ \E c \in Dashboards0[i].ignore_rules : Hits(c, r, now)
     \/ ExcludedAtSomeTime(r, now)
     \/ \E p \in pasted : p.where \in {None, d.name} /\ Covers(p, r)
HiddenForAReason ==
  \A r \in Rows, d \in Shown : r.dismissed \/ Included(r, d, now) \/ Explained(r, d)

(* What a dashboard's ignore snippet was made for stays hidden there,      *)
(* whatever is polled, enriched, renamed or pasted afterwards.  The        *)
(* variant with predicates hides a row only while enrichment finds the     *)
(* same values.                                                            *)
PastedStaysHidden ==
  \A p \in pasted, r \in Rows, d \in Shown :
    p.where = d.name /\ Covers(p, r) => ~Included(r, d, now)

(* What is said of a view, made of rows read in some order.                *)
FaithfulView(rows, d) ==
  LET data     == DashboardData(rows, d, now)
      items(g) == data.groups[g].items
      shown    == UNION {{items(g)[i] : i \in DOMAIN items(g)} : g \in DOMAIN data.groups}
      eligible == {r \in Rows : Included(r, d, now)}
  IN  /\ shown \subseteq eligible
      /\ data.total_items = Cardinality(shown)
      /\ data.total_items =
           IF d.max_items = 0 \/ d.max_items > Cardinality(eligible)
           THEN Cardinality(eligible) ELSE d.max_items
      /\ \A r \in eligible \ shown, s \in shown : ~Ahead(r, s, d)
      /\ \A g \in DOMAIN data.groups : \A i, j \in DOMAIN items(g) :
           /\ i < j => ~Ahead(items(g)[j], items(g)[i], d)
           /\ d.group_by # "none" => GroupKey(items(g)[i], d) = data.groups[g].name
      /\ d.group_by # "none" =>
           /\ data.group_count = Cardinality({GroupKey(r, d) : r \in shown})
           /\ \A g \in DOMAIN data.groups : items(g) # <<>>
      /\ data.unread = Cardinality({r \in shown : r.n.unread})
      /\ data.unread + data.read = data.total_items

(* Whichever of two equal rows is read first, a dashboard shows each       *)
(* selected row at most once; nothing left out by max_items ranks above    *)
(* something shown; rows of one name form one group and keep their order;  *)
(* the totals agree.                                                       *)
ReadOrders ==
  {rows \in [1..Cardinality(Rows) -> Rows] : \A i, j \in DOMAIN rows : rows[i] = rows[j] => i = j}
ViewIsFaithful == \A rows \in ReadOrders, d \in Shown : FaithfulView(rows, d)

(* A global exclude of a running poller reaches a thread that is unread:   *)
(* every dashboard but the built-in one loses it, unless it is renamed or  *)
(* read first.                                                             *)
Silenced(n) ==
  \E p \in pasted :
    /\ p.where = None /\ p.told = Nothing /\ p.about = About(n)
    /\ [match |-> SnippetCriteria(n, Nothing, FALSE), exclude |-> TRUE]
         \in running.global
GoneFromFiltered(k) ==
  /\ db[k] # None
  /\ \A i \in DOMAIN Available(dashboards) :
       LET d == Available(dashboards)[i]
       IN  d.name = NoFilters \/ ~Included(db[k], d, now)
ExcludeArrives ==
  \A k \in Keys :
    (inbox[k] # None /\ Silenced(inbox[k]))
      ~> (inbox[k] = None \/ ~Silenced(inbox[k]) \/ GoneFromFiltered(k))

(* docs/spec.md: "Global rule exclusions are applied to every dashboard."  *)
(* Not so: a row read meanwhile is not polled, and keeps its old verdict   *)
(* in a dashboard that shows read rows.                                    *)
ExcludeReachesRows ==
  \A k \in Keys :
    (db[k] # None /\ Silenced(db[k].n))
      ~> (db[k] = None \/ ~Silenced(db[k].n) \/ GoneFromFiltered(k))

=============================================================================
