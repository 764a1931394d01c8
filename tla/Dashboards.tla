---------------------------- MODULE Dashboards ----------------------------
(***************************************************************************)
(* What a dashboard shows of the stored rows (dashboarding.py) and which   *)
(* dashboards there are (config/dashboards.py).  A row is shown when it is *)
(* selected and within the cap; selected rows are sorted, cut, grouped and *)
(* counted.  No variables here.                                            *)
(***************************************************************************)
EXTENDS Rules, Ranking, Sequences

CONSTANTS
  Keys,      \* notification keys: account_id and thread_id
  Names,     \* dashboard names a configuration may use
  NoFilters, \* the reserved name of the built-in dashboard
  Default    \* the name of the one used when none is configured

ASSUME DashboardsAssumption ==
  /\ NoFilters \notin Names \cup {Default}
  /\ None \notin Names \cup {NoFilters, Default}

Row == [key : Keys, n : Notification, score : Int,
        excluded : BOOLEAN, dismissed : BOOLEAN, context : Context]

GroupKeys == {"none", "repository", "reason", "subject_type", "another"}
SortKeys == {"score", "updated_at", "repository", "reason", "subject_type", "title"}
Dashboard ==
  [name : Names \cup {NoFilters, Default}, group_by : GroupKeys, sort_by : SortKeys,
   descending : BOOLEAN, include_read : BOOLEAN, max_items : Nat,
   match : Criteria, ignore_rules : SUBSET Criteria]

(* The dataclass defaults, which _parse_dashboards repeats.                *)
DashboardNamed(name) ==
  [name |-> name, group_by |-> "none", sort_by |-> "score", descending |-> TRUE,
   include_read |-> FALSE, max_items |-> 100, match |-> AnyNotification,
   ignore_rules |-> {}]
DefaultDashboard == [DashboardNamed(Default) EXCEPT !.group_by = "repository"]
NoFiltersDashboard ==
  [DashboardNamed(NoFilters) EXCEPT !.group_by = "repository",
                                    !.include_read = TRUE, !.max_items = 0]

(* available_dashboards: a configuration cannot hold the reserved name.    *)
Available(dashboards) ==
  (IF dashboards = <<>> THEN <<DefaultDashboard>> ELSE dashboards)
    \o <<NoFiltersDashboard>>

(* _select_dashboard: the first one of a name, None for a 404.             *)
Select(dashboards, name) ==
  LET all   == Available(dashboards)
      named == {i \in DOMAIN all : name = None \/ all[i].name = name}
  IN  IF named = {} THEN None ELSE all[CHOOSE i \in named : \A j \in named : i <= j]

-----------------------------------------------------------------------------
Hits(c, r, now) == Matches(c, r.n, r.score, now, r.context)

(* A bug to exclude: a row is ignored when every ignore rule matches it.  *)
Included_AllIgnores(r, d, now) ==
  /\ ~r.dismissed
  /\ \/ d.name = NoFilters
     \/ /\ ~r.excluded
        /\ d.include_read \/ r.n.unread
        /\ Hits(d.match, r, now)
        /\ d.ignore_rules = {} \/ \E c \in d.ignore_rules : ~Hits(c, r, now)

(* _included_by_dashboard.                                                 *)
Included(r, d, now) ==
  /\ ~r.dismissed
  /\ \/ d.name = NoFilters
     \/ /\ ~r.excluded
        /\ d.include_read \/ r.n.unread
        /\ Hits(d.match, r, now)
        /\ ~\E c \in d.ignore_rules : Hits(c, r, now)

SortKey(r, d) ==
  CASE d.sort_by = "updated_at"   -> r.n.updated_at
    [] d.sort_by = "repository"   -> r.n.repository
    [] d.sort_by = "reason"       -> r.n.reason
    [] d.sort_by = "subject_type" -> r.n.subject_type
    [] d.sort_by = "title"        -> r.n.title
    [] OTHER                      -> r.score
Ahead(r, s, d) == IF d.descending THEN SortKey(r, d) > SortKey(s, d)
                                  ELSE SortKey(r, d) < SortKey(s, d)

(* The places of some rows in their order: Python's sort is stable, with   *)
(* reverse = True too.                                                     *)
Before(rows, d) ==
  {q \in (DOMAIN rows) \X (DOMAIN rows) :
     \/ Ahead(rows[q[1]], rows[q[2]], d)
     \/ ~Ahead(rows[q[2]], rows[q[1]], d) /\ q[1] < q[2]}

Cut(places, d) ==
  IF d.max_items = 0 \/ d.max_items >= Len(places) THEN places
  ELSE SubSeq(places, 1, d.max_items)

Selected(rows, d, now) == {i \in DOMAIN rows : Included(rows[i], d, now)}
RowsAt(rows, places) == [p \in DOMAIN places |-> rows[places[p]]]

(* A bug to exclude: the rows are cut before they are sorted.              *)
Chosen_CutFirst(rows, d, now) ==
  LET first == Cut(InOrder(Selected(rows, d, now)), d)
  IN  RowsAt(rows, Ranked({first[p] : p \in DOMAIN first}, Before(rows, d)))

(* build_dashboard_data up to max_items.                                   *)
Chosen(rows, d, now) ==
  RowsAt(rows, Cut(Ranked(Selected(rows, d, now), Before(rows, d)), d))

GroupKey(r, d) ==
  CASE d.group_by = "repository"   -> r.n.repository
    [] d.group_by = "reason"       -> r.n.reason
    [] d.group_by = "subject_type" -> r.n.subject_type
    [] OTHER                       -> 0

(* _group_records: a dict, so groups are in the order their names turn up. *)
(* Ungrouped, there is one group even for no rows.                         *)
Members(rows, d, key) == InOrder({i \in DOMAIN rows : GroupKey(rows[i], d) = key})
Leaders(rows, d) ==
  InOrder({i \in DOMAIN rows : \A j \in 1..(i - 1) : GroupKey(rows[j], d) # GroupKey(rows[i], d)})
Groups(rows, d) ==
  IF d.group_by = "none" THEN <<[name |-> 0, items |-> rows]>>
  ELSE LET lead   == Leaders(rows, d)
           key(g) == GroupKey(rows[lead[g]], d)
       IN  [g \in DOMAIN lead |->
              [name |-> key(g), items |-> RowsAt(rows, Members(rows, d, key(g)))]]

(* sum(len(group.items) for group in groups)                               *)
ItemCount(groups) ==
  LET sum[g \in 0..Len(groups)] ==
        IF g = 0 THEN 0 ELSE sum[g - 1] + Len(groups[g].items)
  IN  sum[Len(groups)]

(* DashboardData, with the summary's counts.                               *)
DashboardData(rows, d, now) ==
  LET chosen == Chosen(rows, d, now)
      groups == Groups(chosen, d)
      unread == Cardinality({i \in DOMAIN chosen : chosen[i].n.unread})
  IN  [name        |-> d.name,
       groups      |-> groups,
       total_items |-> ItemCount(groups),
       unread      |-> unread,
       read        |-> Len(chosen) - unread,
       group_count |-> Len(groups),
       repositories |-> Cardinality({chosen[i].n.repository : i \in DOMAIN chosen}),
       reasons     |-> Cardinality({chosen[i].n.reason : i \in DOMAIN chosen})]
=============================================================================
