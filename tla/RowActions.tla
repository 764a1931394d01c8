----------------------------- MODULE RowActions -----------------------------
(***************************************************************************)
(* What a user does to the rows of one dashboard besides dismissing them:  *)
(* opening a thread or marking a whole group read (markRead.svelte.ts) and *)
(* asking for rules that ignore a row (ignoreRule.svelte.ts), over the     *)
(* rows that DismissStore shows and hides.  All of them work on the same   *)
(* snapshot, which may be replaced at any moment.                          *)
(***************************************************************************)
EXTENDS DismissStore

CONSTANTS
  GroupOf,    \* [Keys -> name of the group the row is shown in]
  None,       \* null
  MaxActions  \* bound on what the user does, dismissals included

ASSUME RowAssumption ==
  /\ None \notin Keys
  /\ DOMAIN GroupOf = Keys
  /\ MaxActions \in Nat

Groups == {GroupOf[k] : k \in Keys}

VARIABLES
  unread,  \* keys that are unread on the server
  marked,  \* keys shown as read
  marking, \* markingGroupNames
  batch,   \* [Groups -> keys whose call in the group's batch is unanswered]
  opened,  \* keys with an unanswered call of openTarget
  rule,    \* menu, dialogItem, snippets, loading and error of IgnoreRuleStore
  live,    \* the row the fetch that may still answer was sent for, or None
  stale,   \* rows with cancelled fetches that are still unanswered
  actions  \* what the user did so far, for the bound

readVars == <<unread, marking, batch, opened>>
ruleVars == <<rule, live, stale>>
rowVars == <<readVars, marked, ruleVars, actions>>

RowTypeOK ==
  /\ TypeOK
  /\ unread \subseteq Keys /\ marked \subseteq items
  /\ marking \subseteq Groups /\ batch \in [Groups -> SUBSET Keys] /\ opened \subseteq Keys
  /\ rule \in [menu : Keys \cup {None}, dialog : Keys \cup {None},
               snippets : Keys \cup {None}, loading : BOOLEAN, error : BOOLEAN]
  /\ live \in Keys \cup {None} /\ stale \subseteq Keys
  /\ actions \in 0..MaxActions

RowInit ==
  /\ Init
  /\ unread = Keys /\ marked = {}
  /\ marking = {} /\ batch = [g \in Groups |-> {}] /\ opened = {}
  /\ rule = [menu |-> None, dialog |-> None, snippets |-> None, loading |-> FALSE, error |-> FALSE]
  /\ live = None /\ stale = {}
  /\ actions = 0

Visible == items \ Hidden

Act == actions < MaxActions /\ actions' = actions + 1

-----------------------------------------------------------------------------
(* Marking read.                                                           *)

(* openTarget: the link of an unread row is opened, the thread is marked   *)
(* read.  A second call while the first is unanswered is not told apart.   *)
OpenTarget(k) ==
  /\ Act /\ k \in Visible \ (marked \cup opened)
  /\ opened' = opened \cup {k}
  /\ UNCHANGED <<vars, unread, marked, marking, batch, ruleVars>>

(* PATCH ... is answered; an error does not say that nothing was done.  A  *)
(* success asks for a refresh: Replace may follow.                         *)
Opened(k) ==
  /\ k \in opened
  /\ opened' = opened \ {k}
  /\ unread' \in {unread, unread \ {k}}
  /\ UNCHANGED <<vars, marked, marking, batch, ruleVars, actions>>

(* markGroupRead: one call for each unread row in sight; the button is     *)
(* disabled while the group is being marked.                               *)
MarkGroupRead(g) ==
  LET rows == {k \in Visible \ marked : GroupOf[k] = g}
  IN /\ Act /\ rows # {} /\ g \notin marking
     /\ marking' = marking \cup {g}
     /\ batch' = [batch EXCEPT ![g] = rows]
     /\ UNCHANGED <<vars, unread, marked, opened, ruleVars>>

(* A bug to exclude: the end of one batch ends the marking of every group. *)
Settled_ClearsAll(g, k) ==
  /\ k \in batch[g]
  /\ batch' = [batch EXCEPT ![g] = @ \ {k}]
  /\ unread' \in {unread, unread \ {k}}
  /\ marking' = IF batch'[g] = {} THEN {} ELSE marking
  /\ UNCHANGED <<vars, marked, opened, ruleVars, actions>>

(* One call of a batch is answered, well or badly; when the last one is,   *)
(* the group leaves the set as it is by then.                              *)
Settled(g, k) ==
  /\ k \in batch[g]
  /\ batch' = [batch EXCEPT ![g] = @ \ {k}]
  /\ unread' \in {unread, unread \ {k}}
  /\ marking' = IF batch'[g] = {} THEN marking \ {g} ELSE marking
  /\ UNCHANGED <<vars, marked, opened, ruleVars, actions>>

-----------------------------------------------------------------------------
(* The ignore-rule dialog.                                                 *)

(* The effect runs again: its clean-up cancels the fetch in flight, and an *)
(* open dialog starts another.                                             *)
Fetch(row) == live' = row /\ stale' = stale \cup ({live} \ {None})

(* What the effect does to the dialog.                                     *)
Loading(r) ==
  IF r.dialog = None THEN r ELSE [r EXCEPT !.loading = TRUE, !.error = FALSE, !.snippets = None]

RequestRule(k) ==
  /\ Act /\ k \in Visible
  /\ rule' = [rule EXCEPT !.menu = k]
  /\ UNCHANGED <<vars, readVars, marked, live, stale>>

(* A click elsewhere or Escape.                                            *)
CloseMenu ==
  /\ rule.menu # None
  /\ rule' = [rule EXCEPT !.menu = None]
  /\ UNCHANGED <<vars, readVars, marked, live, stale, actions>>

(* The rows are still within reach while the dialog is open.               *)
OpenDialog ==
  /\ rule.menu # None
  /\ rule' = Loading([rule EXCEPT !.dialog = rule.menu, !.menu = None])
  /\ Fetch(rule.menu)
  /\ UNCHANGED <<vars, readVars, marked, actions>>

CloseDialog ==
  /\ rule.dialog # None
  /\ rule' = [rule EXCEPT !.dialog = None, !.snippets = None, !.error = FALSE, !.loading = FALSE]
  /\ Fetch(None)
  /\ UNCHANGED <<vars, readVars, marked, actions>>

(* The fetch that was not cancelled brings the snippets or an error.       *)
Snippets ==
  /\ live # None
  /\ live' = None
  /\ \/ rule' = [rule EXCEPT !.snippets = live, !.loading = FALSE]
     \/ rule' = [rule EXCEPT !.error = TRUE, !.loading = FALSE]
  /\ UNCHANGED <<vars, readVars, marked, stale, actions>>

(* A bug to exclude: answers are taken without asking `cancelled`.         *)
Cancelled_Ignored(k) ==
  /\ k \in stale
  /\ stale' = stale \ {k}
  /\ rule' = [rule EXCEPT !.snippets = k, !.loading = FALSE]
  /\ UNCHANGED <<vars, readVars, marked, live, actions>>

(* A cancelled fetch is answered.                                          *)
Cancelled(k) ==
  /\ k \in stale
  /\ stale' = stale \ {k}
  /\ UNCHANGED <<vars, readVars, marked, rule, live, actions>>

-----------------------------------------------------------------------------
(* A snapshot is shown; one that was read too early takes for unread what  *)
(* was read since.  The dialog's effect reads currentDashboard, a getter   *)
(* over the snapshot, and so runs again.                                   *)
Replace(ch) ==
  /\ Show(ch)
  /\ marked' \in SUBSET (items' \ unread)
  /\ rule' = Loading(rule)
  /\ Fetch(rule.dialog)
  /\ UNCHANGED <<readVars, actions>>

RowUser ==
  \/ User /\ Act /\ UNCHANGED <<readVars, marked, ruleVars>>
  \/ \E k \in Keys : OpenTarget(k) \/ RequestRule(k)
  \/ \E g \in Groups : MarkGroupRead(g)
  \/ CloseMenu \/ OpenDialog \/ CloseDialog

Answers ==
  \/ \E k \in Keys : Opened(k) \/ Cancelled(k)
  \/ \E g \in Groups, k \in Keys : Settled(g, k)
  \/ Snippets

RowNext ==
  \/ RowUser \/ Answers
  \/ \E ch \in Channels : Replace(ch)
  \/ /\ \/ \E t \in timers : Fire(t)
        \/ \E c \in calls : Callback(c)
        \/ \E ch \in Channels : Read(ch)
     /\ UNCHANGED rowVars

RowSpec == RowInit /\ [][RowNext]_<<vars, rowVars>>

(* Timers fire and requests end, one way or another.                       *)
RowFairSpec ==
  /\ RowSpec
  /\ \A t \in Timer : WF_<<vars, rowVars>>(Fire(t) /\ UNCHANGED rowVars)
  /\ \A c \in Call : WF_<<vars, rowVars>>(Callback(c) /\ UNCHANGED rowVars)

-----------------------------------------------------------------------------
(* "Marking..." is shown for a group exactly while one of its calls is     *)
(* unanswered, whichever batches of other groups begin and end meanwhile.  *)
MarkingIsHonest == \A g \in Groups : g \in marking <=> batch[g] # {}

(* The rules offered are those of the row the dialog names: an answer to   *)
(* an earlier fetch never fills it, and as long as it has neither rules    *)
(* nor an error an answer is on its way, however often it is closed, is    *)
(* reopened or has its snapshot replaced.                                  *)
DialogIsOfRow ==
  /\ rule.snippets \in {None, rule.dialog}
  /\ rule.loading <=> live # None
  /\ live \in {None, rule.dialog}
  /\ rule.dialog # None => rule.loading \/ rule.error \/ rule.snippets # None
=============================================================================
