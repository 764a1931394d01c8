------------------------------ MODULE Records ------------------------------
(***************************************************************************)
(* The data of corvix and the functions the poll cycle computes on it:     *)
(* what GitHub lists, what a stored row keeps, how a rule's actions turn a *)
(* fetched notification into a record (actions.py, services.py), how a     *)
(* record is merged into the table (storage.py) and which records are      *)
(* announced (notifications/detector.py).  No variables here.              *)
(***************************************************************************)
EXTENDS Naturals

CONSTANTS
  Keys,        \* notification keys: account_id and thread_id
  Accounts,    \* GitHub account ids a configuration may name
  AccountOf,   \* the account of a key
  NoRow,       \* "no such row", "not fetched"
  IncludeRead  \* notifications.detect.include_read

ActionTypes == {"mark_read", "dismiss"}

(* A bug to exclude: a dry-run entry under a name nobody knows.            *)
DryRun_Misnamed == [a \in ActionTypes |-> "dry-run"]

(* The name under which an action that was not applied is recorded.        *)
DryRun == [a \in ActionTypes |->
             IF a = "dismiss" THEN "dry-run:dismiss" ELSE "dry-run:mark_read"]
ActionNames == ActionTypes \cup {"dry-run:mark_read", "dry-run:dismiss"}

(* A GitHub call that changes a thread answers, fails with no effect, or   *)
(* takes effect while its answer is lost (a timeout after the request).    *)
Replies == {"ok", "fail", "lost"}

(* A thread at GitHub.  ver counts its activity: it grows each time the    *)
(* thread becomes unread, which is what updated_at tells apart.            *)
Thread == [listed : BOOLEAN, unread : BOOLEAN, ver : Nat]

(* A fetched notification, and a row of notification_records.  loud is     *)
(* "score >= detect.min_score".                                            *)
Notification == [unread : BOOLEAN, ver : Nat]
Row == [unread : BOOLEAN, ver : Nat, excluded : BOOLEAN, loud : BOOLEAN,
        dismissed : BOOLEAN, taken : SUBSET ActionNames]

(* What scoring and the rules decide for one notification.                 *)
Outcome == [actions : SUBSET ActionTypes, excluded : BOOLEAN, loud : BOOLEAN]

ASSUME ConstantsAssumption ==
  /\ AccountOf \in [Keys -> Accounts]
  /\ NoRow \notin Row
  /\ NoRow \notin Notification
  /\ IncludeRead \in BOOLEAN

-----------------------------------------------------------------------------
(* execute_actions: types are deduplicated, so a rule list is a set.       *)
(* mark_read is skipped for a notification that is already read; the       *)
(* record handed to the dismiss handler is never dismissed yet.            *)
Attempted(n, actions) == {a \in actions : a = "mark_read" => n.unread}

(* The attempted actions that reach GitHub's state.                        *)
Applied(n, actions, apply, reply) ==
  {a \in Attempted(n, actions) : apply /\ reply[a] # "fail"}

(* A bug to exclude: an action counts as taken although its call failed.   *)
Taken_Unchecked(n, actions, apply, reply) ==
  IF apply THEN Attempted(n, actions)
           ELSE {DryRun[a] : a \in Attempted(n, actions)}

(* The names recorded in actions_taken.                                    *)
Taken(n, actions, apply, reply) ==
  IF apply THEN {a \in Attempted(n, actions) : reply[a] = "ok"}
           ELSE {DryRun[a] : a \in Attempted(n, actions)}

(* GitHub's side of a set of successful PATCH and DELETE calls.            *)
AfterCalls(thread, applied) ==
  [thread EXCEPT !.listed = @ /\ "dismiss" \notin applied,
                 !.unread = @ /\ applied = {}]

(* A bug to exclude: a dry-run mark_read turns the record read.            *)
MakeRecord_DryReads(n, outcome, taken) ==
  [unread |-> n.unread /\ taken = {}, ver |-> n.ver,
   excluded |-> outcome.excluded, loud |-> outcome.loud,
   dismissed |-> "dismiss" \in taken, taken |-> taken]

(* The record _process_notifications builds for one notification.          *)
MakeRecord(n, outcome, taken) ==
  [unread    |-> n.unread /\ "mark_read" \notin taken,
   ver       |-> n.ver,
   excluded  |-> outcome.excluded,
   loud      |-> outcome.loud,
   dismissed |-> "dismiss" \in taken,
   taken     |-> taken]

(* Bugs to exclude: the conflict clause replaces the whole row, replaces   *)
(* nothing, or protects the stored unread flag.                            *)
Upsert_All(old, record) == IF record = NoRow THEN old ELSE record
Upsert_Nothing(old, record) == IF old = NoRow THEN record ELSE old
Upsert_KeepsUnread(old, record) ==
  CASE record = NoRow -> old
    [] record # NoRow /\ old = NoRow -> record
    [] OTHER -> [record EXCEPT !.dismissed = old.dismissed, !.unread = old.unread]

(* INSERT ... ON CONFLICT DO UPDATE: everything but dismissed is replaced. *)
Upsert(old, record) ==
  CASE record = NoRow -> old
    [] record # NoRow /\ old = NoRow -> record
    [] OTHER -> [record EXCEPT !.dismissed = old.dismissed]

(* A bug to exclude: every unread record of the cycle is announced.        *)
Announced_Always(prev, record) ==
  /\ record # NoRow
  /\ IncludeRead \/ record.unread
  /\ ~record.excluded /\ ~record.dismissed /\ record.loud

(* detect_new_unread_events for one key.                                   *)
Announced(prev, record) ==
  /\ record # NoRow
  /\ IncludeRead \/ record.unread
  /\ ~record.excluded /\ ~record.dismissed
  /\ record.loud
  /\ prev = NoRow \/ ~prev.unread
=============================================================================
