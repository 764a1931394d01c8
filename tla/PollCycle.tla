----------------------------- MODULE PollCycle -----------------------------
(***************************************************************************)
(* The poller daemon (services.py), the web dismiss and mark-read handlers *)
(* (web/actions.py), the PostgreSQL table they share (storage.py) and the  *)
(* GitHub inboxes both of them call.  A poll cycle is not atomic: every    *)
(* read, GitHub call and transaction of it is a step, and requests,        *)
(* activity at GitHub, failures and restarts fall between any two of them. *)
(***************************************************************************)
EXTENDS Records, FiniteSets

CONSTANTS
  Configs,       \* configurations the poller may be started with
  Outcomes,      \* what scoring and the rules may decide
  PollAll,       \* polling.all: read notifications are fetched too
  NotifyEnabled, \* notifications.enabled, with a target
  MaxActivity,   \* bound on inbox[k].ver
  MaxFaults,     \* bound on faults
  MaxRequests    \* bound on concurrent web requests

Config == [accounts : (SUBSET Accounts) \ {{}}, apply : BOOLEAN]

ASSUME PollAssumption ==
  /\ Configs \subseteq Config
  /\ Configs # {}
  /\ Outcomes \subseteq Outcome
  /\ PollAll \in BOOLEAN
  /\ NotifyEnabled \in BOOLEAN
  /\ MaxActivity \in Nat
  /\ MaxFaults \in Nat
  /\ MaxRequests \in Nat

VARIABLES
  inbox,    \* GitHub: [Keys -> Thread]
  db,       \* notification_records: [Keys -> Row \cup {NoRow}]
  status,   \* poller_status: state and account_errors
  cfg,      \* the running poller's configuration, read once at its start
  pc,       \* where the running cycle is
  toFetch,  \* accounts the cycle has not fetched yet
  failed,   \* accounts whose fetch raised in this cycle
  prev,     \* previous_records, as loaded at the start of the cycle
  batch,    \* fetched notifications not processed yet
  records,  \* records processed so far
  inflight, \* web requests between GitHub's answer and the table update
  faults    \* failures so far, for the bound

VARIABLES   \* history, read by the properties only
  told,     \* <<key, ver>> announced for the rows now stored
  dup,      \* keys announced twice for one ver
  late,     \* keys whose row a mark-read older than the row made read
  deleted,  \* keys for which GitHub acknowledged a DELETE
  owed,     \* <<key, ver>> the last save made news, not handed to the target
  readSince \* keys whose row a mark-read turned read between prev and the save

cycleVars == <<pc, toFetch, failed, prev, batch, records>>
ghosts == <<told, dup, late, deleted, owed, readSince>>
vars == <<inbox, db, status, cfg, cycleVars, inflight, faults, ghosts>>

NoneOf == [k \in Keys |-> NoRow]
KeysOf(a) == {k \in Keys : AccountOf[k] = a}
Request == [kind : ActionTypes, key : Keys, ver : Nat]
States == {"idle", "fetch", "process", "prune", "status", "dispatch"}
Status == [state : {"unknown", "ok", "error"}, failed : SUBSET Accounts]

TypeOK ==
  /\ inbox \in [Keys -> Thread]
  /\ db \in [Keys -> Row \cup {NoRow}]
  /\ status \in Status
  /\ cfg \in Configs
  /\ pc \in States
  /\ toFetch \subseteq Accounts
  /\ failed \subseteq Accounts
  /\ prev \in [Keys -> Row \cup {NoRow}]
  /\ batch \in [Keys -> Notification \cup {NoRow}]
  /\ records \in [Keys -> Row \cup {NoRow}]
  /\ inflight \subseteq Request
  /\ faults \in Nat
  /\ told \subseteq Keys \X Nat
  /\ dup \subseteq Keys
  /\ late \subseteq Keys
  /\ deleted \subseteq Keys
  /\ owed \subseteq Keys \X Nat
  /\ readSince \subseteq Keys

Init ==
  /\ inbox = [k \in Keys |-> [listed |-> FALSE, unread |-> FALSE, ver |-> 0]]
  /\ db = NoneOf
  /\ status = [state |-> "unknown", failed |-> {}]
  /\ cfg \in Configs
  /\ pc = "idle"
  /\ toFetch = {} /\ failed = {}
  /\ prev = NoneOf /\ batch = NoneOf /\ records = NoneOf
  /\ inflight = {} /\ faults = 0
  /\ told = {} /\ dup = {} /\ late = {} /\ deleted = {}
  /\ owed = {} /\ readSince = {}

-----------------------------------------------------------------------------
(* The poller.                                                             *)

EndCycle ==
  /\ pc' = "idle"
  /\ toFetch' = {} /\ failed' = {}
  /\ prev' = NoneOf /\ batch' = NoneOf /\ records' = NoneOf
  /\ owed' = {} /\ readSince' = {}

(* _resolve_active_clients, then _load_previous_records: the snapshot is   *)
(* read before anything is fetched.                                        *)
StartCycle ==
  /\ pc = "idle"
  /\ pc' = "fetch"
  /\ toFetch' = cfg.accounts
  /\ prev' = IF NotifyEnabled THEN db ELSE NoneOf
  /\ UNCHANGED <<inbox, db, status, cfg, failed, batch, records, inflight,
                 faults, ghosts>>

AfterFetch(a) ==
  /\ pc = "fetch" /\ a \in toFetch
  /\ toFetch' = toFetch \ {a}
  /\ pc' = IF toFetch' = {} THEN "process" ELSE "fetch"

Listed(k) == inbox[k].listed /\ (PollAll \/ inbox[k].unread)

(* One client of _fetch_notifications answers.                             *)
FetchAccount(a) ==
  /\ AfterFetch(a)
  /\ batch' = [k \in Keys |->
                 IF k \in KeysOf(a) /\ Listed(k)
                 THEN [unread |-> inbox[k].unread, ver |-> inbox[k].ver]
                 ELSE batch[k]]
  /\ UNCHANGED <<inbox, db, status, cfg, failed, prev, records, inflight,
                 faults, ghosts>>

(* It raises: the account is reported and skipped as a whole.              *)
FetchFails(a) ==
  /\ faults < MaxFaults
  /\ AfterFetch(a)
  /\ failed' = failed \cup {a}
  /\ faults' = faults + 1
  /\ UNCHANGED <<inbox, db, status, cfg, prev, batch, records, inflight, ghosts>>

(* One iteration of _process_notifications: rules, then execute_actions.   *)
Process(k, outcome, reply) ==
  LET n       == batch[k]
      tried   == Attempted(n, outcome.actions)
      applied == Applied(n, outcome.actions, cfg.apply, reply)
      taken   == Taken(n, outcome.actions, cfg.apply, reply)
      acked   == {a \in tried : cfg.apply /\ reply[a] = "ok"}
      bad     == {a \in tried : cfg.apply} \ acked
  IN
  /\ pc = "process" /\ n # NoRow
  /\ faults' = IF bad = {} THEN faults ELSE faults + 1
  /\ faults' <= MaxFaults
  /\ inbox' = [inbox EXCEPT ![k] = AfterCalls(@, applied)]
  /\ records' = [records EXCEPT ![k] = MakeRecord(n, outcome, taken)]
  /\ batch' = [batch EXCEPT ![k] = NoRow]
  /\ deleted' = IF "dismiss" \in acked THEN deleted \cup {k} ELSE deleted
  /\ UNCHANGED <<db, status, cfg, pc, toFetch, failed, prev, inflight,
                 told, dup, late, owed, readSince>>

(* History: the save lets a row appear, or turns a read one unread, that   *)
(* scoring and the rules leave loud and in sight.                          *)
MadeNews(k) ==
  /\ NotifyEnabled
  /\ records[k] # NoRow /\ ~records[k].dismissed
  /\ db[k] = NoRow \/ ~db[k].unread
  /\ db'[k].unread /\ db'[k].loud /\ ~db'[k].excluded

(* A bug to exclude: the previous records are loaded when the new ones are *)
(* stored already.                                                         *)
SaveRecords_LoadsAfter ==
  /\ pc = "process" /\ batch = NoneOf
  /\ pc' = "prune"
  /\ db' = [k \in Keys |-> Upsert(db[k], records[k])]
  /\ prev' = db'
  /\ owed' = {<<k, records[k].ver>> : k \in {j \in Keys \ readSince : MadeNews(j)}}
  /\ readSince' = {}
  /\ UNCHANGED <<inbox, status, cfg, toFetch, failed, batch, records,
                 inflight, faults, told, dup, late, deleted>>

(* save_records: one transaction for the whole batch.                      *)
SaveRecords ==
  /\ pc = "process" /\ batch = NoneOf
  /\ pc' = "prune"
  /\ db' = [k \in Keys |-> Upsert(db[k], records[k])]
  /\ owed' = {<<k, records[k].ver>> : k \in {j \in Keys \ readSince : MadeNews(j)}}
  /\ readSince' = {}
  /\ UNCHANGED <<inbox, status, cfg, toFetch, failed, prev, batch, records,
                 inflight, faults, told, dup, late, deleted>>

(* A bug to exclude: accounts that failed to answer count as removed.      *)
Orphans_Failed == {k \in Keys : AccountOf[k] \notin cfg.accounts \ failed}

(* _prune_orphaned_records: by configured accounts, not by fetched ones.   *)
Orphans == {k \in Keys : AccountOf[k] \notin cfg.accounts}
Prune ==
  /\ pc = "prune"
  /\ pc' = "status"
  /\ db' = [k \in Keys |-> IF k \in Orphans THEN NoRow ELSE db[k]]
  /\ told' = {t \in told : t[1] \notin Orphans}
  /\ UNCHANGED <<inbox, status, cfg, toFetch, failed, prev, batch, records,
                 inflight, faults, dup, late, deleted, owed, readSince>>

SaveStatus ==
  /\ pc = "status"
  /\ pc' = "dispatch"
  /\ status' = [state |-> "ok", failed |-> failed]
  /\ UNCHANGED <<inbox, db, cfg, toFetch, failed, prev, batch, records,
                 inflight, faults, ghosts>>

(* _dispatch_notification_events: the snapshots are compared and the       *)
(* target is called.                                                       *)
Events == IF NotifyEnabled THEN {k \in Keys : Announced(prev[k], records[k])} ELSE {}

(* SlackTarget.deliver: one POST per event; a failed one is caught and the *)
(* next event tried.  Nobody retries.                                      *)
Deliveries == SUBSET Events
Dispatch ==
  /\ pc = "dispatch"
  /\ \E delivered \in Deliveries :
       /\ told' = told \cup {<<k, records[k].ver>> : k \in delivered}
       /\ dup' = dup \cup {k \in delivered : <<k, records[k].ver>> \in told}
  /\ EndCycle
  /\ UNCHANGED <<inbox, db, status, cfg, inflight, faults, late, deleted>>

(* A database call of the cycle raises: load_records, which only an        *)
(* enabled notifier makes, save_records, the pruning or save_status.       *)
(* run_watch_loop records the error, if the database lets it, and goes on. *)
CycleFails ==
  /\ \/ pc = "idle" /\ NotifyEnabled
     \/ pc = "process" /\ batch = NoneOf
     \/ pc \in {"prune", "status"}
  /\ faults < MaxFaults
  /\ faults' = faults + 1
  /\ status' \in {status, [status EXCEPT !.state = "error"]}
  /\ EndCycle
  /\ UNCHANGED <<inbox, db, cfg, inflight, told, dup, late, deleted>>

(* The process dies at any point and is restarted, maybe reconfigured.     *)
Restart ==
  /\ faults < MaxFaults
  /\ faults' = faults + 1
  /\ cfg' \in Configs
  /\ EndCycle
  /\ UNCHANGED <<inbox, db, status, inflight, told, dup, late, deleted>>

-----------------------------------------------------------------------------
(* The web handlers _dismiss_notification_impl and                         *)
(* _mark_notification_read_impl: GitHub first, then the table.             *)

(* The web process reloads its configuration by itself, so it may be on    *)
(* any of them; an unknown account is answered 404.                        *)
Resolvable(k) == \E c \in Configs : AccountOf[k] \in c.accounts

(* A call that fails is answered 502 and changes nothing; one whose answer *)
(* is lost is answered 502 too, but GitHub has changed.                    *)
WebCall(kind, k, reply) ==
  /\ Resolvable(k)
  /\ Cardinality(inflight) < MaxRequests
  /\ inbox' = [inbox EXCEPT ![k] = AfterCalls(@, {kind})]
  /\ IF reply = "ok"
     THEN /\ inflight' = inflight \cup
                           {[kind |-> kind, key |-> k, ver |-> inbox[k].ver]}
          /\ deleted' = IF kind = "dismiss" THEN deleted \cup {k} ELSE deleted
          /\ UNCHANGED faults
     ELSE /\ faults < MaxFaults
          /\ faults' = faults + 1
          /\ UNCHANGED <<inflight, deleted>>
  /\ UNCHANGED <<db, status, cfg, cycleVars, told, dup, late, owed, readSince>>

(* A bug to exclude: mark-read writes the whole row back.                  *)
UpdateRow_Resets(row, kind) ==
  CASE row = NoRow -> row
    [] row # NoRow /\ kind = "dismiss" -> [row EXCEPT !.dismissed = TRUE]
    [] OTHER -> [row EXCEPT !.unread = FALSE, !.dismissed = FALSE]

(* dismiss_record / mark_record_read: an UPDATE that may match no row.     *)
UpdateRow(row, kind) ==
  CASE row = NoRow -> row
    [] row # NoRow /\ kind = "dismiss" -> [row EXCEPT !.dismissed = TRUE]
    [] OTHER -> [row EXCEPT !.unread = FALSE]

OutranByRow(r) ==
  r.kind = "mark_read" /\ db[r.key] # NoRow /\ r.ver < db[r.key].ver

(* History: the mark-read turns a row read that was unread.                *)
TurnsRead(r) == r.kind = "mark_read" /\ db[r.key] # NoRow /\ db[r.key].unread

WebStore(r) ==
  /\ r \in inflight
  /\ inflight' = inflight \ {r}
  /\ db' = [db EXCEPT ![r.key] = UpdateRow(@, r.kind)]
  /\ late' = IF OutranByRow(r) THEN late \cup {r.key} ELSE late
  /\ readSince' = IF pc \in {"fetch", "process"} /\ TurnsRead(r)
                  THEN readSince \cup {r.key} ELSE readSince
  /\ UNCHANGED <<inbox, status, cfg, cycleVars, faults, told, dup, deleted, owed>>

(* The storage call raises: 500, and GitHub has changed all the same.      *)
WebStoreFails(r) ==
  /\ faults < MaxFaults
  /\ r \in inflight
  /\ inflight' = inflight \ {r}
  /\ faults' = faults + 1
  /\ UNCHANGED <<inbox, db, status, cfg, cycleVars, ghosts>>

-----------------------------------------------------------------------------
(* GitHub and the user's other clients.                                    *)

NewActivity(k) ==
  /\ inbox[k].ver < MaxActivity
  /\ inbox' = [inbox EXCEPT ![k] = [listed |-> TRUE, unread |-> TRUE, ver |-> @.ver + 1]]
  /\ UNCHANGED <<db, status, cfg, cycleVars, inflight, faults, ghosts>>

TouchedElsewhere(k, kind) ==
  /\ inbox' = [inbox EXCEPT ![k] = AfterCalls(@, {kind})]
  /\ UNCHANGED <<db, status, cfg, cycleVars, inflight, faults, ghosts>>

-----------------------------------------------------------------------------
ProcessSome ==
  \E k \in Keys, outcome \in Outcomes, reply \in [ActionTypes -> Replies] :
    Process(k, outcome, reply)

Poller ==
  \/ StartCycle
  \/ \E a \in Accounts : FetchAccount(a)
  \/ ProcessSome
  \/ SaveRecords \/ Prune \/ SaveStatus \/ Dispatch

Faults ==
  \/ \E a \in Accounts : FetchFails(a)
  \/ CycleFails
  \/ Restart
  \/ \E r \in inflight : WebStoreFails(r)

Web ==
  \/ \E kind \in ActionTypes, k \in Keys, reply \in {"ok", "lost"} : WebCall(kind, k, reply)
  \/ \E r \in inflight : WebStore(r)

GitHub ==
  \/ \E k \in Keys : NewActivity(k)
  \/ \E k \in Keys, kind \in ActionTypes : TouchedElsewhere(k, kind)

Next == Poller \/ Faults \/ Web \/ GitHub

Spec == Init /\ [][Next]_vars

(* run_watch_loop goes on for as long as the process runs; nothing is      *)
(* assumed of GitHub, of the user or of the web requests.                  *)
FairSpec == Spec /\ WF_vars(Poller)

-----------------------------------------------------------------------------
Stored(k) == db[k] # NoRow

(* Once a row is dismissed no poll, retry, late answer or restart shows it *)
(* again: it stays dismissed for as long as its account is configured      *)
(* (storage.py, "Preserves dismissed flag on conflict").                   *)
DismissedStays ==
  [][\A k \in Keys :
       Stored(k) /\ db[k].dismissed =>
         IF db'[k] = NoRow THEN AccountOf[k] \notin cfg.accounts
                           ELSE db'[k].dismissed]_vars

(* A row disappears only with its account: a failed fetch, which leaves    *)
(* the account configured, never deletes one (services.py,                 *)
(* _prune_orphaned_records).                                               *)
RowsOutliveFailures ==
  [][\A k \in Keys : Stored(k) /\ db'[k] = NoRow => AccountOf[k] \notin cfg.accounts]_vars

(* A row is hidden only after GitHub acknowledged that the thread is done: *)
(* a failed, lost or dry-run dismissal never hides one.                    *)
HiddenOnlyAfterDelete ==
  \A k \in Keys : Stored(k) /\ db[k].dismissed => k \in deleted

(* A row that shows the thread's latest activity as read is right, unless  *)
(* a mark-read that was answered before that activity was stored after it. *)
ReadRowIsRead ==
  \A k \in Keys :
    Stored(k) /\ ~db[k].unread /\ db[k].ver = inbox[k].ver /\ k \notin late
      => ~inbox[k].unread

(* Whatever was announced is in the table, at that activity or a later one *)
(* (save_records commits before anything is dispatched).                   *)
AnnouncedIsStored ==
  \A t \in told : Stored(t[1]) /\ t[2] <= db[t[1]].ver

(* The same activity is announced twice only if such a late mark-read      *)
(* made its row look read in between.                                      *)
RepeatsOnlyAfterLateMark == dup \subseteq late

(* Nothing swallows news: what the save has made news, whatever requests   *)
(* and activity came before, between and after the cycle's own reads, is   *)
(* among the events when the cycle comes to its dispatch, unless the row   *)
(* was marked read between the two snapshots (detector.py, "Detect         *)
(* notification events by comparing previous and current snapshots").      *)
NewsIsAnnounced == pc = "dispatch" => owed \subseteq {<<k, records[k].ver>> : k \in Events}

(* What is not promised: a cycle that dies or fails between its save and   *)
(* its dispatch takes its events with it.                                  *)
NoNewsIsLost == [][pc' = "idle" /\ pc # "dispatch" => owed = {}]_vars

(* What the detector says it compares (detector.py, "existed but was       *)
(* unread=False (read -> unread transition, rare but possible)"): a thread *)
(* that is stored is announced only if it is unread again.                 *)
AnnouncedTurnedUnread ==
  [][\A t \in told' \ told : prev[t[1]] # NoRow => records[t[1]].unread]_vars

(* "It is not excluded from dashboards and not dismissed" (detector.py):   *)
(* a thread the user dismissed before the cycle began is not announced.    *)
DismissedIsSilent ==
  [][\A t \in told' \ told : prev[t[1]] # NoRow => ~prev[t[1]].dismissed]_vars

(* "In apply mode: call gateway.dismiss_thread(thread_id), set dismissed = *)
(* True" (docs/spec.md, 11.4): a row that records the action is hidden.    *)
DismissActionHides ==
  \A k \in Keys : Stored(k) /\ "dismiss" \in db[k].taken => db[k].dismissed

(* With polling.all, rows and GitHub agree in the end on every thread      *)
(* GitHub lists, whatever requests and failures were in the way.           *)
Agrees(k) ==
  inbox[k].listed /\ AccountOf[k] \in cfg.accounts =>
    Stored(k) /\ db[k].ver = inbox[k].ver /\ db[k].unread = inbox[k].unread
Converges == <>[](\A k \in Keys : Agrees(k))

(* The abstract view of a row, and the contract it obeys: rows appear by   *)
(* polls, hidden is final, rows and their announcements go only with their *)
(* account, and nothing absent is announced.                               *)
View == [k \in Keys |-> IF db[k] = NoRow THEN "absent"
                        ELSE IF db[k].dismissed THEN "hidden" ELSE "shown"]
Contract == INSTANCE DashboardContract WITH view <- View, announced <- told
KeepsContract == Contract!Spec

-----------------------------------------------------------------------------
(* The inductive invariant behind the safety properties.                   *)

(* Nothing anybody holds is newer than GitHub.                             *)
Behind ==
  /\ \A k \in Keys :
       /\ db[k] # NoRow => db[k].ver <= inbox[k].ver
       /\ prev[k] # NoRow => prev[k].ver <= inbox[k].ver
       /\ batch[k] # NoRow => batch[k].ver <= inbox[k].ver
       /\ records[k] # NoRow => records[k].ver <= inbox[k].ver
  /\ \A r \in inflight : r.ver <= inbox[r.key].ver

(* Whoever holds "read" for GitHub's latest activity is right about it.    *)
ReadsAreTrue ==
  /\ ReadRowIsRead
  /\ \A k \in Keys :
       /\ prev[k] # NoRow /\ ~prev[k].unread /\ prev[k].ver = inbox[k].ver
            /\ k \notin late => ~inbox[k].unread
       /\ batch[k] # NoRow /\ ~batch[k].unread /\ batch[k].ver = inbox[k].ver
            => ~inbox[k].unread
       /\ records[k] # NoRow /\ ~records[k].unread /\ records[k].ver = inbox[k].ver
            => ~inbox[k].unread
  /\ \A r \in inflight :
       r.kind = "mark_read" /\ r.ver = inbox[r.key].ver => ~inbox[r.key].unread

(* What the cycle is about to save is of its own accounts and not older    *)
(* than the table; once saved it stays there until the cycle ends.         *)
CycleIsFresh ==
  /\ toFetch \subseteq cfg.accounts
  /\ pc = "idle" => batch = NoneOf /\ records = NoneOf
  /\ \A k \in Keys :
       /\ batch[k] # NoRow =>
            AccountOf[k] \in cfg.accounts /\ (db[k] # NoRow => db[k].ver <= batch[k].ver)
       /\ records[k] # NoRow =>
            /\ AccountOf[k] \in cfg.accounts
            /\ IF pc \in {"fetch", "process"}
               THEN db[k] # NoRow => db[k].ver <= records[k].ver
               ELSE db[k] # NoRow /\ records[k].ver <= db[k].ver

(* A thread read in the previous snapshot and unread now has new activity. *)
UnreadIsNews ==
  \A k \in Keys :
    prev[k] # NoRow /\ ~prev[k].unread /\ k \notin late =>
      /\ batch[k] # NoRow /\ batch[k].unread => prev[k].ver < batch[k].ver
      /\ records[k] # NoRow /\ records[k].unread => prev[k].ver < records[k].ver

(* Earlier announcements are in the previous snapshot.                     *)
ToldIsKnown ==
  /\ AnnouncedIsStored
  /\ ~NotifyEnabled => told = {}
  /\ pc # "idle" =>
       \A t \in told : prev[t[1]] # NoRow /\ t[2] <= prev[t[1]].ver

(* Every dismissal on its way to the table was acknowledged.               *)
HiddenWasDeleted ==
  /\ HiddenOnlyAfterDelete
  /\ \A k \in Keys : records[k] # NoRow /\ records[k].dismissed => k \in deleted
  /\ \A r \in inflight : r.kind = "dismiss" => r.key \in deleted

(* Until the cycle saves, a row that was unread in the previous snapshot   *)
(* still is, unless a request read it; after that, what is owed is among   *)
(* the events.                                                             *)
NewsIsKept ==
  /\ NotifyEnabled /\ pc \in {"fetch", "process"} =>
       \A k \in Keys \ readSince :
         prev[k] # NoRow /\ prev[k].unread => db[k] # NoRow /\ db[k].unread
  /\ pc \in {"prune", "status", "dispatch"} =>
       owed \subseteq {<<k, records[k].ver>> : k \in Events}

IInv ==
  /\ TypeOK /\ Behind /\ ReadsAreTrue /\ CycleIsFresh /\ UnreadIsNews
  /\ ToldIsKnown /\ HiddenWasDeleted /\ NewsIsKept
  /\ ~IncludeRead => RepeatsOnlyAfterLateMark
=============================================================================
