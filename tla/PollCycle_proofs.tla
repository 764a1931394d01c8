-------------------------- MODULE PollCycle_proofs --------------------------
(***************************************************************************)
(* Proofs about PollCycle, for every set of keys, accounts, configurations *)
(* and rule outcomes and every bound.  The invariant IInv is inductive:    *)
(* each of its parts has a lemma that says one step preserves it.          *)
(***************************************************************************)
EXTENDS PollCycle, TLAPS

(* What a GitHub call does to a thread.                                    *)
LEMMA CallFacts ==
  ASSUME NEW thread \in Thread, NEW applied \in SUBSET ActionTypes
  PROVE  /\ AfterCalls(thread, applied) \in Thread
         /\ AfterCalls(thread, applied).ver = thread.ver
         /\ AfterCalls(thread, applied).unread => thread.unread /\ applied = {}
  BY DEF AfterCalls, Thread

(* What the upsert keeps of the old row and takes from the new record.     *)
LEMMA UpsertFacts ==
  ASSUME NEW old \in Row \cup {NoRow}, NEW record \in Row \cup {NoRow}
  PROVE  /\ Upsert(old, record) \in Row \cup {NoRow}
         /\ record = NoRow => Upsert(old, record) = old
         /\ record # NoRow =>
              /\ Upsert(old, record) # NoRow
              /\ Upsert(old, record).ver = record.ver
              /\ Upsert(old, record).unread = record.unread
              /\ Upsert(old, record).loud = record.loud
              /\ Upsert(old, record).excluded = record.excluded
              /\ Upsert(old, record).dismissed =
                   IF old = NoRow THEN record.dismissed ELSE old.dismissed
  <1>1. NoRow \notin Row
    BY ConstantsAssumption
  <1>2. CASE record = NoRow
    BY <1>2 DEF Upsert
  <1>3. CASE record # NoRow /\ old = NoRow
    BY <1>3 DEF Upsert
  <1>4. CASE record # NoRow /\ old # NoRow
    <2>1. Upsert(old, record) = [record EXCEPT !.dismissed = old.dismissed]
      BY <1>4 DEF Upsert
    <2>2. Upsert(old, record) \in Row
      BY <1>4, <2>1 DEF Row
    <2>3. QED
      BY <1>1, <1>4, <2>1, <2>2 DEF Row
  <1>5. QED
    BY <1>2, <1>3, <1>4

(* What the handlers' UPDATE changes of a row, and that it creates none.   *)
LEMMA UpdateFacts ==
  ASSUME NEW row \in Row \cup {NoRow}, NEW kind \in ActionTypes
  PROVE  /\ UpdateRow(row, kind) \in Row \cup {NoRow}
         /\ UpdateRow(row, kind) = NoRow <=> row = NoRow
         /\ row # NoRow =>
              /\ UpdateRow(row, kind).ver = row.ver
              /\ UpdateRow(row, kind).unread = (row.unread /\ kind = "dismiss")
              /\ UpdateRow(row, kind).dismissed = (row.dismissed \/ kind = "dismiss")
  <1>1. NoRow \notin Row
    BY ConstantsAssumption
  <1>2. CASE row = NoRow
    BY <1>2 DEF UpdateRow
  <1>3. CASE row # NoRow /\ kind = "dismiss"
    <2>1. UpdateRow(row, kind) = [row EXCEPT !.dismissed = TRUE]
      BY <1>3 DEF UpdateRow
    <2>2. QED
      BY <1>1, <1>3, <2>1 DEF Row
  <1>4. CASE row # NoRow /\ kind = "mark_read"
    <2>1. UpdateRow(row, kind) = [row EXCEPT !.unread = FALSE]
      BY <1>4 DEF UpdateRow
    <2>2. QED
      BY <1>1, <1>4, <2>1 DEF Row
  <1>5. QED
    BY <1>2, <1>3, <1>4 DEF ActionTypes

(* The record built for a notification, and the GitHub calls behind it.    *)
LEMMA RecordFacts ==
  ASSUME NEW n \in Notification, NEW outcome \in Outcome, NEW apply \in BOOLEAN,
         NEW reply \in [ActionTypes -> Replies]
  PROVE  LET applied == Applied(n, outcome.actions, apply, reply)
             taken   == Taken(n, outcome.actions, apply, reply)
             record  == MakeRecord(n, outcome, taken)
         IN  /\ applied \in SUBSET ActionTypes
             /\ taken \in SUBSET ActionNames
             /\ record \in Row
             /\ record # NoRow
             /\ record.ver = n.ver
             /\ record.unread => n.unread
             /\ ~record.unread => ~n.unread \/ applied # {}
             /\ record.dismissed =>
                  "dismiss" \in Attempted(n, outcome.actions) /\ apply /\ reply["dismiss"] = "ok"
  <1> DEFINE applied == Applied(n, outcome.actions, apply, reply)
             taken   == Taken(n, outcome.actions, apply, reply)
             record  == MakeRecord(n, outcome, taken)
  <1>1. applied \in SUBSET ActionTypes
    BY DEF Applied, Attempted, Outcome
  <1>2. taken \in SUBSET ActionNames
    BY DEF Taken, Attempted, Outcome, ActionNames, DryRun, ActionTypes
  <1>3. "mark_read" \in taken => applied # {}
    BY DEF Taken, Applied, Attempted, Outcome, DryRun, ActionTypes
  <1>4. record \in Row
    BY <1>2 DEF MakeRecord, Row, Notification, Outcome
  <1>5. "dismiss" \in taken =>
          "dismiss" \in Attempted(n, outcome.actions) /\ apply /\ reply["dismiss"] = "ok"
    BY DEF Taken, Attempted, Outcome, DryRun, ActionTypes
  <1>6. QED
    BY <1>1, <1>2, <1>3, <1>4, <1>5, ConstantsAssumption DEF MakeRecord
-----------------------------------------------------------------------------
(* Every variable keeps its type.                                          *)
LEMMA TypeStep == TypeOK /\ [Next]_vars => TypeOK'
  <1> SUFFICES ASSUME TypeOK, [Next]_vars PROVE TypeOK'
    OBVIOUS
  <1> USE ConstantsAssumption, PollAssumption
  <1>c. /\ cfg \in Config
        /\ cfg.accounts \subseteq Accounts
        /\ cfg.apply \in BOOLEAN
    BY DEF TypeOK, Config
  <1>n. NoneOf \in [Keys -> {NoRow}]
    BY DEF NoneOf
  <1>e. EndCycle => /\ pc' \in States /\ toFetch' \subseteq Accounts
                    /\ failed' \subseteq Accounts
                    /\ prev' \in [Keys -> Row \cup {NoRow}]
                    /\ batch' \in [Keys -> Notification \cup {NoRow}]
                    /\ records' \in [Keys -> Row \cup {NoRow}]
                    /\ owed' \subseteq Keys \X Nat /\ readSince' \subseteq Keys
    BY <1>n DEF EndCycle, States
  <1>1. CASE StartCycle
    BY <1>1, <1>c, <1>n DEF StartCycle, TypeOK, States, ghosts
  <1>2. ASSUME NEW a \in Accounts, FetchAccount(a) PROVE TypeOK'
    BY <1>2 DEF FetchAccount, AfterFetch, TypeOK, States, ghosts, Notification, Thread
  <1>3. ASSUME NEW k \in Keys, NEW outcome \in Outcomes,
               NEW reply \in [ActionTypes -> Replies], Process(k, outcome, reply)
        PROVE  TypeOK'
    <2>1. outcome \in Outcome /\ batch[k] \in Notification
      BY <1>3 DEF TypeOK, Process
    <2> DEFINE applied == Applied(batch[k], outcome.actions, cfg.apply, reply)
               taken == Taken(batch[k], outcome.actions, cfg.apply, reply)
    <2>2. applied \in SUBSET ActionTypes /\ MakeRecord(batch[k], outcome, taken) \in Row
      BY <2>1, <1>c, RecordFacts
    <2>3. AfterCalls(inbox[k], applied) \in Thread
      BY <2>2, CallFacts DEF TypeOK
    <2>4. inbox' \in [Keys -> Thread] /\ records' \in [Keys -> Row \cup {NoRow}]
      BY <1>3, <2>2, <2>3 DEF Process, TypeOK
    <2>5. /\ batch' \in [Keys -> Notification \cup {NoRow}]
          /\ deleted' \subseteq Keys /\ faults' \in Nat
      BY <1>3 DEF Process, TypeOK
    <2>6. QED
      BY <1>3, <2>4, <2>5 DEF Process, TypeOK
  <1>4. CASE SaveRecords
    <2>1. \A k \in Keys : Upsert(db[k], records[k]) \in Row \cup {NoRow}
      BY UpsertFacts DEF TypeOK
    <2>2. owed' \subseteq Keys \X Nat
      BY <1>4 DEF SaveRecords, MadeNews, TypeOK, Row
    <2>3. QED
      BY <1>4, <2>1, <2>2 DEF SaveRecords, TypeOK, States, ghosts
  <1>5. CASE Prune
    BY <1>5 DEF Prune, TypeOK, States
  <1>6. CASE SaveStatus
    BY <1>6 DEF SaveStatus, TypeOK, States, Status, ghosts
  <1>7. CASE Dispatch
    <2>1. \A k \in Events : k \in Keys /\ records[k] \in Row
      BY DEF Events, Announced, TypeOK
    <2>2. told' \subseteq Keys \X Nat /\ dup' \subseteq Keys
      BY <1>7, <2>1 DEF Dispatch, Deliveries, TypeOK, Row
    <2>3. QED
      BY <1>7, <1>e, <2>2 DEF Dispatch, Deliveries, TypeOK
  <1>8. ASSUME NEW a \in Accounts, FetchFails(a) PROVE TypeOK'
    BY <1>8 DEF FetchFails, AfterFetch, TypeOK, States, ghosts
  <1>9. CASE CycleFails
    BY <1>9, <1>e DEF CycleFails, TypeOK, Status, ghosts
  <1>10. CASE Restart
    BY <1>10, <1>e DEF Restart, TypeOK, ghosts
  <1>11. ASSUME NEW r \in inflight, WebStoreFails(r) PROVE TypeOK'
    BY <1>11 DEF WebStoreFails, TypeOK, ghosts, cycleVars
  <1>12. ASSUME NEW kind \in ActionTypes, NEW k \in Keys,
                NEW reply \in {"ok", "lost"}, WebCall(kind, k, reply)
         PROVE  TypeOK'
    <2>1. AfterCalls(inbox[k], {kind}) \in Thread
      BY CallFacts DEF TypeOK
    <2>2. [kind |-> kind, key |-> k, ver |-> inbox[k].ver] \in Request
      BY DEF Request, TypeOK, Thread
    <2>3. QED
      BY <1>12, <2>1, <2>2 DEF WebCall, TypeOK, cycleVars
  <1>13. ASSUME NEW r \in inflight, WebStore(r) PROVE TypeOK'
    <2>1. r.key \in Keys /\ r.kind \in ActionTypes
      BY DEF TypeOK, Request
    <2>2. UpdateRow(db[r.key], r.kind) \in Row \cup {NoRow}
      BY <2>1, UpdateFacts DEF TypeOK
    <2>3. QED
      BY <1>13, <2>1, <2>2 DEF WebStore, TypeOK, cycleVars
  <1>14. ASSUME NEW k \in Keys, NewActivity(k) PROVE TypeOK'
    BY <1>14 DEF NewActivity, TypeOK, cycleVars, ghosts, Thread
  <1>15. ASSUME NEW k \in Keys, NEW kind \in ActionTypes, TouchedElsewhere(k, kind)
         PROVE  TypeOK'
    <2>1. AfterCalls(inbox[k], {kind}) \in Thread
      BY CallFacts DEF TypeOK
    <2>2. QED
      BY <1>15, <2>1 DEF TouchedElsewhere, TypeOK, cycleVars, ghosts
  <1>16. CASE UNCHANGED vars
    BY <1>16 DEF vars, TypeOK, cycleVars, ghosts
  <1>17. QED
    BY <1>1, <1>2, <1>3, <1>4, <1>5, <1>6, <1>7, <1>8, <1>9, <1>10, <1>11,
       <1>12, <1>13, <1>14, <1>15, <1>16
       DEF Next, Poller, ProcessSome, Faults, Web, GitHub

-----------------------------------------------------------------------------
(* What each step does to the variables, key by key.                       *)

Versions ==
  /\ \A k \in Keys :
       /\ inbox[k].ver \in Nat
       /\ db[k] # NoRow => db[k].ver \in Nat
       /\ prev[k] # NoRow => prev[k].ver \in Nat
       /\ batch[k] # NoRow => batch[k].ver \in Nat
       /\ records[k] # NoRow => records[k].ver \in Nat
  /\ \A r \in inflight : r.ver \in Nat /\ r.key \in Keys /\ r.kind \in ActionTypes
  /\ \A t \in told : t[1] \in Keys /\ t[2] \in Nat

LEMMA VersionFacts == TypeOK => Versions
  BY DEF TypeOK, Versions, Thread, Row, Notification, Request

LEMMA FetchEffect ==
  ASSUME TypeOK, NEW a \in Accounts, FetchAccount(a)
  PROVE  \A k \in Keys :
           \/ batch'[k] = batch[k]
           \/ /\ AccountOf[k] = a
              /\ batch'[k] # NoRow
              /\ batch'[k].ver = inbox[k].ver
              /\ batch'[k].unread = inbox[k].unread
  BY ConstantsAssumption DEF FetchAccount, KeysOf, TypeOK, Notification, Thread

LEMMA ProcessEffect ==
  ASSUME TypeOK, NEW k \in Keys, NEW outcome \in Outcomes,
         NEW reply \in [ActionTypes -> Replies], Process(k, outcome, reply)
  PROVE  /\ pc = "process" /\ batch[k] # NoRow /\ batch'[k] = NoRow
         /\ records'[k] # NoRow
         /\ records'[k].ver = batch[k].ver
         /\ records'[k].unread => batch[k].unread
         /\ records'[k].unread \in BOOLEAN
         /\ ~records'[k].unread /\ batch[k].unread => ~inbox'[k].unread
         /\ records'[k].dismissed => k \in deleted'
         /\ inbox'[k].ver = inbox[k].ver
         /\ inbox'[k].unread => inbox[k].unread
         /\ \A j \in Keys \ {k} : /\ inbox'[j] = inbox[j] /\ batch'[j] = batch[j]
                                  /\ records'[j] = records[j]
         /\ deleted \subseteq deleted'
         /\ UNCHANGED <<db, cfg, pc, toFetch, prev, inflight, told, dup, late>>
  <1>1. /\ outcome \in Outcome /\ batch[k] \in Notification
        /\ cfg.apply \in BOOLEAN
    BY PollAssumption DEF TypeOK, Process, Config
  <1> DEFINE applied == Applied(batch[k], outcome.actions, cfg.apply, reply)
             taken == Taken(batch[k], outcome.actions, cfg.apply, reply)
  <1>2. /\ applied \in SUBSET ActionTypes
        /\ MakeRecord(batch[k], outcome, taken) \in Row
        /\ MakeRecord(batch[k], outcome, taken) # NoRow
        /\ MakeRecord(batch[k], outcome, taken).ver = batch[k].ver
        /\ MakeRecord(batch[k], outcome, taken).unread => batch[k].unread
        /\ ~MakeRecord(batch[k], outcome, taken).unread =>
             ~batch[k].unread \/ applied # {}
        /\ MakeRecord(batch[k], outcome, taken).dismissed =>
             "dismiss" \in Attempted(batch[k], outcome.actions) /\ cfg.apply /\ reply["dismiss"] = "ok"
    BY <1>1, RecordFacts
  <1>3. records'[k] = MakeRecord(batch[k], outcome, taken)
    BY DEF Process, TypeOK
  <1>4. records'[k].dismissed => k \in deleted'
    BY <1>2, <1>3 DEF Process
  <1>5. inbox[k] \in Thread /\ inbox'[k] = AfterCalls(inbox[k], applied)
    BY DEF Process, TypeOK
  <1>6. /\ inbox'[k].ver = inbox[k].ver
        /\ inbox'[k].unread => inbox[k].unread /\ applied = {}
    BY <1>2, <1>5, CallFacts
  <1>7. \A j \in Keys \ {k} : /\ inbox'[j] = inbox[j] /\ batch'[j] = batch[j]
                              /\ records'[j] = records[j]
    BY DEF Process, TypeOK
  <1>8. pc = "process" /\ batch[k] # NoRow /\ batch'[k] = NoRow
    BY DEF Process, TypeOK
  <1>9. records'[k].unread \in BOOLEAN
    BY <1>2, <1>3 DEF Row
  <1>10. /\ deleted \subseteq deleted'
         /\ UNCHANGED <<db, cfg, pc, toFetch, prev, inflight, told, dup, late>>
    BY DEF Process
  <1>11. QED
    BY <1>2, <1>3, <1>4, <1>6, <1>7, <1>8, <1>9, <1>10

LEMMA SaveEffect ==
  ASSUME TypeOK, SaveRecords
  PROVE  \A k \in Keys :
           /\ records[k] = NoRow => db'[k] = db[k]
           /\ records[k] # NoRow =>
                /\ db'[k] # NoRow
                /\ db'[k].ver = records[k].ver
                /\ db'[k].unread = records[k].unread
                /\ db'[k].loud = records[k].loud
                /\ db'[k].excluded = records[k].excluded
                /\ db'[k].dismissed =
                     IF db[k] = NoRow THEN records[k].dismissed ELSE db[k].dismissed
  <1> SUFFICES ASSUME NEW k \in Keys
               PROVE  /\ records[k] = NoRow => db'[k] = db[k]
                      /\ records[k] # NoRow =>
                           /\ db'[k] # NoRow
                           /\ db'[k].ver = records[k].ver
                           /\ db'[k].unread = records[k].unread
                           /\ db'[k].loud = records[k].loud
                           /\ db'[k].excluded = records[k].excluded
                           /\ db'[k].dismissed =
                                IF db[k] = NoRow THEN records[k].dismissed
                                                 ELSE db[k].dismissed
    OBVIOUS
  <1>1. db'[k] = Upsert(db[k], records[k])
    BY DEF SaveRecords
  <1>2. db[k] \in Row \cup {NoRow} /\ records[k] \in Row \cup {NoRow}
    BY DEF TypeOK
  <1>3. QED
    BY <1>1, <1>2, UpsertFacts

LEMMA WebCallEffect ==
  ASSUME TypeOK, NEW kind \in ActionTypes, NEW k \in Keys,
         NEW reply \in {"ok", "lost"}, WebCall(kind, k, reply)
  PROVE  /\ inbox'[k].ver = inbox[k].ver /\ ~inbox'[k].unread
         /\ \A j \in Keys \ {k} : inbox'[j] = inbox[j]
         /\ \A r \in inflight' :
              \/ r \in inflight
              \/ /\ r.kind = kind /\ r.key = k /\ r.ver = inbox[k].ver
                 /\ kind = "dismiss" => k \in deleted'
         /\ deleted \subseteq deleted'
         /\ UNCHANGED <<db, cfg, pc, toFetch, prev, batch, records, told, dup, late>>
  <1>1. {kind} \in SUBSET ActionTypes /\ {kind} # {} /\ inbox[k] \in Thread
    BY DEF TypeOK
  <1>2. inbox'[k] = AfterCalls(inbox[k], {kind})
    BY DEF WebCall, TypeOK
  <1>3. inbox'[k].ver = inbox[k].ver /\ ~inbox'[k].unread
    BY <1>1, <1>2, CallFacts
  <1>4. \A j \in Keys \ {k} : inbox'[j] = inbox[j]
    BY DEF WebCall, TypeOK
  <1>5. /\ deleted \subseteq deleted'
        /\ UNCHANGED <<db, cfg, pc, toFetch, prev, batch, records, told, dup, late>>
    BY DEF WebCall, cycleVars
  <1>6. CASE reply = "ok"
    BY <1>3, <1>4, <1>5, <1>6 DEF WebCall
  <1>7. CASE reply = "lost"
    BY <1>3, <1>4, <1>5, <1>7 DEF WebCall
  <1>8. QED
    BY <1>6, <1>7

LEMMA TouchEffect ==
  ASSUME TypeOK, NEW k \in Keys, NEW kind \in ActionTypes, TouchedElsewhere(k, kind)
  PROVE  /\ inbox'[k].ver = inbox[k].ver /\ ~inbox'[k].unread
         /\ \A j \in Keys \ {k} : inbox'[j] = inbox[j]
  <1>1. {kind} \in SUBSET ActionTypes /\ {kind} # {} /\ inbox[k] \in Thread
    BY DEF TypeOK
  <1>2. inbox'[k] = AfterCalls(inbox[k], {kind})
    BY DEF TouchedElsewhere, TypeOK
  <1>3. QED
    BY <1>1, <1>2, CallFacts DEF TouchedElsewhere, TypeOK

LEMMA ActivityEffect ==
  ASSUME TypeOK, NEW k \in Keys, NewActivity(k)
  PROVE  /\ inbox'[k].ver = inbox[k].ver + 1
         /\ \A j \in Keys \ {k} : inbox'[j] = inbox[j]
  BY DEF NewActivity, TypeOK

LEMMA WebStoreEffect ==
  ASSUME TypeOK, NEW r \in inflight, WebStore(r)
  PROVE  /\ db'[r.key] = NoRow <=> db[r.key] = NoRow
         /\ db[r.key] # NoRow =>
              /\ db'[r.key].ver = db[r.key].ver
              /\ db'[r.key].unread = (db[r.key].unread /\ r.kind = "dismiss")
              /\ db'[r.key].dismissed = (db[r.key].dismissed \/ r.kind = "dismiss")
         /\ \A j \in Keys \ {r.key} : db'[j] = db[j]
  <1>1. r.key \in Keys /\ r.kind \in ActionTypes
    BY DEF TypeOK, Request
  <1>2. db[r.key] \in Row \cup {NoRow} /\ db'[r.key] = UpdateRow(db[r.key], r.kind)
    BY <1>1 DEF WebStore, TypeOK
  <1>3. \A j \in Keys \ {r.key} : db'[j] = db[j]
    BY <1>1 DEF WebStore, TypeOK
  <1>4. QED
    BY <1>1, <1>2, <1>3, UpdateFacts

-----------------------------------------------------------------------------
(* No copy of a thread's activity overtakes GitHub's.                      *)
LEMMA BehindStep ==
  TypeOK /\ Behind /\ [Next]_vars => Behind'
  <1> SUFFICES ASSUME TypeOK, Behind, [Next]_vars PROVE Behind'
    OBVIOUS
  <1>v. Versions
    BY VersionFacts
  <1>1. CASE StartCycle
    BY <1>1, <1>v
       DEF StartCycle, NoneOf, ghosts, Behind, Versions
  <1>2. ASSUME NEW a \in Accounts, FetchAccount(a) PROVE Behind'
    BY <1>2, <1>v, FetchEffect
       DEF FetchAccount, AfterFetch, ghosts, Behind, Versions
  <1>3. ASSUME NEW k \in Keys, NEW outcome \in Outcomes,
               NEW reply \in [ActionTypes -> Replies], Process(k, outcome, reply)
        PROVE  Behind'
    BY <1>3, <1>v, ProcessEffect
       DEF Behind, Versions
  <1>4. CASE SaveRecords
    BY <1>4, <1>v, SaveEffect
       DEF SaveRecords, NoneOf, ghosts, Behind, Versions
  <1>5. CASE Prune
    BY <1>5, <1>v
       DEF Prune, Orphans, Behind, Versions
  <1>6. CASE SaveStatus
    BY <1>6, <1>v
       DEF SaveStatus, ghosts, Behind, Versions
  <1>7. CASE Dispatch
    BY <1>7, <1>v
       DEF Dispatch, Deliveries, EndCycle, NoneOf, Behind, Versions
  <1>8. ASSUME NEW a \in Accounts, FetchFails(a) PROVE Behind'
    BY <1>8, <1>v
       DEF FetchFails, AfterFetch, ghosts, Behind, Versions
  <1>9. CASE CycleFails
    BY <1>9, <1>v
       DEF CycleFails, EndCycle, NoneOf, ghosts, Behind, Versions
  <1>10. CASE Restart
    BY <1>10, <1>v
       DEF Restart, EndCycle, NoneOf, ghosts, Behind, Versions
  <1>11. ASSUME NEW r \in inflight, WebStoreFails(r) PROVE Behind'
    BY <1>11, <1>v
       DEF WebStoreFails, ghosts, cycleVars, Behind, Versions
  <1>12. ASSUME NEW kind \in ActionTypes, NEW k \in Keys,
                NEW reply \in {"ok", "lost"}, WebCall(kind, k, reply)
         PROVE  Behind'
    BY <1>12, <1>v, WebCallEffect
       DEF Behind, Versions
  <1>13. ASSUME NEW r \in inflight, WebStore(r) PROVE Behind'
    BY <1>13, <1>v, WebStoreEffect
       DEF WebStore, cycleVars, Behind, Versions
  <1>14. ASSUME NEW k \in Keys, NewActivity(k) PROVE Behind'
    BY <1>14, <1>v, ActivityEffect
       DEF NewActivity, cycleVars, ghosts, Behind, Versions
  <1>15. ASSUME NEW k \in Keys, NEW kind \in ActionTypes, TouchedElsewhere(k, kind)
         PROVE  Behind'
    BY <1>15, <1>v, TouchEffect
       DEF TouchedElsewhere, cycleVars, ghosts, Behind, Versions
  <1>16. CASE UNCHANGED vars
    BY <1>16, <1>v
       DEF vars, cycleVars, ghosts, Behind, Versions
  <1>17. QED
    BY <1>1, <1>2, <1>3, <1>4, <1>5, <1>6, <1>7, <1>8, <1>9, <1>10, <1>11,
       <1>12, <1>13, <1>14, <1>15, <1>16
       DEF Next, Poller, ProcessSome, Faults, Web, GitHub

(* Copies that say read stay right until GitHub has newer activity.        *)
LEMMA ReadsStep ==
  TypeOK /\ Behind /\ ReadsAreTrue /\ [Next]_vars => ReadsAreTrue'
  <1> SUFFICES ASSUME TypeOK, Behind, ReadsAreTrue, [Next]_vars PROVE ReadsAreTrue'
    OBVIOUS
  <1>v. Versions
    BY VersionFacts
  <1>1. CASE StartCycle
    BY <1>1, <1>v
       DEF StartCycle, NoneOf, ghosts, Behind, ReadsAreTrue, ReadRowIsRead, Stored, Versions
  <1>2. ASSUME NEW a \in Accounts, FetchAccount(a) PROVE ReadsAreTrue'
    BY <1>2, <1>v, FetchEffect
       DEF FetchAccount, AfterFetch, ghosts, Behind, ReadsAreTrue, ReadRowIsRead, Stored, Versions
  <1>3. ASSUME NEW k \in Keys, NEW outcome \in Outcomes,
               NEW reply \in [ActionTypes -> Replies], Process(k, outcome, reply)
        PROVE  ReadsAreTrue'
    BY <1>3, <1>v, ProcessEffect
       DEF Behind, ReadsAreTrue, ReadRowIsRead, Stored, Versions
  <1>4. CASE SaveRecords
    BY <1>4, <1>v, SaveEffect
       DEF SaveRecords, NoneOf, ghosts, Behind, ReadsAreTrue, ReadRowIsRead, Stored, Versions
  <1>5. CASE Prune
    BY <1>5, <1>v
       DEF Prune, Orphans, Behind, ReadsAreTrue, ReadRowIsRead, Stored, Versions
  <1>6. CASE SaveStatus
    BY <1>6, <1>v
       DEF SaveStatus, ghosts, Behind, ReadsAreTrue, ReadRowIsRead, Stored, Versions
  <1>7. CASE Dispatch
    BY <1>7, <1>v
       DEF Dispatch, Deliveries, EndCycle, NoneOf, Behind, ReadsAreTrue, ReadRowIsRead, Stored, Versions
  <1>8. ASSUME NEW a \in Accounts, FetchFails(a) PROVE ReadsAreTrue'
    BY <1>8, <1>v
       DEF FetchFails, AfterFetch, ghosts, Behind, ReadsAreTrue, ReadRowIsRead, Stored, Versions
  <1>9. CASE CycleFails
    BY <1>9, <1>v
       DEF CycleFails, EndCycle, NoneOf, ghosts, Behind, ReadsAreTrue, ReadRowIsRead, Stored, Versions
  <1>10. CASE Restart
    BY <1>10, <1>v
       DEF Restart, EndCycle, NoneOf, ghosts, Behind, ReadsAreTrue, ReadRowIsRead, Stored, Versions
  <1>11. ASSUME NEW r \in inflight, WebStoreFails(r) PROVE ReadsAreTrue'
    BY <1>11, <1>v
       DEF WebStoreFails, ghosts, cycleVars, Behind, ReadsAreTrue, ReadRowIsRead, Stored, Versions
  <1>12. ASSUME NEW kind \in ActionTypes, NEW k \in Keys,
                NEW reply \in {"ok", "lost"}, WebCall(kind, k, reply)
         PROVE  ReadsAreTrue'
    BY <1>12, <1>v, WebCallEffect
       DEF Behind, ReadsAreTrue, ReadRowIsRead, Stored, Versions
  <1>13. ASSUME NEW r \in inflight, WebStore(r) PROVE ReadsAreTrue'
    <2>1. r.key \in Keys /\ r.kind \in ActionTypes /\ r.ver \in Nat
      BY <1>v DEF Versions
    <2>2. UNCHANGED <<inbox, prev, batch, records>> /\ inflight' \subseteq inflight
          /\ late \subseteq late'
      BY <1>13 DEF WebStore, cycleVars
    <2>3. ReadRowIsRead'
      <3> SUFFICES ASSUME NEW k \in Keys, db'[k] # NoRow, ~db'[k].unread,
                          db'[k].ver = inbox[k].ver, k \notin late'
                   PROVE  ~inbox[k].unread
        BY <2>2 DEF ReadRowIsRead, Stored
      <3>1. CASE k # r.key
        BY <1>13, <3>1, <2>2, WebStoreEffect DEF ReadsAreTrue, ReadRowIsRead, Stored
      <3>2. CASE k = r.key /\ r.kind = "dismiss"
        BY <1>13, <3>2, <2>2, WebStoreEffect DEF ReadsAreTrue, ReadRowIsRead, Stored
      <3>3. CASE k = r.key /\ r.kind = "mark_read"
        <4>1. db[k] # NoRow /\ db[k].ver = inbox[k].ver
          BY <1>13, <3>3, WebStoreEffect
        <4>2. ~(r.ver < db[k].ver)
          BY <1>13, <3>3, <4>1 DEF WebStore, OutranByRow
        <4>3. r.ver = inbox[k].ver
          BY <4>1, <4>2, <2>1, <3>3, <1>v DEF Behind, Versions
        <4>4. QED
          BY <3>3, <4>3 DEF ReadsAreTrue
      <3>4. QED
        BY <2>1, <3>1, <3>2, <3>3 DEF ActionTypes
    <2>4. QED
      BY <2>2, <2>3 DEF ReadsAreTrue
  <1>14. ASSUME NEW k \in Keys, NewActivity(k) PROVE ReadsAreTrue'
    BY <1>14, <1>v, ActivityEffect
       DEF NewActivity, cycleVars, ghosts, Behind, ReadsAreTrue, ReadRowIsRead, Stored, Versions
  <1>15. ASSUME NEW k \in Keys, NEW kind \in ActionTypes, TouchedElsewhere(k, kind)
         PROVE  ReadsAreTrue'
    BY <1>15, <1>v, TouchEffect
       DEF TouchedElsewhere, cycleVars, ghosts, Behind, ReadsAreTrue, ReadRowIsRead, Stored, Versions
  <1>16. CASE UNCHANGED vars
    BY <1>16, <1>v
       DEF vars, cycleVars, ghosts, Behind, ReadsAreTrue, ReadRowIsRead, Stored, Versions
  <1>17. QED
    BY <1>1, <1>2, <1>3, <1>4, <1>5, <1>6, <1>7, <1>8, <1>9, <1>10, <1>11,
       <1>12, <1>13, <1>14, <1>15, <1>16
       DEF Next, Poller, ProcessSome, Faults, Web, GitHub

(* The cycle's records stay of its accounts and up to date with the table. *)
LEMMA FreshStep ==
  TypeOK /\ Behind /\ CycleIsFresh /\ [Next]_vars => CycleIsFresh'
  <1> SUFFICES ASSUME TypeOK, Behind, CycleIsFresh, [Next]_vars PROVE CycleIsFresh'
    OBVIOUS
  <1>v. Versions
    BY VersionFacts
  <1>1. CASE StartCycle
    BY <1>1, <1>v
       DEF StartCycle, NoneOf, ghosts, Behind, CycleIsFresh, Versions
  <1>2. ASSUME NEW a \in Accounts, FetchAccount(a) PROVE CycleIsFresh'
    BY <1>2, <1>v, FetchEffect
       DEF FetchAccount, AfterFetch, ghosts, Behind, CycleIsFresh, Versions
  <1>3. ASSUME NEW k \in Keys, NEW outcome \in Outcomes,
               NEW reply \in [ActionTypes -> Replies], Process(k, outcome, reply)
        PROVE  CycleIsFresh'
    BY <1>3, <1>v, ProcessEffect
       DEF Behind, CycleIsFresh, Versions
  <1>4. CASE SaveRecords
    BY <1>4, <1>v, SaveEffect
       DEF SaveRecords, NoneOf, ghosts, Behind, CycleIsFresh, Versions
  <1>5. CASE Prune
    BY <1>5, <1>v
       DEF Prune, Orphans, Behind, CycleIsFresh, Versions
  <1>6. CASE SaveStatus
    BY <1>6, <1>v
       DEF SaveStatus, ghosts, Behind, CycleIsFresh, Versions
  <1>7. CASE Dispatch
    BY <1>7, <1>v
       DEF Dispatch, Deliveries, EndCycle, NoneOf, Behind, CycleIsFresh, Versions
  <1>8. ASSUME NEW a \in Accounts, FetchFails(a) PROVE CycleIsFresh'
    BY <1>8, <1>v
       DEF FetchFails, AfterFetch, ghosts, Behind, CycleIsFresh, Versions
  <1>9. CASE CycleFails
    BY <1>9, <1>v
       DEF CycleFails, EndCycle, NoneOf, ghosts, Behind, CycleIsFresh, Versions
  <1>10. CASE Restart
    BY <1>10, <1>v
       DEF Restart, EndCycle, NoneOf, ghosts, Behind, CycleIsFresh, Versions
  <1>11. ASSUME NEW r \in inflight, WebStoreFails(r) PROVE CycleIsFresh'
    BY <1>11, <1>v
       DEF WebStoreFails, ghosts, cycleVars, Behind, CycleIsFresh, Versions
  <1>12. ASSUME NEW kind \in ActionTypes, NEW k \in Keys,
                NEW reply \in {"ok", "lost"}, WebCall(kind, k, reply)
         PROVE  CycleIsFresh'
    BY <1>12, <1>v, WebCallEffect
       DEF Behind, CycleIsFresh, Versions
  <1>13. ASSUME NEW r \in inflight, WebStore(r) PROVE CycleIsFresh'
    BY <1>13, <1>v, WebStoreEffect
       DEF WebStore, cycleVars, Behind, CycleIsFresh, Versions
  <1>14. ASSUME NEW k \in Keys, NewActivity(k) PROVE CycleIsFresh'
    BY <1>14, <1>v, ActivityEffect
       DEF NewActivity, cycleVars, ghosts, Behind, CycleIsFresh, Versions
  <1>15. ASSUME NEW k \in Keys, NEW kind \in ActionTypes, TouchedElsewhere(k, kind)
         PROVE  CycleIsFresh'
    BY <1>15, <1>v, TouchEffect
       DEF TouchedElsewhere, cycleVars, ghosts, Behind, CycleIsFresh, Versions
  <1>16. CASE UNCHANGED vars
    BY <1>16, <1>v
       DEF vars, cycleVars, ghosts, Behind, CycleIsFresh, Versions
  <1>17. QED
    BY <1>1, <1>2, <1>3, <1>4, <1>5, <1>6, <1>7, <1>8, <1>9, <1>10, <1>11,
       <1>12, <1>13, <1>14, <1>15, <1>16
       DEF Next, Poller, ProcessSome, Faults, Web, GitHub

(* A record that turned unread stays newer than the previous snapshot.     *)
LEMMA NewsStep ==
  TypeOK /\ Behind /\ ReadsAreTrue /\ CycleIsFresh /\ UnreadIsNews /\ [Next]_vars => UnreadIsNews'
  <1> SUFFICES ASSUME TypeOK, Behind, ReadsAreTrue, CycleIsFresh, UnreadIsNews, [Next]_vars PROVE UnreadIsNews'
    OBVIOUS
  <1>v. Versions
    BY VersionFacts
  <1>1. CASE StartCycle
    BY <1>1, <1>v
       DEF StartCycle, NoneOf, ghosts, Behind, ReadsAreTrue, ReadRowIsRead, Stored, CycleIsFresh, UnreadIsNews, Versions
  <1>2. ASSUME NEW a \in Accounts, FetchAccount(a) PROVE UnreadIsNews'
    <2>1. UNCHANGED <<prev, records, late>>
      BY <1>2 DEF FetchAccount, ghosts
    <2> SUFFICES ASSUME NEW k \in Keys, prev[k] # NoRow, ~prev[k].unread, k \notin late,
                        batch'[k] # NoRow, batch'[k].unread
                 PROVE  prev[k].ver < batch'[k].ver
      BY <2>1 DEF UnreadIsNews
    <2>2. CASE batch'[k] = batch[k]
      BY <2>2 DEF UnreadIsNews
    <2>3. CASE batch'[k].ver = inbox[k].ver /\ batch'[k].unread = inbox[k].unread
      <3>1. prev[k].ver # inbox[k].ver
        BY <2>3 DEF ReadsAreTrue
      <3>2. QED
        BY <2>3, <3>1, <1>v DEF Behind, Versions
    <2>4. QED
      BY <1>2, <2>2, <2>3, FetchEffect
  <1>3. ASSUME NEW k \in Keys, NEW outcome \in Outcomes,
               NEW reply \in [ActionTypes -> Replies], Process(k, outcome, reply)
        PROVE  UnreadIsNews'
    BY <1>3, <1>v, ProcessEffect
       DEF Behind, ReadsAreTrue, ReadRowIsRead, Stored, CycleIsFresh, UnreadIsNews, Versions
  <1>4. CASE SaveRecords
    BY <1>4, <1>v, SaveEffect
       DEF SaveRecords, NoneOf, ghosts, Behind, ReadsAreTrue, ReadRowIsRead, Stored, CycleIsFresh, UnreadIsNews, Versions
  <1>5. CASE Prune
    BY <1>5, <1>v
       DEF Prune, Orphans, Behind, ReadsAreTrue, ReadRowIsRead, Stored, CycleIsFresh, UnreadIsNews, Versions
  <1>6. CASE SaveStatus
    BY <1>6, <1>v
       DEF SaveStatus, ghosts, Behind, ReadsAreTrue, ReadRowIsRead, Stored, CycleIsFresh, UnreadIsNews, Versions
  <1>7. CASE Dispatch
    BY <1>7, <1>v
       DEF Dispatch, Deliveries, EndCycle, NoneOf, Behind, ReadsAreTrue, ReadRowIsRead, Stored, CycleIsFresh, UnreadIsNews, Versions
  <1>8. ASSUME NEW a \in Accounts, FetchFails(a) PROVE UnreadIsNews'
    BY <1>8, <1>v
       DEF FetchFails, AfterFetch, ghosts, Behind, ReadsAreTrue, ReadRowIsRead, Stored, CycleIsFresh, UnreadIsNews, Versions
  <1>9. CASE CycleFails
    BY <1>9, <1>v
       DEF CycleFails, EndCycle, NoneOf, ghosts, Behind, ReadsAreTrue, ReadRowIsRead, Stored, CycleIsFresh, UnreadIsNews, Versions
  <1>10. CASE Restart
    BY <1>10, <1>v
       DEF Restart, EndCycle, NoneOf, ghosts, Behind, ReadsAreTrue, ReadRowIsRead, Stored, CycleIsFresh, UnreadIsNews, Versions
  <1>11. ASSUME NEW r \in inflight, WebStoreFails(r) PROVE UnreadIsNews'
    BY <1>11, <1>v
       DEF WebStoreFails, ghosts, cycleVars, Behind, ReadsAreTrue, ReadRowIsRead, Stored, CycleIsFresh, UnreadIsNews, Versions
  <1>12. ASSUME NEW kind \in ActionTypes, NEW k \in Keys,
                NEW reply \in {"ok", "lost"}, WebCall(kind, k, reply)
         PROVE  UnreadIsNews'
    BY <1>12, <1>v, WebCallEffect
       DEF Behind, ReadsAreTrue, ReadRowIsRead, Stored, CycleIsFresh, UnreadIsNews, Versions
  <1>13. ASSUME NEW r \in inflight, WebStore(r) PROVE UnreadIsNews'
    BY <1>13, <1>v, WebStoreEffect
       DEF WebStore, cycleVars, Behind, ReadsAreTrue, ReadRowIsRead, Stored, CycleIsFresh, UnreadIsNews, Versions
  <1>14. ASSUME NEW k \in Keys, NewActivity(k) PROVE UnreadIsNews'
    BY <1>14, <1>v, ActivityEffect
       DEF NewActivity, cycleVars, ghosts, Behind, ReadsAreTrue, ReadRowIsRead, Stored, CycleIsFresh, UnreadIsNews, Versions
  <1>15. ASSUME NEW k \in Keys, NEW kind \in ActionTypes, TouchedElsewhere(k, kind)
         PROVE  UnreadIsNews'
    BY <1>15, <1>v, TouchEffect
       DEF TouchedElsewhere, cycleVars, ghosts, Behind, ReadsAreTrue, ReadRowIsRead, Stored, CycleIsFresh, UnreadIsNews, Versions
  <1>16. CASE UNCHANGED vars
    BY <1>16, <1>v
       DEF vars, cycleVars, ghosts, Behind, ReadsAreTrue, ReadRowIsRead, Stored, CycleIsFresh, UnreadIsNews, Versions
  <1>17. QED
    BY <1>1, <1>2, <1>3, <1>4, <1>5, <1>6, <1>7, <1>8, <1>9, <1>10, <1>11,
       <1>12, <1>13, <1>14, <1>15, <1>16
       DEF Next, Poller, ProcessSome, Faults, Web, GitHub

(* Announcements stay in the table and in the previous snapshot.           *)
LEMMA ToldStep ==
  TypeOK /\ Behind /\ CycleIsFresh /\ ToldIsKnown /\ [Next]_vars => ToldIsKnown'
  <1> SUFFICES ASSUME TypeOK, Behind, CycleIsFresh, ToldIsKnown, [Next]_vars PROVE ToldIsKnown'
    OBVIOUS
  <1>v. Versions
    BY VersionFacts
  <1>1. CASE StartCycle
    BY <1>1, <1>v
       DEF StartCycle, NoneOf, ghosts, Behind, CycleIsFresh, ToldIsKnown, AnnouncedIsStored, Stored, Versions
  <1>2. ASSUME NEW a \in Accounts, FetchAccount(a) PROVE ToldIsKnown'
    BY <1>2, <1>v, FetchEffect
       DEF FetchAccount, AfterFetch, ghosts, Behind, CycleIsFresh, ToldIsKnown, AnnouncedIsStored, Stored, Versions
  <1>3. ASSUME NEW k \in Keys, NEW outcome \in Outcomes,
               NEW reply \in [ActionTypes -> Replies], Process(k, outcome, reply)
        PROVE  ToldIsKnown'
    BY <1>3, <1>v, ProcessEffect
       DEF Behind, CycleIsFresh, ToldIsKnown, AnnouncedIsStored, Stored, Versions
  <1>4. CASE SaveRecords
    BY <1>4, <1>v, SaveEffect
       DEF SaveRecords, NoneOf, ghosts, Behind, CycleIsFresh, ToldIsKnown, AnnouncedIsStored, Stored, Versions
  <1>5. CASE Prune
    BY <1>5, <1>v
       DEF Prune, Orphans, Behind, CycleIsFresh, ToldIsKnown, AnnouncedIsStored, Stored, Versions
  <1>6. CASE SaveStatus
    BY <1>6, <1>v
       DEF SaveStatus, ghosts, Behind, CycleIsFresh, ToldIsKnown, AnnouncedIsStored, Stored, Versions
  <1>7. CASE Dispatch
    <2>1. PICK delivered \in SUBSET Events :
            told' = told \cup {<<k, records[k].ver>> : k \in delivered}
      BY <1>7 DEF Dispatch, Deliveries
    <2>2. \A k \in delivered : k \in Keys /\ records[k] # NoRow /\ NotifyEnabled
      BY DEF Events, Announced
    <2>3. \A k \in delivered : db[k] # NoRow /\ records[k].ver <= db[k].ver
      BY <1>7, <2>2 DEF CycleIsFresh, Dispatch, Deliveries
    <2>4. AnnouncedIsStored'
      BY <1>7, <2>1, <2>3 DEF Dispatch, Deliveries, ToldIsKnown, AnnouncedIsStored, Stored
    <2>5. ~NotifyEnabled => told' = {}
      BY <2>1, <2>2 DEF ToldIsKnown
    <2>6. QED
      BY <1>7, <2>4, <2>5 DEF Dispatch, Deliveries, EndCycle, ToldIsKnown
  <1>8. ASSUME NEW a \in Accounts, FetchFails(a) PROVE ToldIsKnown'
    BY <1>8, <1>v
       DEF FetchFails, AfterFetch, ghosts, Behind, CycleIsFresh, ToldIsKnown, AnnouncedIsStored, Stored, Versions
  <1>9. CASE CycleFails
    BY <1>9, <1>v
       DEF CycleFails, EndCycle, NoneOf, ghosts, Behind, CycleIsFresh, ToldIsKnown, AnnouncedIsStored, Stored, Versions
  <1>10. CASE Restart
    BY <1>10, <1>v
       DEF Restart, EndCycle, NoneOf, ghosts, Behind, CycleIsFresh, ToldIsKnown, AnnouncedIsStored, Stored, Versions
  <1>11. ASSUME NEW r \in inflight, WebStoreFails(r) PROVE ToldIsKnown'
    BY <1>11, <1>v
       DEF WebStoreFails, ghosts, cycleVars, Behind, CycleIsFresh, ToldIsKnown, AnnouncedIsStored, Stored, Versions
  <1>12. ASSUME NEW kind \in ActionTypes, NEW k \in Keys,
                NEW reply \in {"ok", "lost"}, WebCall(kind, k, reply)
         PROVE  ToldIsKnown'
    BY <1>12, <1>v, WebCallEffect
       DEF Behind, CycleIsFresh, ToldIsKnown, AnnouncedIsStored, Stored, Versions
  <1>13. ASSUME NEW r \in inflight, WebStore(r) PROVE ToldIsKnown'
    BY <1>13, <1>v, WebStoreEffect
       DEF WebStore, cycleVars, Behind, CycleIsFresh, ToldIsKnown, AnnouncedIsStored, Stored, Versions
  <1>14. ASSUME NEW k \in Keys, NewActivity(k) PROVE ToldIsKnown'
    BY <1>14, <1>v, ActivityEffect
       DEF NewActivity, cycleVars, ghosts, Behind, CycleIsFresh, ToldIsKnown, AnnouncedIsStored, Stored, Versions
  <1>15. ASSUME NEW k \in Keys, NEW kind \in ActionTypes, TouchedElsewhere(k, kind)
         PROVE  ToldIsKnown'
    BY <1>15, <1>v, TouchEffect
       DEF TouchedElsewhere, cycleVars, ghosts, Behind, CycleIsFresh, ToldIsKnown, AnnouncedIsStored, Stored, Versions
  <1>16. CASE UNCHANGED vars
    BY <1>16, <1>v
       DEF vars, cycleVars, ghosts, Behind, CycleIsFresh, ToldIsKnown, AnnouncedIsStored, Stored, Versions
  <1>17. QED
    BY <1>1, <1>2, <1>3, <1>4, <1>5, <1>6, <1>7, <1>8, <1>9, <1>10, <1>11,
       <1>12, <1>13, <1>14, <1>15, <1>16
       DEF Next, Poller, ProcessSome, Faults, Web, GitHub

(* Only acknowledged dismissals reach the table.                           *)
LEMMA HiddenStep ==
  TypeOK /\ HiddenWasDeleted /\ [Next]_vars => HiddenWasDeleted'
  <1> SUFFICES ASSUME TypeOK, HiddenWasDeleted, [Next]_vars PROVE HiddenWasDeleted'
    OBVIOUS
  <1>v. Versions
    BY VersionFacts
  <1>1. CASE StartCycle
    BY <1>1, <1>v
       DEF StartCycle, NoneOf, ghosts, HiddenWasDeleted, HiddenOnlyAfterDelete, Stored, Versions
  <1>2. ASSUME NEW a \in Accounts, FetchAccount(a) PROVE HiddenWasDeleted'
    BY <1>2, <1>v, FetchEffect
       DEF FetchAccount, AfterFetch, ghosts, HiddenWasDeleted, HiddenOnlyAfterDelete, Stored, Versions
  <1>3. ASSUME NEW k \in Keys, NEW outcome \in Outcomes,
               NEW reply \in [ActionTypes -> Replies], Process(k, outcome, reply)
        PROVE  HiddenWasDeleted'
    BY <1>3, <1>v, ProcessEffect
       DEF HiddenWasDeleted, HiddenOnlyAfterDelete, Stored, Versions
  <1>4. CASE SaveRecords
    BY <1>4, <1>v, SaveEffect
       DEF SaveRecords, NoneOf, ghosts, HiddenWasDeleted, HiddenOnlyAfterDelete, Stored, Versions
  <1>5. CASE Prune
    BY <1>5, <1>v
       DEF Prune, Orphans, HiddenWasDeleted, HiddenOnlyAfterDelete, Stored, Versions
  <1>6. CASE SaveStatus
    BY <1>6, <1>v
       DEF SaveStatus, ghosts, HiddenWasDeleted, HiddenOnlyAfterDelete, Stored, Versions
  <1>7. CASE Dispatch
    BY <1>7, <1>v
       DEF Dispatch, Deliveries, EndCycle, NoneOf, HiddenWasDeleted, HiddenOnlyAfterDelete, Stored, Versions
  <1>8. ASSUME NEW a \in Accounts, FetchFails(a) PROVE HiddenWasDeleted'
    BY <1>8, <1>v
       DEF FetchFails, AfterFetch, ghosts, HiddenWasDeleted, HiddenOnlyAfterDelete, Stored, Versions
  <1>9. CASE CycleFails
    BY <1>9, <1>v
       DEF CycleFails, EndCycle, NoneOf, ghosts, HiddenWasDeleted, HiddenOnlyAfterDelete, Stored, Versions
  <1>10. CASE Restart
    BY <1>10, <1>v
       DEF Restart, EndCycle, NoneOf, ghosts, HiddenWasDeleted, HiddenOnlyAfterDelete, Stored, Versions
  <1>11. ASSUME NEW r \in inflight, WebStoreFails(r) PROVE HiddenWasDeleted'
    BY <1>11, <1>v
       DEF WebStoreFails, ghosts, cycleVars, HiddenWasDeleted, HiddenOnlyAfterDelete, Stored, Versions
  <1>12. ASSUME NEW kind \in ActionTypes, NEW k \in Keys,
                NEW reply \in {"ok", "lost"}, WebCall(kind, k, reply)
         PROVE  HiddenWasDeleted'
    BY <1>12, <1>v, WebCallEffect
       DEF HiddenWasDeleted, HiddenOnlyAfterDelete, Stored, Versions
  <1>13. ASSUME NEW r \in inflight, WebStore(r) PROVE HiddenWasDeleted'
    BY <1>13, <1>v, WebStoreEffect
       DEF WebStore, cycleVars, HiddenWasDeleted, HiddenOnlyAfterDelete, Stored, Versions
  <1>14. ASSUME NEW k \in Keys, NewActivity(k) PROVE HiddenWasDeleted'
    BY <1>14, <1>v, ActivityEffect
       DEF NewActivity, cycleVars, ghosts, HiddenWasDeleted, HiddenOnlyAfterDelete, Stored, Versions
  <1>15. ASSUME NEW k \in Keys, NEW kind \in ActionTypes, TouchedElsewhere(k, kind)
         PROVE  HiddenWasDeleted'
    BY <1>15, <1>v, TouchEffect
       DEF TouchedElsewhere, cycleVars, ghosts, HiddenWasDeleted, HiddenOnlyAfterDelete, Stored, Versions
  <1>16. CASE UNCHANGED vars
    BY <1>16, <1>v
       DEF vars, cycleVars, ghosts, HiddenWasDeleted, HiddenOnlyAfterDelete, Stored, Versions
  <1>17. QED
    BY <1>1, <1>2, <1>3, <1>4, <1>5, <1>6, <1>7, <1>8, <1>9, <1>10, <1>11,
       <1>12, <1>13, <1>14, <1>15, <1>16
       DEF Next, Poller, ProcessSome, Faults, Web, GitHub

(* What a save makes news is among the events of the cycle: a request that *)
(* could hide a row's turn from the previous snapshot is in readSince.     *)
LEMMA KeptStep ==
  TypeOK /\ NewsIsKept /\ [Next]_vars => NewsIsKept'
  <1> SUFFICES ASSUME TypeOK, NewsIsKept, [Next]_vars PROVE NewsIsKept'
    OBVIOUS
  <1>1. CASE StartCycle
    BY <1>1 DEF StartCycle, NewsIsKept
  <1>2. CASE SaveRecords
    <2>1. pc = "process" /\ pc' = "prune" /\ UNCHANGED <<prev, records>>
      BY <1>2 DEF SaveRecords
    <2>2. ASSUME NEW k \in Keys \ readSince, MadeNews(k)
          PROVE  k \in Events
      <3>1. /\ NotifyEnabled /\ records[k] # NoRow /\ ~records[k].dismissed
            /\ records[k].unread /\ records[k].loud /\ ~records[k].excluded
            /\ db[k] = NoRow \/ ~db[k].unread
        BY <1>2, <2>2, SaveEffect DEF MadeNews
      <3>2. prev[k] = NoRow \/ ~prev[k].unread
        BY <2>1, <3>1 DEF NewsIsKept
      <3>3. QED
        BY <3>1, <3>2 DEF Events, Announced
    <2>3. owed' \subseteq {<<k, records[k].ver>> : k \in Events}
      BY <1>2, <2>2 DEF SaveRecords
    <2>4. QED
      BY <2>1, <2>3 DEF NewsIsKept, Events
  <1>3. CASE Prune
    BY <1>3 DEF Prune, NewsIsKept, Events
  <1>4. CASE SaveStatus
    BY <1>4 DEF SaveStatus, ghosts, NewsIsKept, Events
  <1>5. CASE EndCycle
    BY <1>5 DEF EndCycle, NewsIsKept
  <1>6. ASSUME NEW r \in inflight, WebStore(r) PROVE NewsIsKept'
    <2>1. /\ UNCHANGED <<pc, prev, records, owed>>
          /\ readSince \subseteq readSince'
          /\ pc \in {"fetch", "process"} /\ TurnsRead(r) => r.key \in readSince'
      BY <1>6 DEF WebStore, cycleVars
    <2>2. r.key \in Keys /\ (r.kind = "mark_read" \/ r.kind = "dismiss")
      BY DEF TypeOK, Request, ActionTypes
    <2>3. ASSUME NotifyEnabled, pc \in {"fetch", "process"},
                 NEW k \in Keys \ readSince', prev[k] # NoRow, prev[k].unread
          PROVE  db'[k] # NoRow /\ db'[k].unread
      <3>1. db[k] # NoRow /\ db[k].unread
        BY <2>1, <2>3 DEF NewsIsKept
      <3>2. CASE k # r.key
        BY <1>6, <3>1, <3>2, WebStoreEffect
      <3>3. CASE k = r.key
        BY <1>6, <2>1, <2>2, <2>3, <3>1, <3>3, WebStoreEffect DEF TurnsRead
      <3>4. QED
        BY <3>2, <3>3
    <2>4. QED
      BY <2>1, <2>3 DEF NewsIsKept, Events
  <1>7. ASSUME NEW k \in Keys, NEW outcome \in Outcomes,
               NEW reply \in [ActionTypes -> Replies], Process(k, outcome, reply)
        PROVE  NewsIsKept'
    BY <1>7 DEF Process, NewsIsKept
  <1>8. ASSUME NEW a \in Accounts, AfterFetch(a), UNCHANGED <<db, prev, ghosts>>
        PROVE  NewsIsKept'
    BY <1>8 DEF AfterFetch, ghosts, NewsIsKept
  <1>9. CASE UNCHANGED <<pc, prev, records, db, owed, readSince>>
    BY <1>9 DEF NewsIsKept, Events
  <1>10. QED
    BY <1>1, <1>2, <1>3, <1>4, <1>5, <1>6, <1>7, <1>8, <1>9
       DEF Next, Poller, ProcessSome, Faults, Web, GitHub, Dispatch, FetchAccount,
       FetchFails, CycleFails, Restart, WebCall, WebStoreFails, NewActivity,
       TouchedElsewhere, vars, cycleVars, ghosts

(* An event of the cycle is of an activity that was not announced before.  *)
LEMMA DupStep ==
  TypeOK /\ CycleIsFresh /\ UnreadIsNews /\ ToldIsKnown /\ ~IncludeRead
    /\ RepeatsOnlyAfterLateMark /\ [Next]_vars
  => RepeatsOnlyAfterLateMark'
  <1> SUFFICES ASSUME TypeOK, UnreadIsNews, ToldIsKnown, ~IncludeRead,
                      RepeatsOnlyAfterLateMark, [Next]_vars
               PROVE  RepeatsOnlyAfterLateMark'
    OBVIOUS
  <1>1. CASE Dispatch
    <2>1. PICK delivered \in SUBSET Events :
            dup' = dup \cup {k \in delivered : <<k, records[k].ver>> \in told}
      BY <1>1 DEF Dispatch, Deliveries
    <2>2. ASSUME NEW k \in delivered, <<k, records[k].ver>> \in told
          PROVE  k \in late
      <3>1. /\ k \in Keys /\ records[k] # NoRow /\ records[k].unread
            /\ prev[k] = NoRow \/ ~prev[k].unread
        BY DEF Events, Announced
      <3>2. prev[k] # NoRow /\ records[k].ver <= prev[k].ver
        BY <1>1, <2>2 DEF ToldIsKnown, Dispatch, Deliveries
      <3>3. prev[k].ver \in Nat /\ records[k].ver \in Nat
        BY <3>1, <3>2, VersionFacts DEF Versions
      <3>4. QED
        BY <3>1, <3>2, <3>3 DEF UnreadIsNews
    <2>3. QED
      BY <1>1, <2>1, <2>2 DEF Dispatch, Deliveries, RepeatsOnlyAfterLateMark
  <1>2. CASE ~Dispatch
    <2>1. dup' = dup /\ late \subseteq late'
      BY <1>2 DEF Next, Poller, ProcessSome, Faults, Web, GitHub, StartCycle,
         FetchAccount, FetchFails, Process, SaveRecords, Prune, SaveStatus, CycleFails,
         Restart, WebCall, WebStore, WebStoreFails, NewActivity, TouchedElsewhere,
         ghosts, vars
    <2>2. QED
      BY <2>1 DEF RepeatsOnlyAfterLateMark
  <1>3. QED
    BY <1>1, <1>2

-----------------------------------------------------------------------------
(* The invariant, and what it implies.                                     *)

LEMMA InitIInv == Init => IInv
  <1> SUFFICES ASSUME Init PROVE IInv
    OBVIOUS
  <1> USE PollAssumption, ConstantsAssumption
  <1>1. TypeOK
    BY DEF Init, TypeOK, NoneOf, Thread, Status, States
  <1>2. /\ \A k \in Keys : /\ db[k] = NoRow /\ prev[k] = NoRow
                          /\ batch[k] = NoRow /\ records[k] = NoRow
        /\ inflight = {} /\ told = {} /\ dup = {} /\ toFetch = {}
        /\ pc = "idle" /\ batch = NoneOf /\ records = NoneOf
    BY DEF Init, NoneOf
  <1>3. QED
    BY <1>1, <1>2 DEF IInv, Behind, ReadsAreTrue, ReadRowIsRead, CycleIsFresh,
       UnreadIsNews, ToldIsKnown, AnnouncedIsStored, HiddenWasDeleted,
       HiddenOnlyAfterDelete, NewsIsKept, RepeatsOnlyAfterLateMark, Stored

LEMMA NextIInv == IInv /\ [Next]_vars => IInv'
  BY TypeStep, BehindStep, ReadsStep, FreshStep, NewsStep, ToldStep, HiddenStep,
     KeptStep, DupStep DEF IInv

(* IInv holds in every reachable state.                                    *)
THEOREM Invariance == Spec => []IInv
  BY InitIInv, NextIInv, PTL DEF Spec

(* Every variable always has its type.                                     *)
THEOREM TypeCorrect == Spec => []TypeOK
  BY Invariance, PTL DEF IInv

(* A row that shows the latest activity as read is right, but for a late   *)
(* mark-read: the handlers and the poller write what GitHub acknowledged.  *)
THEOREM ReadRowsAreRead == Spec => []ReadRowIsRead
  BY Invariance, PTL DEF IInv, ReadsAreTrue

(* Everything announced is in the table (saved before it is dispatched).   *)
THEOREM AnnouncedRowsAreStored == Spec => []AnnouncedIsStored
  BY Invariance, PTL DEF IInv, ToldIsKnown

(* No news is swallowed between a save and its dispatch, in any order of   *)
(* requests, activity and reads: it is why the previous snapshot is loaded *)
(* before anything is fetched.                                             *)
THEOREM NewsReachesDispatch == Spec => []NewsIsAnnounced
  <1>1. IInv => NewsIsAnnounced
    BY DEF IInv, NewsIsKept, NewsIsAnnounced
  <1>2. QED
    BY <1>1, Invariance, PTL

(* No row is hidden before GitHub acknowledged its thread's dismissal.     *)
THEOREM HiddenRowsAreDeleted == Spec => []HiddenOnlyAfterDelete
  BY Invariance, PTL DEF IInv, HiddenWasDeleted

(* With include_read off, one activity is announced twice only after a     *)
(* mark-read that was stored late: reading the previous snapshot before    *)
(* fetching, and calling GitHub before the table, are both needed for it.  *)
THEOREM OneAnnouncement == ~IncludeRead => (Spec => []RepeatsOnlyAfterLateMark)
  <1> SUFFICES ASSUME ~IncludeRead PROVE Spec => []RepeatsOnlyAfterLateMark
    OBVIOUS
  <1>1. IInv => RepeatsOnlyAfterLateMark
    BY DEF IInv
  <1>2. QED
    BY <1>1, Invariance, PTL

(* A dismissed row stays dismissed while its account is configured.        *)
THEOREM DismissalIsFinal == Spec => DismissedStays
  <1>1. TypeOK /\ [Next]_vars =>
          [\A k \in Keys :
             Stored(k) /\ db[k].dismissed =>
               IF db'[k] = NoRow THEN AccountOf[k] \notin cfg.accounts
                                 ELSE db'[k].dismissed]_vars
    <2> SUFFICES ASSUME TypeOK, [Next]_vars, NEW k \in Keys, db[k] # NoRow,
                        db[k].dismissed
                 PROVE  IF db'[k] = NoRow THEN AccountOf[k] \notin cfg.accounts
                                          ELSE db'[k].dismissed
      BY DEF Stored
    <2>1. CASE SaveRecords
      BY <2>1, SaveEffect
    <2>2. CASE Prune
      BY <2>2 DEF Prune, Orphans
    <2>3. ASSUME NEW r \in inflight, WebStore(r)
          PROVE  db'[k] # NoRow /\ db'[k].dismissed
      BY <2>3, WebStoreEffect
    <2>4. CASE UNCHANGED db
      BY <2>4
    <2>5. QED
      BY <2>1, <2>2, <2>3, <2>4 DEF Next, Poller, ProcessSome, Faults, Web, GitHub,
         StartCycle, FetchAccount, FetchFails, Process, SaveStatus, Dispatch, Deliveries, CycleFails,
         Restart, WebCall, WebStoreFails, NewActivity, TouchedElsewhere, vars
  <1>2. QED
    BY <1>1, TypeCorrect, PTL DEF Spec, DismissedStays

(* A row disappears only with its account, never for a failed fetch.       *)
THEOREM RowsStay == Spec => RowsOutliveFailures
  <1>1. TypeOK /\ [Next]_vars =>
          [\A k \in Keys :
             Stored(k) /\ db'[k] = NoRow => AccountOf[k] \notin cfg.accounts]_vars
    <2> SUFFICES ASSUME TypeOK, [Next]_vars, NEW k \in Keys, db[k] # NoRow,
                        db'[k] = NoRow
                 PROVE  AccountOf[k] \notin cfg.accounts
      BY DEF Stored
    <2>1. CASE SaveRecords
      BY <2>1, SaveEffect
    <2>2. CASE Prune
      BY <2>2 DEF Prune, Orphans
    <2>3. ASSUME NEW r \in inflight, WebStore(r) PROVE FALSE
      BY <2>3, WebStoreEffect
    <2>4. CASE UNCHANGED db
      BY <2>4
    <2>5. QED
      BY <2>1, <2>2, <2>3, <2>4 DEF Next, Poller, ProcessSome, Faults, Web, GitHub,
         StartCycle, FetchAccount, FetchFails, Process, SaveStatus, Dispatch, Deliveries, CycleFails,
         Restart, WebCall, WebStoreFails, NewActivity, TouchedElsewhere, vars
  <1>2. QED
    BY <1>1, TypeCorrect, PTL DEF Spec, RowsOutliveFailures

(* PollCycle implements DashboardContract: every step of the poller, the   *)
(* handlers and GitHub is a step of the contract or changes none of it.    *)
THEOREM Refinement == Spec => KeepsContract
  <1>1. Init => Contract!Init
    BY DEF Init, NoneOf, View, Contract!Init
  <1>2. IInv /\ [Next]_vars => [Contract!Next]_(Contract!vars)
    <2> SUFFICES ASSUME IInv, [Next]_vars
                 PROVE  Contract!Next \/ UNCHANGED <<View, told>>
      BY DEF Contract!vars
    <2>t. TypeOK
      BY DEF IInv
    <2>1. CASE SaveRecords
      <3>1. \A k \in Keys : View[k] # "absent" => View'[k] = View[k]
        BY <2>1, <2>t, SaveEffect DEF View
      <3>2. View' \in [Keys -> {"absent", "shown", "hidden"}]
        BY DEF View
      <3>3. Contract!Refresh
        BY <2>1, <3>1, <3>2 DEF Contract!Refresh, SaveRecords, ghosts
      <3>4. QED
        BY <3>3 DEF Contract!Next
    <2>2. CASE Prune
      <3>1. Orphans \in SUBSET Keys
        BY DEF Orphans
      <3>2. View' = [k \in Keys |-> IF k \in Orphans THEN "absent" ELSE View[k]]
        BY <2>2 DEF Prune, View
      <3>3. Contract!Forget(Orphans)
        BY <2>2, <3>2 DEF Prune, Contract!Forget
      <3>4. QED
        BY <3>1, <3>3 DEF Contract!Next
    <2>3. CASE Dispatch
      <3>1. told \subseteq told' /\ UNCHANGED db
        BY <2>3 DEF Dispatch, Deliveries
      <3>2. \A t \in told' \ told : t[1] \in Keys /\ db[t[1]] # NoRow
        <4>1. PICK delivered \in SUBSET Events :
                told' = told \cup {<<k, records[k].ver>> : k \in delivered}
          BY <2>3 DEF Dispatch, Deliveries
        <4>2. \A k \in Events : k \in Keys /\ records[k] # NoRow
          BY DEF Events, Announced
        <4>3. \A k \in Events : db[k] # NoRow
          BY <2>3, <4>2 DEF IInv, CycleIsFresh, Dispatch, Deliveries
        <4>4. QED
          BY <4>1, <4>2, <4>3
      <3>3. Contract!Announce
        BY <3>1, <3>2 DEF Contract!Announce, View
      <3>4. QED
        BY <3>3 DEF Contract!Next
    <2>4. ASSUME NEW r \in inflight, WebStore(r)
          PROVE  Contract!Next \/ UNCHANGED <<View, told>>
      <3>1. r.key \in Keys /\ r.kind \in ActionTypes
        BY <2>t DEF TypeOK, Request
      <3>2. UNCHANGED told
        BY <2>4 DEF WebStore
      <3>3. CASE db[r.key] # NoRow /\ (r.kind = "dismiss" \/ db[r.key].dismissed)
        <4>1. View' = [View EXCEPT ![r.key] = "hidden"]
          BY <2>4, <2>t, <3>1, <3>3, WebStoreEffect DEF View
        <4>2. Contract!Hide(r.key)
          BY <3>2, <3>3, <3>1, <4>1 DEF Contract!Hide, View
        <4>3. QED
          BY <3>1, <4>2 DEF Contract!Next
      <3>4. CASE db[r.key] = NoRow \/ (r.kind # "dismiss" /\ ~db[r.key].dismissed)
        <4>1. View' = View
          BY <2>4, <2>t, <3>1, <3>4, WebStoreEffect DEF View
        <4>2. QED
          BY <3>2, <4>1
      <3>5. QED
        BY <3>3, <3>4
    <2>5. CASE UNCHANGED <<db, told>>
      BY <2>5 DEF View
    <2>6. QED
      BY <2>1, <2>2, <2>3, <2>4, <2>5 DEF Next, Poller, ProcessSome, Faults, Web,
         GitHub, StartCycle, FetchAccount, FetchFails, Process, SaveStatus, CycleFails,
         Restart, WebCall, WebStoreFails, NewActivity, TouchedElsewhere, vars, ghosts
  <1>3. QED
    BY <1>1, <1>2, Invariance, PTL DEF Spec, KeepsContract, Contract!Spec
=============================================================================
