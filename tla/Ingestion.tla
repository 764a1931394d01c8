----------------------------- MODULE Ingestion -----------------------------
(***************************************************************************)
(* One account's poll cycle as ingestion.py carries it out: GitHub's inbox *)
(* is read page by page while it moves, the notifications are processed in *)
(* the order they were listed, a DELETE that GitHub throttles is repeated, *)
(* and the records are saved and announced one by one.  PollCycle takes a  *)
(* fetch and a DELETE as one step each; here they are not.  The mode is    *)
(* "apply" and the only action "dismiss": mark_read is a single PATCH, as  *)
(* PollCycle has it.                                                       *)
(***************************************************************************)
EXTENDS Records, Ranking, Sequences

CONSTANTS
  FirstInboxes, \* what GitHub may list at the first poll: when each thread
                \* was active last, 0 for those it does not list
  PollAll,      \* polling.all
  PerPage,      \* polling.per_page
  MaxPages,     \* polling.max_pages
  MaxAttempts,  \* max_attempts of _request_no_content_with_backoff
  MaxActivity,  \* bound on the moments of activity
  MaxFaults     \* bound on failed fetches

ASSUME IngestionAssumption ==
  /\ FirstInboxes \subseteq [Keys -> Nat]
  /\ \A first \in FirstInboxes :
       /\ IsFiniteSet({k \in Keys : first[k] > 0})
       /\ \A j, k \in Keys : first[j] = first[k] /\ first[k] > 0 => j = k
  /\ PollAll \in BOOLEAN
  /\ PerPage \in Nat \ {0} /\ MaxPages \in Nat \ {0} /\ MaxAttempts \in Nat \ {0}
  /\ MaxActivity \in Nat /\ MaxFaults \in Nat

VARIABLES
  inbox,    \* GitHub: [Keys -> Thread]; ver is the moment of the latest
            \* activity, which no two threads share
  db,       \* notification_records
  pc,       \* "idle", "fetch", "process"
  page,     \* the page fetch_notifications asks for next
  fetched,  \* notifications collected, not processed yet
  attempt,  \* DELETE attempts for the first of them, 0 before the first
  records,  \* records processed so far
  faults    \* failed fetches so far

VARIABLES   \* history, read by the properties only
  steady,   \* threads listed since the fetch began, without activity of
            \* their own and without a thread ahead of them leaving
  pushed,   \* an activity moved the list between two pages of this cycle
  deleted,  \* keys for which GitHub acknowledged a DELETE
  told,     \* <<key, ver>> announced
  repeats   \* keys announced again for one ver in the last cycle

cycleVars == <<pc, page, fetched, attempt, records>>
ghosts == <<steady, pushed, deleted, told, repeats>>
vars == <<inbox, db, cycleVars, faults, ghosts>>

-----------------------------------------------------------------------------
(* The inbox: what GET /notifications lists, latest activity first.        *)

Listed == {k \in Keys : inbox[k].listed /\ (PollAll \/ inbox[k].unread)}
LatestFirst == {q \in Listed \X Listed : inbox[q[1]].ver > inbox[q[2]].ver}
Listing == Ranked(Listed, LatestFirst)
Position(k) == IF k \in Listed THEN Cardinality(Preceding(Listed, LatestFirst, k)) + 1
                               ELSE 0

(* A thread that leaves the list pulls those behind it towards the front.  *)
Left(k) == IF k \in Listed THEN {j \in Keys : Position(j) >= Position(k)} ELSE {}

NewActivity(k) ==
  /\ \E moment \in 1..MaxActivity :
       /\ \A j \in Keys : inbox[j].ver < moment
       /\ inbox' = [inbox EXCEPT ![k] = [listed |-> TRUE, unread |-> TRUE, ver |-> moment]]
  /\ steady' = steady \ {k}
  /\ pushed' = (pushed \/ (pc = "fetch" /\ page > 1))
  /\ UNCHANGED <<db, cycleVars, faults, deleted, told, repeats>>

Removed(k) == [inbox EXCEPT ![k] = AfterCalls(@, {"dismiss"})]

DoneElsewhere(k) ==
  /\ inbox[k].listed
  /\ inbox' = Removed(k)
  /\ steady' = steady \ Left(k)
  /\ UNCHANGED <<db, cycleVars, faults, pushed, deleted, told, repeats>>

ReadElsewhere(k) ==
  /\ inbox[k].listed /\ inbox[k].unread
  /\ inbox' = [inbox EXCEPT ![k] = AfterCalls(@, {"mark_read"})]
  /\ steady' = IF PollAll THEN steady ELSE steady \ Left(k)
  /\ UNCHANGED <<db, cycleVars, faults, pushed, deleted, told, repeats>>

-----------------------------------------------------------------------------
(* fetch_notifications.                                                    *)

Init ==
  /\ \E first \in FirstInboxes :
       inbox = [k \in Keys |-> [listed |-> first[k] > 0, unread |-> first[k] > 0,
                                ver |-> first[k]]]
  /\ db = [k \in Keys |-> NoRow]
  /\ pc = "idle" /\ page = 1 /\ fetched = <<>>
  /\ attempt = 0 /\ records = <<>>
  /\ faults = 0
  /\ steady = {} /\ pushed = FALSE /\ deleted = {} /\ told = {} /\ repeats = {}

StartFetch ==
  /\ pc = "idle"
  /\ pc' = "fetch"
  /\ steady' = Listed
  /\ pushed' = FALSE
  /\ repeats' = {}
  /\ UNCHANGED <<inbox, db, page, fetched, attempt, records, faults, deleted, told>>

(* What GitHub answers for the page asked for.                             *)
Item(k) == [key |-> k, unread |-> inbox[k].unread, ver |-> inbox[k].ver]
Raw ==
  LET first == (page - 1) * PerPage
      last  == IF page * PerPage < Len(Listing) THEN page * PerPage ELSE Len(Listing)
  IN  [i \in 1..(last - first) |-> Item(Listing[first + i])]

(* A bug to exclude: the last page is left out.                            *)
WithinCap_Strict == page < MaxPages
WithinCap == page <= MaxPages

FetchPage ==
  /\ pc = "fetch" /\ WithinCap /\ Raw # <<>>
  /\ fetched' = fetched \o Raw
  /\ page' = page + 1
  /\ UNCHANGED <<inbox, db, pc, attempt, records, faults, ghosts>>

(* An empty page, or max_pages.                                            *)
EndFetch ==
  /\ pc = "fetch"
  /\ ~WithinCap \/ Raw = <<>>
  /\ pc' = "process"
  /\ page' = 1
  /\ steady' = {}
  /\ UNCHANGED <<inbox, db, fetched, attempt, records, faults, pushed,
                 deleted, told, repeats>>

(* A page raises: the pages before it are lost with it.                    *)
FetchFails ==
  /\ pc = "fetch" /\ WithinCap
  /\ faults < MaxFaults
  /\ faults' = faults + 1
  /\ pc' = "process"
  /\ page' = 1
  /\ fetched' = <<>>
  /\ steady' = {}
  /\ UNCHANGED <<inbox, db, attempt, records, pushed, deleted, told, repeats>>

-----------------------------------------------------------------------------
(* _process_notifications and execute_actions.                             *)

Record(taken) ==
  MakeRecord(Head(fetched), [actions |-> {}, excluded |-> FALSE, loud |-> TRUE], taken)

Finish(taken) ==
  /\ records' = Append(records, [key |-> Head(fetched).key, row |-> Record(taken)])
  /\ fetched' = Tail(fetched)
  /\ attempt' = 0

(* The rules leave the next notification alone, or dismiss it.             *)
Process(dismiss) ==
  /\ pc = "process" /\ fetched # <<>> /\ attempt = 0
  /\ IF dismiss THEN attempt' = 1 /\ UNCHANGED <<fetched, records>>
                ELSE Finish({})
  /\ UNCHANGED <<inbox, db, pc, page, faults, ghosts>>

DeleteReturns ==
  /\ attempt > 0
  /\ inbox' = Removed(Head(fetched).key)
  /\ deleted' = deleted \cup {Head(fetched).key}
  /\ Finish({"dismiss"})
  /\ UNCHANGED <<db, pc, page, faults, steady, pushed, told, repeats>>

(* A bug to exclude: a throttled call is repeated until it is answered.    *)
DeleteThrottled_Forever ==
  /\ 0 < attempt
  /\ attempt' = IF attempt < MaxAttempts THEN attempt + 1 ELSE 1
  /\ UNCHANGED <<inbox, db, pc, page, fetched, records, faults, ghosts>>

(* 403 or 429: sleep and try again.                                        *)
DeleteThrottled ==
  /\ 0 < attempt /\ attempt < MaxAttempts
  /\ attempt' = attempt + 1
  /\ UNCHANGED <<inbox, db, pc, page, fetched, records, faults, ghosts>>

(* A bug to exclude: the loop ends without an error.                       *)
DeleteRaises_Silent(lost) ==
  /\ attempt = MaxAttempts /\ ~lost
  /\ Finish({"dismiss"})
  /\ UNCHANGED <<inbox, db, pc, page, faults, ghosts>>

(* Another status, a throttled last attempt, or no answer, which may be to *)
(* a call that took effect: the error is recorded, the action is not.      *)
DeleteRaises(lost) ==
  /\ attempt > 0
  /\ inbox' = IF lost THEN Removed(Head(fetched).key) ELSE inbox
  /\ Finish({})
  /\ UNCHANGED <<db, pc, page, faults, ghosts>>

-----------------------------------------------------------------------------
(* save_records, then the events.                                          *)

StoreRecord(table, r) == [table EXCEPT ![r.key] = Upsert(@, r.row)]

(* The table after the first n records, and after all of them.             *)
SaveRecords(table) ==
  LET after[n \in 0..Len(records)] ==
        IF n = 0 THEN table ELSE StoreRecord(after[n - 1], records[n])
  IN  after[Len(records)]

(* Every record is compared with the rows loaded before the cycle; nobody  *)
(* else writes them in this module.                                        *)
Events == {i \in DOMAIN records : Announced(db[records[i].key], records[i].row)}
Activity(i) == <<records[i].key, records[i].row.ver>>
Repeats ==
  {records[i].key : i \in {i \in Events :
     Activity(i) \in told \/ \E j \in Events : j # i /\ Activity(j) = Activity(i)}}

SaveAndDispatch ==
  /\ pc = "process" /\ fetched = <<>>
  /\ pc' = "idle"
  /\ db' = SaveRecords(db)
  /\ records' = <<>>
  /\ told' = told \cup {Activity(i) : i \in Events}
  /\ repeats' = Repeats
  /\ UNCHANGED <<inbox, page, fetched, attempt, faults, steady, pushed, deleted>>

-----------------------------------------------------------------------------
Poller ==
  \/ StartFetch \/ FetchPage \/ EndFetch
  \/ \E dismiss \in BOOLEAN : Process(dismiss)
  \/ DeleteReturns \/ DeleteThrottled
  \/ \E lost \in BOOLEAN : DeleteRaises(lost)
  \/ SaveAndDispatch

GitHub == \E k \in Keys : NewActivity(k) \/ DoneElsewhere(k) \/ ReadElsewhere(k)

Next == Poller \/ FetchFails \/ GitHub

Spec == Init /\ [][Next]_vars

(* The cycle runs on: every call of it answers or raises (each request has *)
(* a timeout).  Nothing is assumed of what GitHub answers.                 *)
FairSpec == Spec /\ WF_vars(Poller)

-----------------------------------------------------------------------------
Reach == PerPage * MaxPages
Collected == {fetched[i].key : i \in DOMAIN fetched}

(* Pages are cut from a list that moves.  A thread that kept its place, or *)
(* was only pushed back by others, is fetched if it is still within reach  *)
(* when the last page is in; only its own activity, or a thread ahead of   *)
(* it leaving, can make a cycle miss it (fetch_notifications).             *)
SteadyThreadsAreFetched ==
  [][EndFetch => \A k \in steady : Position(k) <= Reach => k \in Collected]_vars

(* However often a DELETE is throttled and repeated, a row that says it    *)
(* was dismissed stands for a DELETE that GitHub acknowledged.             *)
DismissedWasDeleted ==
  \A k \in Keys : db[k] # NoRow /\ (db[k].dismissed \/ "dismiss" \in db[k].taken)
                    => k \in deleted

(* One activity is announced twice only by a cycle whose pages overlapped  *)
(* because new activity pushed the list between two of them.               *)
RepeatsOnlyIfPushed == repeats # {} => pushed

(* What a user would expect, and an overlap of two pages breaks: no        *)
(* activity is announced twice.                                            *)
NeverRepeats == repeats = {}

(* Once the inbox rests, every thread within reach of the pages is stored  *)
(* as GitHub lists it, whatever earlier cycles missed; so every cycle      *)
(* ends, although the inbox moves under it and every DELETE is throttled.  *)
Arrived(k) ==
  Position(k) \in 1..Reach => db[k] # NoRow /\ db[k].ver = inbox[k].ver
EveryThreadArrives == <>[](\A k \in Keys : Arrived(k))
=============================================================================
