--------------------------- MODULE SnapshotStore ---------------------------
(***************************************************************************)
(* The browser's side of live updates (frontend/src/lib/snapshot.svelte.ts)*)
(* One fetch is in flight at a time and later requests coalesce into one   *)
(* reload; an EventSource pushes snapshots of the current dashboard; once  *)
(* it is closed for good, an interval polls instead.  The server is here   *)
(* only as a version that grows, read by a fetch at some moment between    *)
(* request and answer, and the dashboards configured at that version.      *)
(* DashboardView says which dashboard the store is asked for.              *)
(***************************************************************************)
EXTENDS Naturals, Sequences, Functions

CONSTANTS
  Names,       \* dashboard names
  Default,     \* the key of no name: whatever dashboard comes first
  NamesAt,     \* dashboard_names of each version, in order
  None,        \* null
  HasStream,   \* typeof EventSource # "undefined"
  MaxVersion,  \* bound on version
  MaxSwitches, \* bound on switches
  MaxFaults,   \* bound on faults
  MaxPushed    \* bound on Len(stream)

Dashboards == Names \cup {Default}
Snapshot == [dashboard : Dashboards, version : 0..MaxVersion]
Modes == {"auto", "manual", "initial"}
Fetch == [mode : Modes, dashboard : Dashboards, answer : {"none", "ok", "failed"},
          version : 0..MaxVersion]

ASSUME StoreAssumption ==
  /\ None \notin Snapshot /\ None \notin Modes /\ None \notin Fetch
  /\ Default \notin Names /\ None \notin Names
  /\ \A v \in 0..MaxVersion :
       NamesAt[v] \in Seq(Names) /\ NamesAt[v] # <<>> /\ IsInjective(NamesAt[v])
  /\ HasStream \in BOOLEAN
  /\ MaxVersion \in Nat /\ MaxSwitches \in Nat /\ MaxFaults \in Nat /\ MaxPushed \in Nat

VARIABLES
  version,    \* what the server would answer now
  snapshot,   \* the snapshot shown
  loading,    \* the initial spinner
  refreshing, \* manualRefreshing
  dashboard,  \* #dashboard, the key start() was last called with
  fetch,      \* the request in flight, or None
  queued,     \* #queuedMode when #needsReload, else None
  stream,     \* snapshots pushed to the open EventSource and not handled yet
  pushed,     \* version the server pushed last on this connection, or None
  closed,     \* readyState is CLOSED and the fallback interval runs
  switches,   \* dashboard changes so far, for the bound
  faults      \* failures so far, for the bound

VARIABLES     \* history, read by the properties only
  wanted,     \* version at the last request for a load
  loaded      \* version the server read for the last fetch it answered

vars == <<version, snapshot, loading, refreshing, dashboard, fetch, queued,
          stream, pushed, closed, switches, faults, wanted, loaded>>
serverVars == <<stream, pushed, closed>>
bounds == <<switches, faults>>

TypeOK ==
  /\ version \in 0..MaxVersion
  /\ snapshot \in Snapshot \cup {None}
  /\ loading \in BOOLEAN /\ refreshing \in BOOLEAN
  /\ dashboard \in Dashboards
  /\ fetch \in Fetch \cup {None}
  /\ queued \in Modes \cup {None}
  /\ stream \in Seq(0..MaxVersion) /\ Len(stream) <= MaxPushed
  /\ pushed \in 0..MaxVersion \cup {None}
  /\ closed \in BOOLEAN
  /\ switches \in 0..MaxSwitches /\ faults \in 0..MaxFaults
  /\ wanted \in 0..MaxVersion /\ loaded \in 0..MaxVersion

-----------------------------------------------------------------------------
Request(mode, d) == [mode |-> mode, dashboard |-> d, answer |-> "none", version |-> 0]

Rank(mode) == CASE mode = "initial" -> 3 [] mode = "manual" -> 2 [] OTHER -> 1

(* A bug to exclude: the latest mode wins.                                 *)
Higher_Last(mode, other) == TRUE

Higher(mode, other) == other = None \/ Rank(mode) > Rank(other)

(* #load: at most one fetch; requests meanwhile are queued as one.         *)
Load(mode, d) ==
  /\ wanted' = version
  /\ IF fetch = None
     THEN /\ fetch' = Request(mode, d)
          /\ refreshing' = (refreshing \/ mode = "manual")
          /\ UNCHANGED queued
     ELSE /\ queued' = IF Higher(mode, queued) THEN mode ELSE queued
          /\ UNCHANGED <<fetch, refreshing>>

(* #start: called with the first dashboard, then whenever the key changes; *)
(* the previous stream was torn down and its late events are ignored.      *)
Start(d) ==
  /\ dashboard' = d
  /\ loading' = TRUE
  /\ Load("initial", d)
  /\ stream' = <<>> /\ pushed' = None /\ closed' = FALSE

StoreInit(d) ==
  /\ version = 0 /\ snapshot = None
  /\ dashboard = d
  /\ loading = TRUE /\ refreshing = FALSE
  /\ fetch = Request("initial", d)
  /\ queued = None
  /\ stream = <<>> /\ pushed = None /\ closed = FALSE
  /\ switches = 0 /\ faults = 0
  /\ wanted = 0 /\ loaded = 0

(* The user, or a dismissal or mark-read that just succeeded.              *)
Refresh ==
  /\ Load("manual", dashboard)
  /\ UNCHANGED <<version, snapshot, loading, dashboard, serverVars, bounds, loaded>>

(* The fallback interval, or the only one without EventSource.             *)
PollTick ==
  /\ closed \/ ~HasStream
  /\ Load("auto", dashboard)
  /\ UNCHANGED <<version, snapshot, loading, dashboard, serverVars, bounds, loaded>>

(* A bug to exclude: what was queued during the fetch is forgotten.        *)
Settle_Forgets ==
  /\ fetch # None /\ fetch.answer # "none"
  /\ snapshot' = IF fetch.answer = "ok"
                 THEN [dashboard |-> fetch.dashboard, version |-> fetch.version]
                 ELSE snapshot
  /\ loaded' = fetch.version
  /\ loading' = (loading /\ fetch.mode # "initial")
  /\ fetch' = None
  /\ refreshing' = (refreshing /\ fetch.mode # "manual")
  /\ queued' = None
  /\ UNCHANGED <<version, dashboard, serverVars, bounds, wanted>>

(* A bug to exclude: a fetch that failed stays in flight for good.         *)
Settle_NoFinally ==
  /\ fetch # None /\ fetch.answer = "ok"
  /\ snapshot' = [dashboard |-> fetch.dashboard, version |-> fetch.version]
  /\ loaded' = fetch.version
  /\ loading' = (loading /\ fetch.mode # "initial")
  /\ fetch' = IF queued = None THEN None ELSE Request(queued, dashboard)
  /\ refreshing' = (queued = "manual" \/ (refreshing /\ fetch.mode # "manual"))
  /\ queued' = None
  /\ UNCHANGED <<version, dashboard, serverVars, bounds, wanted>>

(* The rest of #load, once its fetch has been answered: show the data,     *)
(* drop the flags of its mode, start the queued load.                      *)
Settle ==
  /\ fetch # None /\ fetch.answer # "none"
  /\ snapshot' = IF fetch.answer = "ok"
                 THEN [dashboard |-> fetch.dashboard, version |-> fetch.version]
                 ELSE snapshot
  /\ loaded' = fetch.version
  /\ loading' = (loading /\ fetch.mode # "initial")
  /\ fetch' = IF queued = None THEN None ELSE Request(queued, dashboard)
  /\ refreshing' = (queued = "manual" \/ (refreshing /\ fetch.mode # "manual"))
  /\ queued' = None
  /\ UNCHANGED <<version, dashboard, serverVars, bounds, wanted>>

(* A "snapshot" event of the current stream.                               *)
HandlePush ==
  /\ stream # <<>>
  /\ snapshot' = [dashboard |-> dashboard, version |-> Head(stream)]
  /\ stream' = Tail(stream)
  /\ loading' = FALSE
  /\ UNCHANGED <<version, refreshing, dashboard, fetch, queued, pushed, closed,
                 bounds, wanted, loaded>>

-----------------------------------------------------------------------------
(* The server and the network.                                             *)

Change ==
  /\ version < MaxVersion
  /\ version' = version + 1
  /\ UNCHANGED <<snapshot, loading, refreshing, dashboard, fetch, queued,
                 serverVars, bounds, wanted, loaded>>

(* _select_dashboard: no name selects the first, an unknown one is a 404.  *)
Known(d) == d = Default \/ d \in Range(NamesAt[version])

(* GET /api/v1/snapshot reads configuration and database.                  *)
Answer ==
  /\ fetch # None /\ fetch.answer = "none"
  /\ fetch' = [fetch EXCEPT !.answer = IF Known(fetch.dashboard) THEN "ok" ELSE "failed",
                            !.version = version]
  /\ UNCHANGED <<version, snapshot, loading, refreshing, dashboard, queued,
                 serverVars, bounds, wanted, loaded>>

Fault == faults < MaxFaults /\ faults' = faults + 1 /\ UNCHANGED switches

AnswerFails ==
  /\ Fault
  /\ fetch # None /\ fetch.answer = "none"
  /\ fetch' = [fetch EXCEPT !.answer = "failed"]
  /\ UNCHANGED <<version, snapshot, loading, refreshing, dashboard, queued,
                 serverVars, wanted, loaded>>

(* The connection's generator pushes what differs from its last push; a    *)
(* 404 is pushed as an error, which leaves the snapshot alone.             *)
Push ==
  /\ HasStream /\ ~closed /\ Known(dashboard) /\ pushed # version /\ Len(stream) < MaxPushed
  /\ stream' = Append(stream, version)
  /\ pushed' = version
  /\ UNCHANGED <<version, snapshot, loading, refreshing, dashboard, fetch, queued,
                 closed, bounds, wanted, loaded>>

(* A poll that changes nothing else changes the poll time, and so the body.*)
Poll ==
  /\ pushed # None
  /\ pushed' = None
  /\ UNCHANGED <<version, snapshot, loading, refreshing, dashboard, fetch, queued,
                 stream, closed, bounds, wanted, loaded>>

(* The connection breaks: EventSource opens another one by itself, or      *)
(* gives up and onerror starts the fallback.                               *)
Disconnect ==
  /\ Fault
  /\ HasStream /\ ~closed
  /\ stream' = <<>> /\ pushed' = None
  /\ closed' \in BOOLEAN
  /\ UNCHANGED <<version, snapshot, loading, refreshing, dashboard, fetch, queued,
                 wanted, loaded>>

-----------------------------------------------------------------------------
(* No refresh is lost: when no fetch is left in flight and none has        *)
(* failed, the last one was answered by the server after the last request  *)
(* for a load, however they interleaved ("In-flight loads coalesce").      *)
NoRefreshLost == fetch = None /\ faults = 0 => loaded >= wanted

(* A spinner is never left on: it spins for a load of its own mode that is *)
(* in flight or queued ("the queued reload keeping the highest-ranked      *)
(* LoadMode").                                                             *)
SpinnersEnd ==
  /\ loading => queued = "initial" \/ (fetch # None /\ fetch.mode = "initial")
  /\ refreshing => fetch # None /\ fetch.mode = "manual"

(* "falls back to 15s polling only once the connection is definitively     *)
(* CLOSED": once it is, the interval brings the latest data of a known      *)
(* dashboard, whatever failed before.                                      *)
FallbackCatchesUp ==
  <>[](closed /\ Known(dashboard)) => <>[](snapshot # None /\ snapshot.version = version)

(* The same of an open stream, which pushes only what changes.             *)
ShowsLatest == <>[](snapshot # None /\ snapshot.version = version)
=============================================================================
