--------------------------- MODULE DashboardView ---------------------------
(***************************************************************************)
(* Which dashboard the browser shows (frontend/src/lib/dashboards.svelte.ts*)
(* and router.svelte.ts) over the snapshot store: the URL names one, the   *)
(* fetch key is derived from it, and effects record the default's name and *)
(* normalise the URL against the names of the last snapshot.  Effects run  *)
(* before the browser handles its next event.                              *)
(***************************************************************************)
EXTENDS SnapshotStore

VARIABLES
  route,      \* the name in the URL, or None for "/"
  default,    \* #defaultName, or None
  navigated,  \* #userNavigated
  dirty       \* what the effects read has changed since they ran

viewVars == <<route, default, navigated, dirty>>
allVars == <<vars, viewVars>>

ViewTypeOK ==
  /\ TypeOK
  /\ route \in Names \cup {None} /\ default \in Names \cup {None}
  /\ navigated \in BOOLEAN /\ dirty \in BOOLEAN

FetchKey(r, first) == IF r # None /\ r # first THEN r ELSE Default

dashboardNames == IF snapshot = None THEN <<>> ELSE NamesAt[snapshot.version]
First == IF dashboardNames = <<>> THEN None ELSE Head(dashboardNames)
currentDashboard == IF route \in Range(dashboardNames) THEN route ELSE First

Init ==
  /\ route \in Names \cup {None}
  /\ default = None /\ navigated = FALSE /\ dirty = FALSE
  /\ StoreInit(FetchKey(route, default))

-----------------------------------------------------------------------------
(* setDashboard, which the selector and the palette offer for the names    *)
(* known.  The URL of the current dashboard changes nothing but the flag.  *)
Select(name) ==
  /\ ~dirty /\ switches < MaxSwitches
  /\ name \in Range(dashboardNames)
  /\ switches' = switches + 1
  /\ route' = name
  /\ navigated' = TRUE
  /\ dirty' = (name # route)
  /\ UNCHANGED <<version, snapshot, loading, refreshing, dashboard, fetch, queued,
                 serverVars, faults, wanted, loaded, default>>

(* popstate: Back and Forward, to whatever was visited.                    *)
Pop(r) ==
  /\ ~dirty /\ switches < MaxSwitches
  /\ r # route
  /\ switches' = switches + 1
  /\ route' = r
  /\ dirty' = TRUE
  /\ UNCHANGED <<version, snapshot, loading, refreshing, dashboard, fetch, queued,
                 serverVars, faults, wanted, loaded, default, navigated>>

(* A bug to exclude: the name is recorded only once.                       *)
Recorded_Once ==
  IF FetchKey(route, default) = Default /\ default = None THEN First ELSE default

(* The first effect of bind.                                               *)
Recorded ==
  IF FetchKey(route, default) = Default /\ First # None THEN First ELSE default

(* The last effect: once the names are known, the URL is replaced by that  *)
(* of the dashboard it resolves to, but not right after a selection.       *)
Normalised == IF First = None \/ navigated THEN route ELSE currentDashboard

(* One pass of the three effects.  A pass that changes the URL is followed *)
(* by another.                                                             *)
Effects ==
  LET key == FetchKey(route, Recorded)
  IN
  /\ dirty
  /\ default' = Recorded
  /\ IF key # dashboard
     THEN Start(key)
     ELSE UNCHANGED <<loading, refreshing, dashboard, fetch, queued, serverVars, wanted>>
  /\ route' = Normalised
  /\ navigated' = (navigated /\ First = None)
  /\ dirty' = (route' # route)
  /\ UNCHANGED <<version, snapshot, bounds, loaded>>

-----------------------------------------------------------------------------
(* The steps of the store; those that show a snapshot, be it an equal one, *)
(* make the effects run.                                                   *)
SettleFetch ==
  /\ ~dirty /\ Settle
  /\ dirty' = (fetch.answer = "ok")
  /\ UNCHANGED <<route, default, navigated>>
HandleEvent == ~dirty /\ HandlePush /\ dirty' = TRUE /\ UNCHANGED <<route, default, navigated>>
Interval == ~dirty /\ PollTick /\ UNCHANGED viewVars
UserRefresh == ~dirty /\ Refresh /\ UNCHANGED viewVars

Server ==
  /\ Change \/ AnswerFails \/ Disconnect
  /\ UNCHANGED viewVars
AnswerFetch == Answer /\ UNCHANGED viewVars
PushEvent == Push /\ UNCHANGED viewVars
PollerPolls == Poll /\ UNCHANGED viewVars

Next ==
  \/ Effects
  \/ SettleFetch \/ HandleEvent \/ Interval
  \/ UserRefresh
  \/ \E name \in Names : Select(name)
  \/ \E r \in Names \cup {None} : Pop(r)
  \/ Server \/ AnswerFetch \/ PushEvent \/ PollerPolls

Spec == Init /\ [][Next]_allVars

(* Effects and callbacks run, requests are answered, the stream and the    *)
(* interval go on; nothing is assumed of the user.                         *)
ClientFairSpec ==
  /\ Spec
  /\ WF_allVars(Effects)
  /\ WF_allVars(SettleFetch) /\ WF_allVars(HandleEvent) /\ WF_allVars(Interval)
  /\ WF_allVars(AnswerFetch) /\ WF_allVars(PushEvent)

(* And the poller polls.                                                   *)
FairSpec == ClientFairSpec /\ WF_allVars(PollerPolls)

-----------------------------------------------------------------------------
Shown == IF snapshot.dashboard = Default THEN Head(NamesAt[snapshot.version])
                                         ELSE snapshot.dashboard

(* Whatever the user selected or went back to, whatever was in flight, and *)
(* though the configured names or their order changed meanwhile: in the    *)
(* end the URL names the dashboard on screen, as long as no load fails and *)
(* the URL's name is configured.                                           *)
UrlNamesShown ==
  <>[](faults = 0 /\ (route = None \/ Known(route)) => snapshot # None /\ Shown = route)

(* "Unknown names fall back to the first configured dashboard"             *)
(* (dashboards.svelte.ts): no URL names an unknown one for good.           *)
UnknownFallsBack == <>[](faults = 0 => Known(route))
=============================================================================
