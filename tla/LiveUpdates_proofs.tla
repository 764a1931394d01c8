------------------------- MODULE LiveUpdates_proofs -------------------------
(***************************************************************************)
(* Live updates, from the shared snapshot cache of the server to the store *)
(* of the browser.                                                         *)
(***************************************************************************)
EXTENDS SseStream, DashboardView, TLAPS

(* What the shared snapshot cache guarantees to any number of connections, *)
(* whatever the interval, the writes and the failures.                     *)
(* The lock is held by the one thread that reads.                          *)
LockOK == \A s \in Streams : pc[s] \in {"rows", "status"} => lock = s

(* Bodies come out of the cache in the order in which they went in: what a *)
(* connection holds is not newer than the cache, what it has shown not     *)
(* newer than what it holds, and what is being read not older than either. *)
CacheOK == cache.body # Nobody => NotOlder(stored, cache.body)
HeldOK(s) ==
  /\ shown[s] # Nobody => cache.body # Nobody /\ NotOlder(cache.body, shown[s])
  /\ pc[s] = "emit" =>
       /\ cache.body # Nobody /\ NotOlder(cache.body, body[s])
       /\ shown[s] # Nobody => NotOlder(body[s], shown[s])
  /\ pc[s] = "status" =>
       /\ body[s].rows <= stored.rows
       /\ cache.body # Nobody => body[s].rows >= cache.body.rows

(* A thread that waits knows an age that is not above the true one.        *)
AgeOK(s) == pc[s] = "wait" => gap[s] <= cache.age

(* A connection that is alone finds its own body too old at every tick,    *)
(* and reads what was stored when the tick began or later.                 *)
Alone(s) == \A r \in Streams \ {s} : pc[r] = "new"
LoneOK(s) ==
  /\ NotOlder(stored, asked[s])
  /\ Alone(s) /\ pc[s] # "new" =>
       /\ cache.body # Nobody /\ pc[s] = "sleep" => cache.age + timer[s] >= Ttl
       /\ cache.body # Nobody /\ pc[s] = "wait" => gap[s] >= Ttl
       /\ pc[s] = "status" => body[s].rows >= asked[s].rows
       /\ pc[s] = "emit" => NotOlder(body[s], asked[s])
  /\ pc[s] = "new" => shown[s] = Nobody /\ timer[s] = 0

(* A body is there only once a connection has been opened.                 *)
StartOK == (\A s \in Streams : pc[s] = "new") => cache.body = Nobody

StreamIInv ==
  /\ StreamTypeOK /\ LockOK /\ CacheOK /\ StartOK
  /\ \A s \in Streams : HeldOK(s) /\ AgeOK(s) /\ LoneOK(s)

(* The cache only moves forward, and a thread that starts a read found a   *)
(* body that is too old.                                                   *)
StreamStepOK ==
  /\ \A s \in Streams :
       shown[s] # Nobody /\ shown'[s] # shown[s] => NotOlder(shown'[s], shown[s])
  /\ \A s \in Streams :
       pc[s] = "wait" /\ pc'[s] = "rows" => cache.body = Nobody \/ cache.age >= Ttl

(* What a tick does to an age and to a timer.                              *)
LEMMA TickTypes ==
  /\ \A a \in 0..Ttl : (IF a = Ttl THEN Ttl ELSE a + 1) \in 0..Ttl
  /\ \A a \in 0..Ttl : (IF a = 0 THEN 0 ELSE a - 1) \in 0..Ttl
BY SseAssumption

LEMMA StreamInitOK == StreamInit => StreamIInv
BY SseAssumption, BodyAssumption
   DEF StreamInit, StreamIInv, StreamTypeOK, Body, Empty, LockOK, CacheOK, StartOK, HeldOK, AgeOK, LoneOK, NotOlder, Alone

(* A step of one connection.                                               *)
LEMMA StreamKeeps ==
  ASSUME StreamIInv, NEW s \in Streams, Connect(s) \/ Stream(s) \/ ReadFails(s)
  PROVE  StreamIInv' /\ StreamStepOK
<1> USE SseAssumption, BodyAssumption DEF StreamIInv, StreamTypeOK, Body, Goto, StreamStepOK
<1>1. CASE Connect(s)
  <2>1. StreamTypeOK'
    BY <1>1 DEF Connect
  <2>2. LockOK' /\ StartOK'
    BY <1>1, <2>1 DEF Connect, LockOK, StartOK
  <2>3. CacheOK' /\ StreamStepOK
    BY <1>1, <2>1 DEF Connect, CacheOK, NotOlder, HeldOK, AgeOK, LockOK
  <2>4. ASSUME NEW r \in Streams PROVE HeldOK(r)' /\ AgeOK(r)'
    BY <1>1, <2>1, <2>2 DEF Connect, CacheOK, HeldOK, AgeOK, NotOlder, LockOK
  <2>5. ASSUME NEW r \in Streams PROVE LoneOK(r)'
    BY <1>1, <2>1 DEF Connect, LoneOK, Alone, NotOlder, StartOK
  <2> QED
    BY <2>1, <2>2, <2>3, <2>4, <2>5
<1>2. CASE Wake(s)
  <2>1. StreamTypeOK'
    BY <1>2 DEF Wake
  <2>2. LockOK' /\ StartOK'
    BY <1>2, <2>1 DEF Wake, LockOK, StartOK
  <2>3. CacheOK' /\ StreamStepOK
    BY <1>2, <2>1 DEF Wake, CacheOK, NotOlder, HeldOK, AgeOK, LockOK
  <2>4. ASSUME NEW r \in Streams PROVE HeldOK(r)' /\ AgeOK(r)'
    BY <1>2, <2>1, <2>2 DEF Wake, CacheOK, HeldOK, AgeOK, NotOlder, LockOK
  <2>5. ASSUME NEW r \in Streams PROVE LoneOK(r)'
    BY <1>2, <2>1 DEF Wake, LoneOK, Alone, NotOlder, StartOK
  <2> QED
    BY <2>1, <2>2, <2>3, <2>4, <2>5
<1>3. CASE Reuse(s)
  <2>1. StreamTypeOK'
    BY <1>3 DEF Reuse, Fresh
  <2>2. LockOK' /\ StartOK'
    BY <1>3, <2>1 DEF Reuse, Fresh, LockOK, StartOK
  <2>3. CacheOK' /\ StreamStepOK
    BY <1>3, <2>1 DEF Reuse, Fresh, CacheOK, NotOlder, HeldOK, AgeOK, LockOK
  <2>4. ASSUME NEW r \in Streams PROVE HeldOK(r)' /\ AgeOK(r)'
    BY <1>3, <2>1, <2>2 DEF Reuse, Fresh, CacheOK, HeldOK, AgeOK, NotOlder, LockOK
  <2>5. ASSUME NEW r \in Streams PROVE LoneOK(r)'
    BY <1>3, <2>1 DEF Reuse, Fresh, LoneOK, Alone, NotOlder, StartOK
  <2> QED
    BY <2>1, <2>2, <2>3, <2>4, <2>5
<1>4. CASE Rebuild(s)
  <2>1. StreamTypeOK'
    BY <1>4 DEF Rebuild, Fresh
  <2>2. LockOK' /\ StartOK'
    BY <1>4, <2>1 DEF Rebuild, Fresh, LockOK, StartOK
  <2>3. CacheOK' /\ StreamStepOK
    BY <1>4, <2>1 DEF Rebuild, Fresh, CacheOK, NotOlder, HeldOK, AgeOK, LockOK
  <2>4. ASSUME NEW r \in Streams PROVE HeldOK(r)' /\ AgeOK(r)'
    BY <1>4, <2>1, <2>2 DEF Rebuild, Fresh, CacheOK, HeldOK, AgeOK, NotOlder, LockOK
  <2>5. ASSUME NEW r \in Streams PROVE LoneOK(r)'
    BY <1>4, <2>1 DEF Rebuild, Fresh, LoneOK, Alone, NotOlder, StartOK
  <2> QED
    BY <2>1, <2>2, <2>3, <2>4, <2>5
<1>5. CASE ReadRows(s)
  <2>1. StreamTypeOK'
    BY <1>5 DEF ReadRows
  <2>2. LockOK' /\ StartOK'
    BY <1>5, <2>1 DEF ReadRows, LockOK, StartOK
  <2>3. CacheOK' /\ StreamStepOK
    BY <1>5, <2>1 DEF ReadRows, CacheOK, NotOlder, HeldOK, AgeOK, LockOK
  <2>4. ASSUME NEW r \in Streams PROVE HeldOK(r)' /\ AgeOK(r)'
    BY <1>5, <2>1, <2>2 DEF ReadRows, CacheOK, HeldOK, AgeOK, NotOlder, LockOK
  <2>5. ASSUME NEW r \in Streams PROVE LoneOK(r)'
    BY <1>5, <2>1 DEF ReadRows, LoneOK, Alone, NotOlder, StartOK
  <2> QED
    BY <2>1, <2>2, <2>3, <2>4, <2>5
<1>6. CASE ReadStatus(s)
  <2>1. StreamTypeOK'
    BY <1>6 DEF ReadStatus
  <2>2. LockOK' /\ StartOK'
    BY <1>6, <2>1 DEF ReadStatus, LockOK, StartOK
  <2>3. CacheOK' /\ StreamStepOK
    BY <1>6, <2>1 DEF ReadStatus, CacheOK, NotOlder, HeldOK, AgeOK, LockOK
  <2>4. ASSUME NEW r \in Streams PROVE HeldOK(r)' /\ AgeOK(r)'
    BY <1>6, <2>1, <2>2 DEF ReadStatus, CacheOK, HeldOK, AgeOK, NotOlder, LockOK
  <2>5. ASSUME NEW r \in Streams PROVE LoneOK(r)'
    BY <1>6, <2>1 DEF ReadStatus, LoneOK, Alone, NotOlder, StartOK
  <2> QED
    BY <2>1, <2>2, <2>3, <2>4, <2>5
<1>7. CASE ReadFails(s)
  <2>1. StreamTypeOK'
    BY <1>7 DEF ReadFails
  <2>2. LockOK' /\ StartOK'
    BY <1>7, <2>1 DEF ReadFails, LockOK, StartOK
  <2>3. CacheOK' /\ StreamStepOK
    BY <1>7, <2>1 DEF ReadFails, CacheOK, NotOlder, HeldOK, AgeOK, LockOK
  <2>4. ASSUME NEW r \in Streams PROVE HeldOK(r)' /\ AgeOK(r)'
    BY <1>7, <2>1, <2>2 DEF ReadFails, CacheOK, HeldOK, AgeOK, NotOlder, LockOK
  <2>5. ASSUME NEW r \in Streams PROVE LoneOK(r)'
    BY <1>7, <2>1 DEF ReadFails, LoneOK, Alone, NotOlder, StartOK
  <2> QED
    BY <2>1, <2>2, <2>3, <2>4, <2>5
<1>8. CASE EmitError(s)
  <2>1. StreamTypeOK'
    BY <1>8 DEF EmitError, Sleep
  <2>2. LockOK' /\ StartOK'
    BY <1>8, <2>1 DEF EmitError, Sleep, LockOK, StartOK
  <2>3. CacheOK' /\ StreamStepOK
    BY <1>8, <2>1 DEF EmitError, Sleep, CacheOK, NotOlder, HeldOK, AgeOK, LockOK
  <2>4. ASSUME NEW r \in Streams PROVE HeldOK(r)' /\ AgeOK(r)'
    BY <1>8, <2>1, <2>2 DEF EmitError, Sleep, CacheOK, HeldOK, AgeOK, NotOlder, LockOK
  <2>5. ASSUME NEW r \in Streams PROVE LoneOK(r)'
    BY <1>8, <2>1 DEF EmitError, Sleep, LoneOK, Alone, NotOlder, StartOK
  <2> QED
    BY <2>1, <2>2, <2>3, <2>4, <2>5
<1>9. CASE Emit(s)
  <2>1. StreamTypeOK'
    <3>1. /\ pc' = [pc EXCEPT ![s] = "sleep"] /\ timer' = [timer EXCEPT ![s] = Ttl]
          /\ UNCHANGED <<stored, cache, lock, gap, body, failures, asked>>
      BY <1>9 DEF Emit, Sleep
    <3>2. \/ last' = [last EXCEPT ![s] = body[s]] /\ shown' = [shown EXCEPT ![s] = body[s]]
          \/ UNCHANGED <<last, shown>>
      BY <1>9 DEF Emit
    <3>3. pc' \in [Streams -> {"new", "sleep", "wait", "rows", "status", "error", "emit"}]
      BY <3>1
    <3>4. timer' \in [Streams -> 0..Ttl]
      BY <3>1
    <3>5. last' \in [Streams -> Body \cup {Nobody}] /\ shown' \in [Streams -> Body \cup {Nobody}]
      <4> DEFINE Bodies == Body \cup {Nobody}
      <4>1. body[s] \in Bodies /\ last \in [Streams -> Bodies] /\ shown \in [Streams -> Bodies]
        OBVIOUS
      <4> HIDE DEF Bodies
      <4>2. last' \in [Streams -> Bodies] /\ shown' \in [Streams -> Bodies]
        BY ONLY <3>2, <4>1
      <4> QED
        BY <4>2 DEF Bodies
    <3> QED
      BY <3>1, <3>3, <3>4, <3>5
  <2>2. LockOK' /\ StartOK'
    BY <1>9, <2>1 DEF Emit, Sleep, LockOK, StartOK
  <2>3. CacheOK' /\ StreamStepOK
    BY <1>9, <2>1 DEF Emit, Sleep, CacheOK, NotOlder, HeldOK, AgeOK, LockOK
  <2>4. ASSUME NEW r \in Streams PROVE HeldOK(r)' /\ AgeOK(r)'
    BY <1>9, <2>1, <2>2 DEF Emit, Sleep, CacheOK, HeldOK, AgeOK, NotOlder, LockOK
  <2>5. ASSUME NEW r \in Streams PROVE LoneOK(r)'
    BY <1>9, <2>1 DEF Emit, Sleep, LoneOK, Alone, NotOlder, StartOK
  <2> QED
    BY <2>1, <2>2, <2>3, <2>4, <2>5
<1> QED
  BY <1>1, <1>2, <1>3, <1>4, <1>5, <1>6, <1>7, <1>8, <1>9 DEF Stream

(* Writers and time.                                                       *)
LEMMA OutsideKeeps ==
  ASSUME StreamIInv, Write \/ Tick
  PROVE  StreamIInv' /\ StreamStepOK
<1> USE SseAssumption, BodyAssumption DEF StreamIInv, StreamTypeOK, Body, StreamStepOK
<1>1. CASE Write
  <2>1. /\ stored' \in Body /\ NotOlder(stored', stored)
        /\ UNCHANGED <<cache, lock, pc, gap, body, last, timer, failures, shown, asked>>
    BY <1>1 DEF Write, WriteRows, WriteStatus, NotOlder
  <2> QED
    BY <2>1 DEF LockOK, CacheOK, StartOK, HeldOK, AgeOK, LoneOK, Alone, NotOlder
<1>2. CASE Tick
  <2>1. /\ cache'.body = cache.body /\ cache'.age \in 0..Ttl
        /\ cache' \in [body : Body \cup {Nobody}, age : 0..Ttl]
        /\ cache'.age = IF cache.age = Ttl THEN Ttl ELSE cache.age + 1
        /\ timer' = [s \in Streams |-> IF timer[s] = 0 THEN 0 ELSE timer[s] - 1]
        /\ UNCHANGED <<stored, lock, pc, gap, body, last, failures, shown, asked>>
    <3>1. cache' = [body |-> cache.body, age |-> IF cache.age = Ttl THEN Ttl ELSE cache.age + 1]
      BY <1>2 DEF Tick
    <3>2. (IF cache.age = Ttl THEN Ttl ELSE cache.age + 1) \in 0..Ttl
      <4>1. cache.age \in 0..Ttl
        OBVIOUS
      <4> QED
        BY ONLY <4>1, TickTypes
    <3> QED
      BY <1>2, <3>1, <3>2 DEF Tick
  <2>2. StreamTypeOK'
    <3>1. timer' \in [Streams -> 0..Ttl]
      BY <2>1, TickTypes
    <3> QED
      BY <2>1, <3>1
  <2>3. LockOK' /\ CacheOK' /\ StartOK' /\ StreamStepOK
    BY <2>1 DEF LockOK, CacheOK, StartOK, NotOlder
  <2>4. ASSUME NEW r \in Streams PROVE HeldOK(r)' /\ AgeOK(r)'
    BY <2>1 DEF HeldOK, AgeOK, NotOlder
  <2>5. ASSUME NEW r \in Streams PROVE LoneOK(r)'
    BY <2>1 DEF LoneOK, Alone, NotOlder
  <2> QED
    BY <2>2, <2>3, <2>4, <2>5
<1> QED
  BY <1>1, <1>2

LEMMA StreamStepKeeps == StreamIInv /\ [StreamNext]_streamVars => StreamIInv' /\ (StreamStepOK \/ UNCHANGED streamVars)
<1>1. StreamIInv /\ UNCHANGED streamVars => StreamIInv'
  BY DEF StreamIInv, StreamTypeOK, LockOK, CacheOK, StartOK, HeldOK, AgeOK, LoneOK, Alone, NotOlder, streamVars
<1> QED
  BY <1>1, StreamKeeps, OutsideKeeps DEF StreamNext

(* Whoever holds the lock holds what the cache and the clock allow.        *)
THEOREM StreamInvariance == StreamSpec => []StreamIInv
BY StreamInitOK, StreamStepKeeps, PTL DEF StreamSpec

-----------------------------------------------------------------------------
(* Every variable keeps its type.                                          *)
THEOREM StreamTypeCorrect == StreamSpec => []StreamTypeOK
<1>1. StreamIInv => StreamTypeOK
  BY DEF StreamIInv
<1> QED
  BY StreamInvariance, <1>1, PTL

(* No connection goes back in time, for any number of connections that     *)
(* rebuild, wait and fail in any order ("only one worker thread rebuilds   *)
(* at a time").                                                            *)
THEOREM ForwardOnly == StreamSpec => NeverGoesBack
<1>1. StreamIInv /\ [StreamNext]_streamVars =>
        [\A s \in Streams :
           shown[s] # Nobody /\ shown'[s] # shown[s] => NotOlder(shown'[s], shown[s])]_streamVars
  BY StreamStepKeeps DEF StreamStepOK
<1> QED
  BY StreamInvariance, <1>1, PTL DEF StreamSpec, NeverGoesBack

(* Reads are shared, for any interval: nobody starts one while a body      *)
(* younger than the interval is there.                                     *)
THEOREM ReadsAreShared == StreamSpec => OneReadPerInterval
<1>1. StreamIInv /\ [StreamNext]_streamVars =>
        [\A s \in Streams :
           pc[s] = "wait" /\ pc'[s] = "rows" => cache.body = Nobody \/ cache.age >= Ttl]_streamVars
  BY StreamStepKeeps DEF StreamStepOK
<1> QED
  BY StreamInvariance, <1>1, PTL DEF StreamSpec, OneReadPerInterval

(* A connection that is alone is never served a body older than its tick,  *)
(* for any interval.                                                       *)
THEOREM LoneIsCurrent == StreamSpec => []LoneTickIsCurrent
<1>1. StreamIInv => LoneTickIsCurrent
  BY DEF StreamIInv, LoneOK, Alone, LoneTickIsCurrent
<1> QED
  BY StreamInvariance, <1>1, PTL

-----------------------------------------------------------------------------
(* What the browser's store guarantees of its loads and spinners for any   *)
(* dashboards, versions and failures, whatever the user selects meanwhile. *)
(* The parts of the state a load goes through.                             *)
LoadTypes ==
  /\ version \in 0..MaxVersion /\ wanted \in 0..MaxVersion /\ loaded \in 0..MaxVersion
  /\ loading \in BOOLEAN /\ refreshing \in BOOLEAN
  /\ dashboard \in Dashboards
  /\ fetch \in Fetch \cup {None} /\ queued \in Modes \cup {None}
  /\ faults \in Nat
  /\ stream \in Seq(0..MaxVersion)
  /\ snapshot \in Snapshot \cup {None}
  /\ route \in Names \cup {None} /\ default \in Names \cup {None}

(* Nothing is queued behind no fetch; the last request for a load is       *)
(* behind an answer that was read after it, or still to come.              *)
LoadsCatchUp ==
  /\ wanted <= version
  /\ fetch = None => queued = None
  /\ faults = 0 /\ fetch = None => loaded >= wanted
  /\ faults = 0 /\ fetch # None /\ fetch.answer # "none" /\ queued = None => fetch.version >= wanted

IInv == LoadTypes /\ LoadsCatchUp /\ SpinnersEnd

(* The names of a snapshot are names.                                      *)
LEMMA NameFacts ==
  ASSUME LoadTypes
  PROVE  /\ First \in Names \cup {None}
         /\ currentDashboard \in Names \cup {None}
         /\ Recorded \in Names \cup {None}
         /\ Normalised \in Names \cup {None}
         /\ FetchKey(route, Recorded) \in Dashboards
<1>1. dashboardNames \in Seq(Names)
  BY StoreAssumption DEF LoadTypes, dashboardNames, Snapshot
<1>2. First \in Names \cup {None}
  BY <1>1 DEF First
<1> QED
  BY <1>2 DEF LoadTypes, currentDashboard, Recorded, Normalised, FetchKey, Dashboards

(* A load for any dashboard, at any moment.                                *)
LEMMA LoadKeeps ==
  ASSUME IInv, NEW mode \in Modes, NEW d \in Dashboards, Load(mode, d),
         mode = "initial" => loading' /\ dashboard' = d,
         mode # "initial" => loading' = loading /\ dashboard' = dashboard /\ d = dashboard,
         UNCHANGED <<version, loaded, snapshot>>, faults' = faults, stream' \in Seq(0..MaxVersion),
         route' \in Names \cup {None}, default' \in Names \cup {None}
  PROVE  IInv'
<1> USE StoreAssumption DEF IInv, LoadTypes, Load, Higher, Rank, Modes, Request, Fetch
<1>1. wanted' = version /\ dashboard' \in Dashboards /\ loading' \in BOOLEAN
  OBVIOUS
<1>2. CASE fetch = None
  <2>1. fetch' = Request(mode, d) /\ fetch' \in Fetch /\ fetch'.answer = "none" /\ fetch'.mode = mode
    BY <1>2
  <2>2. queued' = None /\ refreshing' = (refreshing \/ mode = "manual")
    BY <1>2 DEF LoadsCatchUp
  <2>3. fetch' # None
    BY <2>1
  <2>4. LoadTypes'
    BY <1>1, <2>1, <2>2
  <2>5. LoadsCatchUp'
    BY <1>1, <2>1, <2>2, <2>3 DEF LoadsCatchUp
  <2>6. SpinnersEnd'
    BY <1>2, <2>1, <2>2, <2>3 DEF SpinnersEnd, LoadsCatchUp
  <2> QED
    BY <2>4, <2>5, <2>6
<1>3. CASE fetch # None
  <2>1. UNCHANGED <<fetch, refreshing>> /\ queued' \in Modes
    BY <1>3
  <2>2. queued = "initial" \/ mode = "initial" => queued' = "initial"
    BY <1>3
  <2>3. queued' # None
    BY <2>1
  <2>4. LoadTypes'
    BY <1>1, <2>1
  <2>5. LoadsCatchUp'
    BY <1>1, <1>3, <2>1, <2>3 DEF LoadsCatchUp
  <2>6. SpinnersEnd'
    BY <1>3, <2>1, <2>2 DEF SpinnersEnd
  <2> QED
    BY <2>4, <2>5, <2>6
<1> QED
  BY <1>2, <1>3

(* A fetch ends, for whatever reason, and the queued one begins.           *)
LEMMA SettleKeeps ==
  ASSUME IInv, Settle, route' = route, default' = default
  PROVE  IInv'
<1> USE StoreAssumption DEF IInv, LoadTypes, Settle, Modes, Request, Fetch, Snapshot
<1>1. fetch \in Fetch /\ fetch # None
  OBVIOUS
<1>2. UNCHANGED <<version, dashboard, faults, stream, wanted>>
  BY DEF serverVars, bounds
<1>3. snapshot' \in Snapshot \cup {None}
  BY <1>1
<1>4. CASE queued = None
  <2>1. fetch' = None /\ queued' = None /\ loaded' = fetch.version
    BY <1>4
  <2>2. refreshing' = (refreshing /\ fetch.mode # "manual")
        /\ loading' = (loading /\ fetch.mode # "initial")
    BY <1>4
  <2>3. LoadTypes'
    BY <1>1, <1>2, <1>3, <2>1, <2>2
  <2>4. LoadsCatchUp'
    BY <1>1, <1>2, <1>4, <2>1 DEF LoadsCatchUp
  <2>5. SpinnersEnd'
    BY <1>1, <1>4, <2>1, <2>2 DEF SpinnersEnd
  <2> QED
    BY <2>3, <2>4, <2>5
<1>5. CASE queued # None
  <2>1. fetch' = Request(queued, dashboard) /\ fetch' \in Fetch /\ queued' = None
    BY <1>5
  <2>2. fetch' # None /\ fetch'.mode = queued /\ fetch'.answer = "none"
    BY <2>1
  <2>3. refreshing' = (queued = "manual" \/ (refreshing /\ fetch.mode # "manual"))
        /\ loading' = (loading /\ fetch.mode # "initial")
    OBVIOUS
  <2>4. LoadTypes'
    BY <1>1, <1>2, <1>3, <2>1, <2>3
  <2>5. LoadsCatchUp'
    BY <1>2, <2>1, <2>2 DEF LoadsCatchUp
  <2>6. SpinnersEnd'
    BY <1>1, <2>2, <2>3 DEF SpinnersEnd
  <2> QED
    BY <2>4, <2>5, <2>6
<1> QED
  BY <1>4, <1>5

(* An answer is read from the server now, or fails.                        *)
LEMMA AnswerKeeps ==
  ASSUME IInv, Answer \/ AnswerFails, UNCHANGED viewVars
  PROVE  IInv'
<1> USE StoreAssumption DEF IInv, LoadTypes, Fetch, viewVars, bounds
<1>1. fetch \in Fetch /\ fetch # None /\ fetch.answer = "none"
  BY DEF Answer, AnswerFails
<1>2. UNCHANGED <<version, wanted, loaded, loading, refreshing, dashboard, queued, stream, snapshot>>
  BY DEF Answer, AnswerFails, serverVars
<1>3. CASE Answer
  <2>1. PICK a \in {"ok", "failed"} : fetch' = [fetch EXCEPT !.answer = a, !.version = version]
    BY <1>3 DEF Answer
  <2>2. fetch' \in Fetch /\ fetch'.mode = fetch.mode /\ fetch'.version = version
    BY <1>1, <2>1
  <2>3. faults' = faults
    BY <1>3 DEF Answer
  <2>4. fetch' # None
    BY <2>2
  <2>5. LoadsCatchUp'
    BY <1>2, <2>2, <2>3, <2>4 DEF LoadsCatchUp
  <2> QED
    BY <1>1, <1>2, <2>2, <2>3, <2>4, <2>5 DEF SpinnersEnd
<1>4. CASE AnswerFails
  <2>1. fetch' = [fetch EXCEPT !.answer = "failed"] /\ faults' = faults + 1
    BY <1>4 DEF AnswerFails, Fault
  <2>2. fetch' \in Fetch /\ fetch'.mode = fetch.mode
    BY <1>1, <2>1
  <2>3. fetch' # None /\ faults' \in Nat /\ faults' # 0
    <3>1. faults \in Nat
      OBVIOUS
    <3>2. faults' \in Nat /\ faults' # 0
      BY ONLY <2>1, <3>1
    <3> QED
      BY <2>2, <3>2
  <2>4. LoadsCatchUp'
    BY <1>2, <2>3 DEF LoadsCatchUp
  <2> QED
    BY <1>1, <1>2, <2>2, <2>3, <2>4 DEF SpinnersEnd
<1> QED
  BY <1>3, <1>4

(* Steps that touch no load.                                               *)
LEMMA OthersKeep ==
  ASSUME IInv,
         UNCHANGED <<fetch, queued, wanted, loaded, refreshing, dashboard>>,
         version' \in 0..MaxVersion, version' >= version,
         loading' \in {loading, FALSE}, faults' \in Nat, faults' >= faults,
         stream' \in Seq(0..MaxVersion), snapshot' \in Snapshot \cup {None},
         route' \in Names \cup {None}, default' \in Names \cup {None}
  PROVE  IInv'
<1>1. LoadTypes'
  BY DEF IInv, LoadTypes
<1>2. LoadsCatchUp'
  <2>1. wanted' <= version'
    BY StoreAssumption DEF IInv, LoadTypes, LoadsCatchUp
  <2>2. faults' = 0 => faults = 0
    BY DEF IInv, LoadTypes
  <2> QED
    BY <2>1, <2>2 DEF IInv, LoadsCatchUp
<1>3. SpinnersEnd'
  <2>1. loading' => loading
    BY DEF IInv, LoadTypes
  <2> QED
    BY <2>1 DEF IInv, SpinnersEnd
<1> QED
  BY <1>1, <1>2, <1>3 DEF IInv

(* One pass of the effects: another dashboard is loaded, or none is.       *)
LEMMA EffectsKeep ==
  ASSUME IInv, Effects
  PROVE  IInv'
<1> USE DEF bounds, serverVars
<1>1. /\ route' = Normalised /\ default' = Recorded
      /\ UNCHANGED <<version, snapshot, faults, loaded>>
  BY DEF Effects
<1>2. route' \in Names \cup {None} /\ default' \in Names \cup {None}
      /\ FetchKey(route, Recorded) \in Dashboards
  BY <1>1, NameFacts DEF IInv
<1>3. CASE FetchKey(route, Recorded) # dashboard
  <2>1. Start(FetchKey(route, Recorded))
    BY <1>3 DEF Effects
  <2>2. Load("initial", FetchKey(route, Recorded)) /\ "initial" \in Modes /\ stream' = <<>>
        /\ loading' = TRUE /\ dashboard' = FetchKey(route, Recorded)
    BY <2>1 DEF Start, Modes
  <2>3. stream' \in Seq(0..MaxVersion)
    BY <2>2
  <2> QED
    BY <1>1, <1>2, <2>2, <2>3, LoadKeeps
<1>4. CASE FetchKey(route, Recorded) = dashboard
  <2>1. UNCHANGED <<loading, refreshing, dashboard, fetch, queued, stream, wanted>>
    BY <1>4 DEF Effects
  <2> QED
    BY <1>1, <1>2, <2>1, OthersKeep, StoreAssumption DEF IInv, LoadTypes
<1> QED
  BY <1>3, <1>4

LEMMA StepKeeps ==
  ASSUME IInv, Next
  PROVE  IInv'
<1> USE DEF viewVars, serverVars, bounds
<1>1. CASE Effects
  BY <1>1, EffectsKeep
<1>2. CASE SettleFetch
  BY <1>2, SettleKeeps DEF SettleFetch
<1>3. CASE HandleEvent
  <2>1. /\ snapshot' = [dashboard |-> dashboard, version |-> Head(stream)] /\ stream # <<>>
        /\ stream' = Tail(stream) /\ loading' = FALSE
        /\ UNCHANGED <<version, refreshing, dashboard, fetch, queued, faults, wanted, loaded,
                       route, default>>
    BY <1>3 DEF HandleEvent, HandlePush
  <2>2. Head(stream) \in 0..MaxVersion /\ stream' \in Seq(0..MaxVersion)
    <3>1. stream \in Seq(0..MaxVersion)
      BY DEF IInv, LoadTypes
    <3>2. ASSUME NEW S, NEW q \in Seq(S), q # <<>> PROVE Head(q) \in S /\ Tail(q) \in Seq(S)
      BY <3>2
    <3> QED
      BY <2>1, <3>1, <3>2
  <2>3. snapshot' \in Snapshot
    BY <2>1, <2>2 DEF IInv, LoadTypes, Snapshot
  <2>4. version' \in 0..MaxVersion /\ version' >= version /\ faults' \in Nat /\ faults' >= faults
    BY <2>1, StoreAssumption DEF IInv, LoadTypes
  <2>5. route' \in Names \cup {None} /\ default' \in Names \cup {None}
    BY <2>1 DEF IInv, LoadTypes
  <2> QED
    BY <2>1, <2>2, <2>3, <2>4, <2>5, OthersKeep
<1>4. CASE Interval \/ UserRefresh
  <2>1. PICK mode \in {"auto", "manual"} : Load(mode, dashboard)
    BY <1>4 DEF Interval, UserRefresh, PollTick, Refresh
  <2>2. UNCHANGED <<version, loaded, snapshot, loading, dashboard, faults, stream, route, default>>
    BY <1>4 DEF Interval, UserRefresh, PollTick, Refresh
  <2> QED
    BY <2>1, <2>2, LoadKeeps DEF IInv, LoadTypes, Modes
<1>5. ASSUME NEW name \in Names, Select(name)
      PROVE  IInv'
  BY <1>5, OthersKeep, StoreAssumption DEF Select, IInv, LoadTypes
<1>6. ASSUME NEW r \in Names \cup {None}, Pop(r)
      PROVE  IInv'
  BY <1>6, OthersKeep, StoreAssumption DEF Pop, IInv, LoadTypes
<1>7. CASE Server
  <2>1. CASE Change
    BY <1>7, <2>1, OthersKeep, StoreAssumption DEF Server, Change, IInv, LoadTypes
  <2>2. CASE AnswerFails
    BY <1>7, <2>2, AnswerKeeps DEF Server
  <2>3. CASE Disconnect
    BY <1>7, <2>3, OthersKeep, StoreAssumption DEF Server, Disconnect, Fault, IInv, LoadTypes
  <2> QED
    BY <1>7, <2>1, <2>2, <2>3 DEF Server
<1>8. CASE AnswerFetch
  BY <1>8, AnswerKeeps DEF AnswerFetch
<1>9. CASE PushEvent
  BY <1>9, OthersKeep, StoreAssumption DEF PushEvent, Push, IInv, LoadTypes
<1>10. CASE PollerPolls
  BY <1>10, OthersKeep, StoreAssumption DEF PollerPolls, Poll, IInv, LoadTypes
<1> QED
  BY <1>1, <1>2, <1>3, <1>4, <1>5, <1>6, <1>7, <1>8, <1>9, <1>10 DEF Next

LEMMA InitOK == Init => IInv
<1> SUFFICES ASSUME Init PROVE IInv
  OBVIOUS
<1>1. FetchKey(route, default) \in Dashboards
  BY DEF Init, FetchKey, Dashboards
<1>2. fetch = Request("initial", FetchKey(route, default)) /\ fetch \in Fetch
  BY <1>1, StoreAssumption DEF Init, StoreInit, Request, Fetch, Modes
<1>3. fetch # None /\ fetch.mode = "initial" /\ fetch.answer = "none"
  BY <1>2, StoreAssumption DEF Request
<1>4. LoadTypes
  <2>1. stream \in Seq(0..MaxVersion)
    BY DEF Init, StoreInit
  <2>2. dashboard \in Dashboards /\ fetch \in Fetch
    BY <1>1, <1>2 DEF Init, StoreInit
  <2>3. version = 0 /\ wanted = 0 /\ loaded = 0 /\ faults = 0 /\ queued = None /\ snapshot = None
        /\ loading = TRUE /\ refreshing = FALSE
        /\ route \in Names \cup {None} /\ default = None
    BY DEF Init, StoreInit
  <2>4. 0 \in 0..MaxVersion /\ 0 \in Nat
    BY StoreAssumption
  <2> QED
    BY ONLY <2>1, <2>2, <2>3, <2>4 DEF LoadTypes
<1> QED
  BY <1>3, <1>4 DEF Init, StoreInit, IInv, LoadsCatchUp, SpinnersEnd

(* What was asked for is in flight, queued or served.                      *)
THEOREM Invariance == Spec => []IInv
<1>1. IInv /\ [Next]_allVars => IInv'
  <2>1. IInv /\ UNCHANGED allVars => IInv'
    BY DEF IInv, LoadTypes, LoadsCatchUp, SpinnersEnd, allVars, vars, viewVars, serverVars, bounds
  <2> QED
    BY <2>1, StepKeeps
<1> QED
  BY InitOK, <1>1, PTL DEF Spec

-----------------------------------------------------------------------------
(* No refresh is lost, for any dashboards and any number of selections,    *)
(* refreshes and changes: whatever was asked for while a fetch was in      *)
(* flight is answered by one that was read later.                          *)
THEOREM RefreshesAreServed == Spec => []NoRefreshLost
<1>1. IInv => NoRefreshLost
  BY DEF IInv, LoadsCatchUp, NoRefreshLost
<1> QED
  BY Invariance, <1>1, PTL

(* No spinner is left on, whatever fails and however loads are queued.     *)
THEOREM SpinnersHaveLoads == Spec => []SpinnersEnd
<1>1. IInv => SpinnersEnd
  BY DEF IInv
<1> QED
  BY Invariance, <1>1, PTL
=============================================================================
