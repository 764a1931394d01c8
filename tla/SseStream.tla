----------------------------- MODULE SseStream -----------------------------
(***************************************************************************)
(* The server side of live updates (web/sse.py, web/snapshot.py): one      *)
(* generator per connection wakes up every interval, takes the snapshot of *)
(* its dashboard from a process-wide cache that is rebuilt under a lock,   *)
(* and pushes it if it differs from the last one pushed.  A snapshot is    *)
(* read from PostgreSQL in two queries between which the poller may write. *)
(***************************************************************************)
EXTENDS Integers

CONSTANTS
  Streams,    \* connections on one dashboard
  Nobody,     \* the lock is free; no body
  Ttl,        \* CORVIX_SSE_POLL_INTERVAL_SECONDS, in ticks
  MaxWrites,  \* bound on stored.rows and stored.status
  MaxFailures \* how many failures a run may have

ASSUME SseAssumption ==
  /\ Nobody \notin Streams
  /\ Ttl \in Nat \ {0} /\ MaxWrites \in Nat /\ MaxFailures \in Nat

Body == [rows : 0..MaxWrites, status : 0..MaxWrites]

ASSUME BodyAssumption == Nobody \notin Body

VARIABLES
  stored,  \* versions of notification_records and of poller_status
  cache,   \* _snapshot_body_cache: body and the age of its stamp, up to Ttl
  lock,    \* _snapshot_body_cache_lock
  pc,      \* [Streams -> where the generator is]
  gap,     \* [Streams -> now - cached[0]], up to Ttl; -1: now is older
  body,    \* [Streams -> the body at hand]
  last,    \* [Streams -> the body last_digest stands for]
  timer,   \* [Streams -> ticks left of asyncio.sleep]
  failures \* failures so far, for the bound

VARIABLES   \* history, read by the properties only
  shown, \* [Streams -> the last body pushed]
  asked  \* [Streams -> what was stored when the tick began]

streamVars == <<stored, cache, lock, pc, gap, body, last, timer, failures, shown, asked>>

StreamTypeOK ==
  /\ stored \in Body
  /\ cache \in [body : Body \cup {Nobody}, age : 0..Ttl]
  /\ lock \in Streams \cup {Nobody}
  /\ pc \in [Streams -> {"new", "sleep", "wait", "rows", "status", "error", "emit"}]
  /\ gap \in [Streams -> -1..Ttl]
  /\ body \in [Streams -> Body]
  /\ last \in [Streams -> Body \cup {Nobody}]
  /\ timer \in [Streams -> 0..Ttl]
  /\ failures \in 0..MaxFailures
  /\ shown \in [Streams -> Body \cup {Nobody}]
  /\ asked \in [Streams -> Body]

Empty == [rows |-> 0, status |-> 0]

StreamInit ==
  /\ stored = Empty
  /\ cache = [body |-> Nobody, age |-> 0]
  /\ lock = Nobody
  /\ pc = [s \in Streams |-> "new"]
  /\ gap = [s \in Streams |-> 0]
  /\ body = [s \in Streams |-> Empty]
  /\ last = [s \in Streams |-> Nobody]
  /\ timer = [s \in Streams |-> 0]
  /\ failures = 0
  /\ shown = [s \in Streams |-> Nobody]
  /\ asked = [s \in Streams |-> Empty]

Goto(s, place) == pc' = [pc EXCEPT ![s] = place]

-----------------------------------------------------------------------------
(* GET /api/v1/events: a generator whose first tick is due.                *)
Connect(s) ==
  /\ pc[s] = "new"
  /\ Goto(s, "sleep")
  /\ UNCHANGED <<stored, cache, lock, gap, body, last, timer, failures, shown, asked>>

(* The generator wakes up; a worker thread reads the clock, then waits for *)
(* the lock.                                                               *)
Wake(s) ==
  /\ pc[s] = "sleep" /\ timer[s] = 0
  /\ gap' = [gap EXCEPT ![s] = cache.age]
  /\ asked' = [asked EXCEPT ![s] = stored]
  /\ Goto(s, "wait")
  /\ UNCHANGED <<stored, cache, lock, body, last, timer, failures, shown>>

(* Bugs to exclude: age <= ttl; the cache is ignored.                      *)
Fresh_Loose(s) == cache.body # Nobody /\ gap[s] <= Ttl
Fresh_Never(s) == FALSE /\ gap[s] < Ttl

(* The cached body is reused if it is newer than ttl: strictly.            *)
Fresh(s) == cache.body # Nobody /\ gap[s] < Ttl

Reuse(s) ==
  /\ pc[s] = "wait" /\ lock = Nobody /\ Fresh(s)
  /\ body' = [body EXCEPT ![s] = cache.body]
  /\ Goto(s, "emit")
  /\ UNCHANGED <<stored, cache, lock, gap, last, timer, failures, shown, asked>>

(* A bug to exclude: the lock is not held while the snapshot is read.      *)
Rebuild_Unlocked(s) ==
  /\ pc[s] = "wait" /\ lock = Nobody /\ ~Fresh(s)
  /\ lock' = Nobody
  /\ Goto(s, "rows")
  /\ UNCHANGED <<stored, cache, gap, body, last, timer, failures, shown, asked>>

Rebuild(s) ==
  /\ pc[s] = "wait" /\ lock = Nobody /\ ~Fresh(s)
  /\ lock' = s
  /\ Goto(s, "rows")
  /\ UNCHANGED <<stored, cache, gap, body, last, timer, failures, shown, asked>>

(* storage.load_records, then storage.load_status.                         *)
ReadRows(s) ==
  /\ pc[s] = "rows"
  /\ body' = [body EXCEPT ![s].rows = stored.rows]
  /\ Goto(s, "status")
  /\ UNCHANGED <<stored, cache, lock, gap, last, timer, failures, shown, asked>>

(* The status is read, the body is stamped and stored, the lock released.  *)
ReadStatus(s) ==
  /\ pc[s] = "status"
  /\ body' = [body EXCEPT ![s].status = stored.status]
  /\ cache' = [body |-> body'[s], age |-> 0]
  /\ gap' = [r \in Streams |-> IF pc[r] = "wait" THEN -1 ELSE gap[r]]
  /\ lock' = Nobody
  /\ Goto(s, "emit")
  /\ UNCHANGED <<stored, last, timer, failures, shown, asked>>

(* Either query raises; the lock is released by the exception.             *)
ReadFails(s) ==
  /\ pc[s] \in {"rows", "status"} /\ failures < MaxFailures
  /\ failures' = failures + 1
  /\ lock' = Nobody
  /\ Goto(s, "error")
  /\ UNCHANGED <<stored, cache, gap, body, last, timer, shown, asked>>

Sleep(s) == Goto(s, "sleep") /\ timer' = [timer EXCEPT ![s] = Ttl]

(* A snapshot-error event; the next body is pushed whatever it is.         *)
EmitError(s) ==
  /\ pc[s] = "error"
  /\ last' = [last EXCEPT ![s] = Nobody]
  /\ Sleep(s)
  /\ UNCHANGED <<stored, cache, lock, gap, body, failures, shown, asked>>

(* A bug to exclude: the digest is remembered, the body is not pushed.     *)
Emit_OnlyFirst(s) ==
  /\ pc[s] = "emit"
  /\ last' = [last EXCEPT ![s] = body[s]]
  /\ shown' = IF last[s] = Nobody THEN [shown EXCEPT ![s] = body[s]] ELSE shown
  /\ Sleep(s)
  /\ UNCHANGED <<stored, cache, lock, gap, body, failures, asked>>

(* A snapshot event if the digest differs; otherwise at most a keep-alive. *)
Emit(s) ==
  /\ pc[s] = "emit"
  /\ IF body[s] # last[s]
     THEN last' = [last EXCEPT ![s] = body[s]] /\ shown' = [shown EXCEPT ![s] = body[s]]
     ELSE UNCHANGED <<last, shown>>
  /\ Sleep(s)
  /\ UNCHANGED <<stored, cache, lock, gap, body, failures, asked>>

Stream(s) ==
  \/ Wake(s) \/ Reuse(s) \/ Rebuild(s)
  \/ ReadRows(s) \/ ReadStatus(s) \/ EmitError(s) \/ Emit(s)

-----------------------------------------------------------------------------
(* The poller and the web handlers write rows; the poller writes status.   *)
WriteRows == stored.rows < MaxWrites /\ stored' = [stored EXCEPT !.rows = @ + 1]
WriteStatus == stored.status < MaxWrites /\ stored' = [stored EXCEPT !.status = @ + 1]
Write ==
  /\ WriteRows \/ WriteStatus
  /\ UNCHANGED <<cache, lock, pc, gap, body, last, timer, failures, shown, asked>>

Tick ==
  /\ cache.age < Ttl \/ \E s \in Streams : timer[s] > 0
  /\ cache' = [cache EXCEPT !.age = IF @ = Ttl THEN Ttl ELSE @ + 1]
  /\ timer' = [s \in Streams |-> IF timer[s] = 0 THEN 0 ELSE timer[s] - 1]
  /\ UNCHANGED <<stored, lock, pc, gap, body, last, failures, shown, asked>>

StreamNext ==
  \/ \E s \in Streams : Connect(s) \/ Stream(s) \/ ReadFails(s)
  \/ Write \/ Tick

StreamSpec == StreamInit /\ [][StreamNext]_streamVars

(* Generators are scheduled, queries return or raise, time passes.  A      *)
(* thread that finds the lock free again and again gets it (SF): waiters   *)
(* are few, and each holder is asleep for an interval afterwards.          *)
FairStreamSpec ==
  /\ StreamSpec
  /\ WF_streamVars(Tick)
  /\ \A s \in Streams : WF_streamVars(Stream(s)) /\ SF_streamVars(Reuse(s) \/ Rebuild(s))

-----------------------------------------------------------------------------
NotOlder(b, c) == b.rows >= c.rows /\ b.status >= c.status

(* A connection never goes back in time: whatever another thread built in  *)
(* between, a pushed body is not older than the one pushed before it       *)
(* (web/sse.py, "only one worker thread rebuilds at a time").              *)
NeverGoesBack ==
  [][\A s \in Streams :
       shown[s] # Nobody /\ shown'[s] # shown[s] => NotOlder(shown'[s], shown[s])]_streamVars

(* "collapses the storage reads of concurrent connections ... into roughly *)
(* one read per poll interval": while a body younger than that is there,   *)
(* nobody starts a read.                                                   *)
OneReadPerInterval ==
  [][\A s \in Streams :
       pc[s] = "wait" /\ pc'[s] = "rows" => cache.body = Nobody \/ cache.age >= Ttl]_streamVars

(* "a lone connection ... still rebuilds every tick": it never gets a body *)
(* older than its own tick.                                                *)
LoneTickIsCurrent ==
  \A s \in Streams :
    pc[s] = "emit" /\ (\A r \in Streams \ {s} : pc[r] = "new") => NotOlder(body[s], asked[s])

(* Once writing stops, every connection has been pushed what is stored.    *)
Delivered == \A s \in Streams : <>[](pc[s] # "new" => shown[s] = stored)
=============================================================================
