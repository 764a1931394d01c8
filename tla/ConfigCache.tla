---------------------------- MODULE ConfigCache ----------------------------
(***************************************************************************)
(* The web process's cached AppConfig (web/runtime_config.py).  Requests   *)
(* are handled by worker threads, all of which call _load_runtime_config;  *)
(* the SIGHUP handler clears the cache from the main thread; the file is   *)
(* edited meanwhile.  There is no lock: each of the three cache fields is  *)
(* read and written by a step of its own.                                  *)
(***************************************************************************)
EXTENDS Integers

CONSTANTS
  Threads,   \* worker threads
  Unset,     \* Python's None
  MaxEdits,  \* bound on file.mtime
  MaxSignals \* bound on signals

ASSUME CacheAssumption ==
  /\ Unset \notin Nat
  /\ MaxEdits \in Nat
  /\ MaxSignals \in Nat

VARIABLES
  file,   \* the config file; mtime stands for its content too
  cache,  \* _config_cache
  pc,     \* [Threads -> where the thread is in _load_runtime_config]
  seen,   \* [Threads -> the mtime its stat returned]
  parsed, \* [Threads -> what load_config returned]
  result, \* [Threads -> what the last call returned]
  main,   \* where the main thread is in _clear_config_cache
  signals \* signals so far, for the bound

VARIABLES \* history, read by the properties only
  newest, \* the newest content ever stored in the cache, 0 before
  misled, \* threads whose last answer had been stored over a newer one
  cleared \* threads that found a config which SIGHUP took away in mid-call

history == <<newest, misled, cleared>>
cacheVars == <<file, cache, pc, seen, parsed, result, main, signals, history>>

Version == 1..(MaxEdits + 1)
Places == {"idle", "config", "path", "mtime", "cached", "load",
           "setConfig", "setPath", "setMtime", "done", "http500"}

CacheTypeOK ==
  /\ file \in [mtime : Version, state : {"valid", "invalid", "missing"}]
  /\ cache \in [config : Version \cup {Unset}, path : BOOLEAN, mtime : Version \cup {Unset}]
  /\ pc \in [Threads -> Places]
  /\ seen \in [Threads -> Version]
  /\ parsed \in [Threads -> Version]
  /\ result \in [Threads -> Version \cup {Unset}]
  /\ main \in {"idle", "path", "mtime"}
  /\ signals \in 0..MaxSignals
  /\ newest \in Version \cup {0} /\ misled \subseteq Threads /\ cleared \subseteq Threads

(* path is TRUE when it is CORVIX_CONFIG, FALSE when it is None.           *)
CacheInit ==
  /\ file = [mtime |-> 1, state |-> "valid"]
  /\ cache = [config |-> Unset, path |-> FALSE, mtime |-> Unset]
  /\ pc = [t \in Threads |-> "idle"]
  /\ seen = [t \in Threads |-> 1]
  /\ parsed = [t \in Threads |-> 1]
  /\ result = [t \in Threads |-> Unset]
  /\ main = "idle"
  /\ signals = 0
  /\ newest = 0 /\ misled = {} /\ cleared = {}

Goto(t, place) == pc' = [pc EXCEPT ![t] = place]

-----------------------------------------------------------------------------
(* A request begins, with new locals: exists() and stat().                 *)
Stat(t) ==
  /\ pc[t] \in {"idle", "done", "http500"}
  /\ IF file.state = "missing"
     THEN Goto(t, "http500") /\ UNCHANGED seen
     ELSE Goto(t, "config") /\ seen' = [seen EXCEPT ![t] = file.mtime]
  /\ parsed' = [parsed EXCEPT ![t] = 1] /\ result' = [result EXCEPT ![t] = Unset]
  /\ misled' = misled \ {t} /\ cleared' = cleared \ {t}
  /\ UNCHANGED <<file, cache, main, signals, newest>>

(* The three comparisons of the cached fields, one after the other.        *)
Compare(t, place, equal, next) ==
  /\ pc[t] = place
  /\ Goto(t, IF equal THEN next ELSE "load")
  /\ UNCHANGED <<file, cache, seen, parsed, result, main, signals, history>>

CheckConfig(t) == Compare(t, "config", cache.config # Unset, "path")
CheckPath(t) == Compare(t, "path", cache.path, "mtime")

CheckMtime(t) == Compare(t, "mtime", cache.mtime = seen[t], "cached")

(* `return _config_cache.config`: the field is read once more.             *)
ReturnCached(t) ==
  /\ pc[t] = "cached"
  /\ result' = [result EXCEPT ![t] = cache.config]
  /\ misled' = IF cache.config # Unset /\ cache.config < newest THEN misled \cup {t} ELSE misled
  /\ Goto(t, "done")
  /\ UNCHANGED <<file, cache, seen, parsed, main, signals, newest, cleared>>

(* A bug to exclude: the mtime is stored as soon as the file was parsed.   *)
Load_MtimeFirst(t) ==
  /\ pc[t] = "load"
  /\ IF file.state = "valid"
     THEN /\ Goto(t, "setConfig") /\ parsed' = [parsed EXCEPT ![t] = file.mtime]
          /\ cache' = [cache EXCEPT !.mtime = seen[t]]
     ELSE Goto(t, "http500") /\ UNCHANGED <<parsed, cache>>
  /\ UNCHANGED <<file, seen, result, main, signals, history>>

(* load_config: an unreadable or invalid file is answered 500.             *)
Load(t) ==
  /\ pc[t] = "load"
  /\ IF file.state = "valid"
     THEN Goto(t, "setConfig") /\ parsed' = [parsed EXCEPT ![t] = file.mtime]
     ELSE Goto(t, "http500") /\ UNCHANGED parsed
  /\ UNCHANGED <<file, cache, seen, result, main, signals, history>>

SetConfig(t) ==
  /\ pc[t] = "setConfig"
  /\ cache' = [cache EXCEPT !.config = parsed[t]]
  /\ newest' = IF newest < parsed[t] THEN parsed[t] ELSE newest
  /\ Goto(t, "setPath")
  /\ UNCHANGED <<file, seen, parsed, result, main, signals, misled, cleared>>

SetPath(t) ==
  /\ pc[t] = "setPath"
  /\ cache' = [cache EXCEPT !.path = TRUE]
  /\ Goto(t, "setMtime")
  /\ UNCHANGED <<file, seen, parsed, result, main, signals, history>>

(* A bug to exclude: the file is asked again which mtime to remember.      *)
SetMtime_Restat(t) ==
  /\ pc[t] = "setMtime"
  /\ cache' = [cache EXCEPT !.mtime = file.mtime]
  /\ result' = [result EXCEPT ![t] = parsed[t]]
  /\ Goto(t, "done")
  /\ UNCHANGED <<file, seen, parsed, main, signals, history>>

(* The mtime is stored last; the call returns what it parsed itself.       *)
SetMtime(t) ==
  /\ pc[t] = "setMtime"
  /\ cache' = [cache EXCEPT !.mtime = seen[t]]
  /\ result' = [result EXCEPT ![t] = parsed[t]]
  /\ Goto(t, "done")
  /\ UNCHANGED <<file, seen, parsed, main, signals, history>>

Call(t) ==
  \/ Stat(t)
  \/ CheckConfig(t) \/ CheckPath(t) \/ CheckMtime(t) \/ ReturnCached(t)
  \/ Load(t) \/ SetConfig(t) \/ SetPath(t) \/ SetMtime(t)

-----------------------------------------------------------------------------
(* _clear_config_cache, run by the main thread on SIGHUP.                  *)
ClearConfig ==
  /\ main = "idle" /\ signals < MaxSignals
  /\ cache' = [cache EXCEPT !.config = Unset]
  /\ main' = "path" /\ signals' = signals + 1
  /\ cleared' = cleared \cup {t \in Threads : pc[t] \in {"path", "mtime", "cached"}}
  /\ UNCHANGED <<file, pc, seen, parsed, result, newest, misled>>

ClearPath ==
  /\ main = "path"
  /\ cache' = [cache EXCEPT !.path = FALSE]
  /\ main' = "mtime"
  /\ UNCHANGED <<file, pc, seen, parsed, result, signals, history>>

ClearMtime ==
  /\ main = "mtime"
  /\ cache' = [cache EXCEPT !.mtime = Unset]
  /\ main' = "idle"
  /\ UNCHANGED <<file, pc, seen, parsed, result, signals, history>>

Clear == ClearConfig \/ ClearPath \/ ClearMtime

(* The operator saves, breaks, removes or restores the file.               *)
Edit ==
  /\ file.mtime <= MaxEdits
  /\ \E state \in {"valid", "invalid", "missing"} :
       file' = [mtime |-> file.mtime + 1, state |-> state]
  /\ UNCHANGED <<cache, pc, seen, parsed, result, main, signals, history>>

CacheNext == (\E t \in Threads : Call(t)) \/ Clear \/ Edit

CacheSpec == CacheInit /\ [][CacheNext]_cacheVars

(* Requests keep coming (health checks alone see to that) and are handled. *)
FairCacheSpec == CacheSpec /\ \A t \in Threads : WF_cacheVars(Call(t))

-----------------------------------------------------------------------------
(* "The file's mtime is checked on every call": what a call returns is not *)
(* older than the file was when the call began, whichever steps of other   *)
(* threads, SIGHUPs and edits come between its own, unless it took from    *)
(* the cache what a slower thread had stored over something newer.  None   *)
(* is returned only if SIGHUP came between a comparison and the return.    *)
NeverStale ==
  \A t \in Threads : pc[t] = "done" =>
    IF result[t] = Unset THEN t \in cleared
    ELSE result[t] >= seen[t] \/ t \in misled

(* An edit is noticed by every thread: once the file stays valid, every    *)
(* later call that returns, returns it, unless a slower thread has stored  *)
(* an older content over it.                                               *)
EditsAreSeen ==
  \A t \in Threads :
    <>[](file.state = "valid") ~>
      [](pc[t] = "done" => result[t] = file.mtime \/ t \in misled)

(* What is expected without the excuses, and two threads or a SIGHUP       *)
(* break: a call is current, and returns a config or raises ("Return the   *)
(* cached AppConfig").                                                     *)
AlwaysCurrent == \A t \in Threads : pc[t] = "done" /\ result[t] # Unset => result[t] >= seen[t]
ReturnsConfig == \A t \in Threads : pc[t] = "done" => result[t] # Unset
=============================================================================
