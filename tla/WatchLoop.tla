----------------------------- MODULE WatchLoop -----------------------------
(***************************************************************************)
(* The daemon around the poll cycle (services.py, run_watch_loop and       *)
(* _handle_cycle_error), the poller_status row it leaves in PostgreSQL and *)
(* the checks that read that row: `corvix poller-health` (cli.py) and      *)
(* GET /api/health (web/health.py).  Time passes in ticks; ages are        *)
(* measured up to Cap, above which every check calls the poller stale.     *)
(***************************************************************************)
EXTENDS Integers

CONSTANTS
  Watched,    \* the configured GitHub accounts
  Interval,   \* polling.interval_seconds as the poller read it when it started
  Checked,    \* polling.interval_seconds as poller-health reads it from the file
  Floor,      \* five minutes
  MaxCycle,   \* how long a cycle may take
  Cap,        \* ages are not told apart from here on
  MaxFailures \* how many failures a run may have

Larger(a, b) == IF a >= b THEN a ELSE b

(* A bug to exclude: the limit knows nothing of the interval.              *)
Threshold_Fixed == Floor

(* threshold_seconds of poller-health, which loads the config file anew.   *)
Threshold == Larger(Floor, 2 * Checked)

ASSUME WatchAssumption ==
  /\ Watched # {}
  /\ Interval \in Nat /\ Checked \in Nat /\ Floor \in Nat /\ MaxCycle \in Nat /\ MaxFailures \in Nat
  /\ Cap \in Nat /\ Cap > Threshold /\ Cap >= MaxCycle

VARIABLES
  mode,    \* "sleep", "cycle", "handle", "save" or "dead"
  left,    \* ticks left to sleep
  elapsed, \* age of the running cycle
  dbUp,    \* PostgreSQL answers
  status,  \* the stored state and account_errors
  age,     \* age of the stored last_poll_time; Cap if there is none
  kept,    \* what _handle_cycle_error keeps of the stored row
  failures \* failures so far, for the bound

VARIABLES   \* history, read by the properties only
  success, \* age of the start of the last cycle that completed
  polled,  \* age of the start of the last completed cycle that fetched something
  crashed  \* the process was killed from outside

watchGhosts == <<success, polled, crashed>>
watchVars == <<mode, left, elapsed, dbUp, status, age, kept, failures, watchGhosts>>

Status == [state : {"unknown", "ok", "error"}, failed : SUBSET Watched]

TypeOK ==
  /\ mode \in {"sleep", "cycle", "handle", "save", "dead"}
  /\ left \in 0..Interval
  /\ elapsed \in 0..MaxCycle
  /\ dbUp \in BOOLEAN
  /\ status \in Status
  /\ age \in 0..Cap
  /\ kept \in [age : 0..Cap, failed : SUBSET Watched]
  /\ failures \in 0..MaxFailures
  /\ success \in 0..Cap /\ polled \in 0..Cap /\ crashed \in BOOLEAN

Nothing == [age |-> Cap, failed |-> {}]

WatchInit ==
  /\ mode = "sleep" /\ left = 0 /\ elapsed = 0
  /\ dbUp = TRUE
  /\ status = [state |-> "unknown", failed |-> {}] /\ age = Cap
  /\ kept = Nothing /\ failures = 0
  /\ success = Cap /\ polled = Cap /\ crashed = FALSE

-----------------------------------------------------------------------------
(* run_poll_cycle starts: current_time is read here.                       *)
Begin ==
  /\ mode = "sleep" /\ left = 0
  /\ mode' = "cycle" /\ elapsed' = 0
  /\ UNCHANGED <<left, dbUp, status, age, kept, failures, watchGhosts>>

GoToSleep == mode' = "sleep" /\ left' = Interval /\ elapsed' = 0

(* A bug to exclude: an error, once stored, is never cleared.              *)
Complete_KeepsError(F) ==
  /\ mode = "cycle" /\ dbUp
  /\ status' = [state |-> IF status.state = "error" THEN "error" ELSE "ok", failed |-> F]
  /\ age' = elapsed
  /\ success' = elapsed
  /\ polled' = IF F = Watched THEN polled ELSE elapsed
  /\ GoToSleep
  /\ UNCHANGED <<dbUp, kept, failures, crashed>>

(* The cycle completes; the accounts in F raised and were skipped.  The    *)
(* status row carries the time the cycle started.                          *)
Complete(F) ==
  /\ mode = "cycle" /\ dbUp
  /\ status' = [state |-> "ok", failed |-> F]
  /\ age' = elapsed
  /\ success' = elapsed
  /\ polled' = IF F = Watched THEN polled ELSE elapsed
  /\ GoToSleep
  /\ UNCHANGED <<dbUp, kept, failures, crashed>>

(* The cycle raises: a database call failed, or anything else did.         *)
Raise ==
  /\ mode = "cycle"
  /\ failures' = IF dbUp THEN failures + 1 ELSE failures
  /\ failures' <= MaxFailures
  /\ mode' = "handle" /\ elapsed' = 0
  /\ UNCHANGED <<left, dbUp, status, age, kept, watchGhosts>>

(* load_status: the row, or "unknown" without a poll time before the first *)
(* one, which WatchInit makes the same.                                    *)
Loaded == [age |-> age, failed |-> status.failed]

(* _handle_cycle_error, first try block: only OSError and ValueError are   *)
(* caught there, and an unreachable PostgreSQL raises neither.             *)
LoadStatus ==
  /\ mode = "handle"
  /\ IF dbUp
     THEN mode' = "save" /\ kept' = Loaded
     ELSE mode' = "dead" /\ kept' = Nothing
  /\ UNCHANGED <<left, elapsed, dbUp, status, age, failures, watchGhosts>>

(* A bug to exclude: the error row is stamped with the current time.       *)
SaveError_Stamped ==
  /\ mode = "save"
  /\ IF dbUp
     THEN status' = [state |-> "error", failed |-> kept.failed] /\ age' = 0
     ELSE UNCHANGED <<status, age>>
  /\ kept' = Nothing
  /\ GoToSleep
  /\ UNCHANGED <<dbUp, failures, watchGhosts>>

(* Second try block: the error row keeps last_poll_time and the account    *)
(* errors; whatever raises here is logged and the loop goes on.            *)
SaveError ==
  /\ mode = "save"
  /\ IF dbUp
     THEN status' = [state |-> "error", failed |-> kept.failed] /\ age' = kept.age
     ELSE UNCHANGED <<status, age>>
  /\ kept' = Nothing
  /\ GoToSleep
  /\ UNCHANGED <<dbUp, failures, watchGhosts>>

-----------------------------------------------------------------------------
(* PostgreSQL goes away and comes back; the process is killed at any time  *)
(* and started again by the container runtime (restart: unless-stopped).   *)
DbFails ==
  /\ dbUp /\ failures < MaxFailures
  /\ dbUp' = FALSE /\ failures' = failures + 1
  /\ UNCHANGED <<mode, left, elapsed, status, age, kept, watchGhosts>>

DbRecovers ==
  /\ ~dbUp /\ dbUp' = TRUE
  /\ UNCHANGED <<mode, left, elapsed, status, age, kept, failures, watchGhosts>>

Killed ==
  /\ mode # "dead" /\ failures < MaxFailures
  /\ mode' = "dead" /\ failures' = failures + 1 /\ crashed' = TRUE
  /\ kept' = Nothing
  /\ UNCHANGED <<left, elapsed, dbUp, status, age, success, polled>>

Restarted ==
  /\ mode = "dead"
  /\ mode' = "sleep" /\ left' = 0 /\ elapsed' = 0 /\ crashed' = FALSE
  /\ UNCHANGED <<dbUp, status, age, kept, failures, success, polled>>

Older(a) == IF a = Cap THEN Cap ELSE a + 1

(* A tick.  time.sleep wakes up when it is due, and a cycle ends within    *)
(* MaxCycle: its requests and its database calls have timeouts.            *)
Tick ==
  /\ mode = "sleep" => left > 0
  /\ mode = "cycle" => elapsed < MaxCycle
  /\ left' = IF mode = "sleep" THEN left - 1 ELSE left
  /\ elapsed' = IF mode = "cycle" THEN elapsed + 1 ELSE elapsed
  /\ age' = Older(age) /\ kept' = [kept EXCEPT !.age = Older(@)]
  /\ success' = Older(success) /\ polled' = Older(polled)
  /\ UNCHANGED <<mode, dbUp, status, failures, crashed>>

Loop == Begin \/ (\E F \in SUBSET Watched : Complete(F)) \/ LoadStatus \/ SaveError
RaiseDown == ~dbUp /\ Raise
WatchNext == Loop \/ Raise \/ DbFails \/ DbRecovers \/ Killed \/ Restarted \/ Tick

WatchSpec == WatchInit /\ [][WatchNext]_watchVars

(* The loop runs while its process does, time passes, the database comes   *)
(* back and the container is restarted; a cycle in an outage does end.     *)
FairWatchSpec ==
  /\ WatchSpec
  /\ WF_watchVars(Loop) /\ WF_watchVars(RaiseDown) /\ WF_watchVars(Tick)
  /\ WF_watchVars(DbRecovers) /\ WF_watchVars(Restarted)

-----------------------------------------------------------------------------
(* `corvix poller-health`.                                                 *)
CliHealthy == dbUp /\ status.state # "error" /\ age <= Threshold

(* GET /api/health.                                                        *)
WebHealthy == dbUp /\ status.state \notin {"error", "unknown"} /\ age <= Floor

(* A check that passes is right: a poll cycle that started within its      *)
(* limit completed, whatever failed, died or came back meanwhile.          *)
HealthyMeansCompleted ==
  /\ CliHealthy => success <= Threshold
  /\ WebHealthy => success <= Floor

(* The stored time is that of the last completed cycle in every row, error *)
(* rows included, whatever kills, outages and errors fall between the load *)
(* and the save of the error handler (_handle_cycle_error, "Record a       *)
(* poll-cycle failure and persist the error status").                      *)
StoredTimeIsTrue == age = success

(* "so a single delayed cycle or a longer configured interval doesn't trip *)
(* the check" (cli.py): as long as nothing fails, no false alarm, whenever *)
(* the row is read, if two cycles and one interval fit in the threshold.   *)
NoFalseAlarm == failures = 0 /\ status.state = "ok" => CliHealthy

(* The same of the web check, which knows no interval.                     *)
NoFalseWebAlarm == failures = 0 /\ status.state = "ok" => WebHealthy

(* "verifies a successful poll happened recently" (cli.py): some account   *)
(* answered within the threshold.                                          *)
HealthyMeansPolled == CliHealthy => polled <= Threshold

(* run_watch_loop catches what a cycle raises and tries again: only the    *)
(* outside ends the process (services.py, "Failed to persist poller error  *)
(* status", is a warning).                                                 *)
OnlyKilledDies == mode = "dead" => crashed

(* Once failures stop, the poller is reported healthy and stays so.        *)
Recovers == <>[]CliHealthy
=============================================================================
