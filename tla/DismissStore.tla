---------------------------- MODULE DismissStore ----------------------------
(***************************************************************************)
(* Dismissing with an undo grace period in the browser                     *)
(* (frontend/src/lib/dismiss.svelte.ts).  A click schedules a timer and    *)
(* hides the thread; the timer calls the API; the user may undo meanwhile. *)
(* Snapshots come by two ways, a fetch and the event stream, and are shown *)
(* when they arrive (snapshot.svelte.ts): a snapshot read before another   *)
(* may be shown after it.  A timer and its pending entry are named by the  *)
(* number of the click.                                                    *)
(***************************************************************************)
EXTENDS Naturals, FiniteSets, Sequences

CONSTANTS
  Keys,      \* notification keys of the dashboard
  MaxClicks, \* bound on clicks
  MaxPushed  \* bound on pushed snapshots not shown yet

ASSUME DismissAssumption == IsFiniteSet(Keys) /\ MaxClicks \in Nat /\ MaxPushed \in Nat

VARIABLES
  pending,   \* [Keys -> click of the pending entry, or 0]
  timers,    \* timers that have not fired
  calls,     \* timer callbacks that have not ended
  committed, \* #committed
  items,     \* keys in the snapshot shown
  dismissed, \* keys the server has dismissed
  arriving,  \* per channel: snapshots read from the database, not shown yet
  clicks     \* dismissals asked for so far, for the bound

VARIABLES    \* history, read by the properties only
  undone,    \* clicks that were undone
  acked,     \* keys whose last answered call succeeded
  left       \* keys that were missing on the screen since, if only once

vars == <<pending, timers, calls, committed, items, dismissed, arriving, clicks,
          undone, acked, left>>

Channels == {"fetch", "stream"}

Timer == [key : Keys, click : 1..MaxClicks]
Call == [key : Keys, click : 1..MaxClicks, stage : {"sent", "ok", "failed", "refreshing"}]

TypeOK ==
  /\ pending \in [Keys -> 0..MaxClicks]
  /\ timers \subseteq Timer
  /\ calls \subseteq Call
  /\ committed \subseteq items /\ items \subseteq Keys
  /\ dismissed \subseteq Keys
  /\ arriving \in [Channels -> Seq(SUBSET Keys)]
  /\ clicks \in 0..MaxClicks
  /\ undone \subseteq 1..MaxClicks /\ acked \subseteq Keys /\ left \subseteq Keys

Init ==
  /\ pending = [k \in Keys |-> 0]
  /\ timers = {} /\ calls = {} /\ committed = {}
  /\ items = Keys /\ dismissed = {}
  /\ arriving = [ch \in Channels |-> <<>>]
  /\ clicks = 0 /\ undone = {} /\ acked = {} /\ left = {}

Hidden == {k \in Keys : pending[k] # 0} \cup committed

(* The effect of bind: committed keys that left the snapshot are dropped.  *)
Pruned(keys, shown) == keys \cap shown

-----------------------------------------------------------------------------
(* dismiss: the buttons and the shortcut exist for the rows shown.         *)
Dismiss(k) ==
  /\ k \in items \ Hidden /\ clicks < MaxClicks
  /\ clicks' = clicks + 1
  /\ timers' = timers \cup {[key |-> k, click |-> clicks']}
  /\ pending' = [pending EXCEPT ![k] = clicks']
  /\ UNCHANGED <<calls, committed, items, dismissed, arriving, undone, acked, left>>

(* A bug to exclude: the entries are removed, their timers run on.         *)
Undo_KeepsTimers(ks) ==
  LET chosen == {k \in ks : pending[k] # 0}
  IN /\ chosen # {}
     /\ pending' = [k \in Keys |-> IF k \in chosen THEN 0 ELSE pending[k]]
     /\ undone' = undone \cup {pending[k] : k \in chosen}
     /\ UNCHANGED <<timers, calls, committed, items, dismissed, arriving, clicks, acked, left>>

(* undo of one key, undoAll of them all: clearing a timer that has fired   *)
(* already has no effect.                                                  *)
Undo(ks) ==
  LET chosen == {k \in ks : pending[k] # 0}
  IN /\ chosen # {}
     /\ timers' = {t \in timers : ~(t.key \in chosen /\ pending[t.key] = t.click)}
     /\ pending' = [k \in Keys |-> IF k \in chosen THEN 0 ELSE pending[k]]
     /\ undone' = undone \cup {pending[k] : k \in chosen}
     /\ UNCHANGED <<calls, committed, items, dismissed, arriving, clicks, acked, left>>

(* The timer fires: POST .../dismiss.  The entry stays pending.            *)
Fire(t) ==
  /\ t \in timers
  /\ timers' = timers \ {t}
  /\ calls' = calls \cup {[key |-> t.key, click |-> t.click, stage |-> "sent"]}
  /\ UNCHANGED <<pending, committed, items, dismissed, arriving, clicks, undone, acked, left>>

Advance(c, stage) == calls' = (calls \ {c}) \cup {[c EXCEPT !.stage = stage]}

(* The server answers; an error does not say that nothing was done.        *)
Answer(c) ==
  /\ c \in calls /\ c.stage = "sent"
  /\ \/ Advance(c, "ok") /\ dismissed' = dismissed \cup {c.key}
     \/ Advance(c, "failed") /\ dismissed' \in {dismissed, dismissed \cup {c.key}}
  /\ UNCHANGED <<pending, timers, committed, items, arriving, clicks, undone, acked, left>>

(* History: the call for the key succeeded while the key was on the screen *)
(* or had left it already.                                                 *)
Acked(key) ==
  /\ acked' = acked \cup {key}
  /\ left' = IF key \in items THEN left \ {key} ELSE left \cup {key}

(* A bug to exclude: the key is not kept hidden until the snapshot drops it.*)
Commit_Forgets(c) ==
  /\ c \in calls /\ c.stage = "ok"
  /\ committed' = Pruned(committed, items)
  /\ Acked(c.key)
  /\ Advance(c, "refreshing")
  /\ UNCHANGED <<pending, timers, items, dismissed, arriving, clicks, undone>>

(* Success: committed until the snapshot drops the key (the effect of bind *)
(* runs at once), then a refresh is awaited.                               *)
Commit(c) ==
  /\ c \in calls /\ c.stage = "ok"
  /\ committed' = Pruned(committed \cup {c.key}, items)
  /\ Acked(c.key)
  /\ Advance(c, "refreshing")
  /\ UNCHANGED <<pending, timers, items, dismissed, arriving, clicks, undone>>

(* A bug to exclude: the entry of a failed call stays.                     *)
Fail_NoFinally(c) ==
  /\ c \in calls /\ c.stage = "failed"
  /\ calls' = calls \ {c}
  /\ committed' = committed \ {c.key}
  /\ acked' = acked \ {c.key}
  /\ UNCHANGED <<pending, timers, items, dismissed, arriving, clicks, undone, left>>

(* Failure: the error is shown, the key uncommitted and no longer pending. *)
Fail(c) ==
  /\ c \in calls /\ c.stage = "failed"
  /\ calls' = calls \ {c}
  /\ committed' = committed \ {c.key}
  /\ acked' = acked \ {c.key}
  /\ pending' = [pending EXCEPT ![c.key] = 0]
  /\ UNCHANGED <<timers, items, dismissed, arriving, clicks, undone, left>>

(* The refresh has ended: `finally` deletes the key's entry, whichever.    *)
Finish(c) ==
  /\ c \in calls /\ c.stage = "refreshing"
  /\ calls' = calls \ {c}
  /\ pending' = [pending EXCEPT ![c.key] = 0]
  /\ UNCHANGED <<timers, committed, items, dismissed, arriving, clicks, undone, acked, left>>

Callback(c) == Answer(c) \/ Commit(c) \/ Fail(c) \/ Finish(c)

(* One fetch at a time, refreshes while it is in flight coalesce with it;  *)
(* the stream keeps its order.                                             *)
Room == [fetch |-> 1, stream |-> MaxPushed]

(* The server reads the dashboard for a fetch or for a push.  One that is  *)
(* lost on the way might as well not have been read.                       *)
Read(ch) ==
  /\ Len(arriving[ch]) < Room[ch]
  /\ arriving' = [arriving EXCEPT ![ch] = Append(@, Keys \ dismissed)]
  /\ UNCHANGED <<pending, timers, calls, committed, items, dismissed, clicks,
                 undone, acked, left>>

(* A snapshot arrives and replaces the one on the screen, older or not.    *)
Show(ch) ==
  /\ arriving[ch] # <<>>
  /\ items' = Head(arriving[ch])
  /\ arriving' = [arriving EXCEPT ![ch] = Tail(@)]
  /\ committed' = Pruned(committed, items')
  /\ left' = left \cup (Keys \ items')
  /\ UNCHANGED <<pending, timers, calls, dismissed, clicks, undone, acked>>

User ==
  \/ \E k \in Keys : Dismiss(k) \/ Undo({k})
  \/ Undo(Keys)

Next ==
  \/ User
  \/ \E ch \in Channels : Read(ch) \/ Show(ch)
  \/ \E t \in timers : Fire(t)
  \/ \E c \in calls : Callback(c)

Spec == Init /\ [][Next]_vars

(* Timers fire and requests end, one way or another.                       *)
FairSpec ==
  /\ Spec
  /\ \A t \in Timer : WF_vars(Fire(t))
  /\ \A c \in Call : WF_vars(Callback(c))

-----------------------------------------------------------------------------
(* A dismissed row does not flash back at once: when a call has succeeded  *)
(* the thread stays hidden until a snapshot without it has been shown,     *)
(* whatever order the answer, the refresh, pushed snapshots and further    *)
(* dismissals come in.  From then on a snapshot that was read before may   *)
(* bring it back.                                                          *)
HandledStaysHidden == acked \cap items \subseteq Hidden \cup left

(* What a user expects, and late snapshots break: a dismissed row does not *)
(* come back at all.                                                       *)
NeverFlashesBack == acked \cap items \subseteq Hidden

(* Undo in the grace period cancels the call: the timer of a click that    *)
(* was undone never fires.                                                 *)
GraceHonoured == \A t \in timers : t.click \notin undone

(* The toast goes away: whether the call succeeds, fails or never starts,  *)
(* a pending entry ends.                                                   *)
ToastEnds == \A k \in Keys : pending[k] # 0 ~> pending[k] = 0

(* "Must implement a client-side undo grace period": a dismissal that is   *)
(* scheduled can be undone until its timer fires.                          *)
ScheduledIsUndoable == \A t \in timers : pending[t.key] = t.click

(* The toast offers "Undo" as long as an entry is pending: a dismissal     *)
(* that was undone does not succeed.                                       *)
UndoneIsKept == \A c \in calls : c.click \in undone => c.stage \in {"sent", "failed"}
=============================================================================
