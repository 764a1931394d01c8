--------------------------- MODULE BrowserNotify ---------------------------
(***************************************************************************)
(* Notifications of the browser (browserNotifications.svelte.ts) in the    *)
(* tabs of one user.  Each tab keeps a map of the threads it has announced *)
(* or heard of; localStorage holds the map the last saving tab had, and a  *)
(* BroadcastChannel tells the other tabs.  All tabs show one dashboard.    *)
(* A timestamp is kept as its age: ages count in days, a cooldown is over  *)
(* within a day.                                                           *)
(***************************************************************************)
EXTENDS Naturals, FiniteSets, Sequences

CONSTANTS
  Keys,           \* notification keys
  Tabs,
  TouchInterval,  \* SEEN_TOUCH_INTERVAL_MS
  TTL,            \* SEEN_TTL_MS
  MaxEntries,     \* SEEN_MAX_ENTRIES
  MaxPerCycle,    \* browser_tab.max_per_cycle
  MaxToggles      \* bound on enable and disable clicks

ASSUME BrowserAssumption ==
  /\ TouchInterval \in Nat /\ TTL \in Nat /\ TouchInterval < TTL /\ MaxEntries \in Nat
  /\ MaxPerCycle \in Nat \ {0} /\ MaxToggles \in Nat

VARIABLES
  items,    \* the dashboard: [Keys -> {"absent", "read", "unread"}]
  mode,     \* tabs: "closed", "loaded" (constructed), "open" (bound)
  enabled,  \* tabs: #userEnabled
  seen,     \* tabs: #seen, the age of each entry
  cooling,  \* tabs: before #cooldownUntil
  queue,    \* tabs: messages not handled yet, each a set of keys
  stored,   \* localStorage: the saved map
  allowed,  \* localStorage: the saved "enabled"
  toggles   \* clicks so far

VARIABLES   \* history
  handled,  \* tabs: announced keys whose item the tab handled today
  mark      \* per key: "new", "told", "excused" (told, and something has
            \* happened since that explains a repeat), "again" (repeated
            \* with such an excuse), "repeated" (without one)

storage == <<stored, allowed>>
vars == <<items, mode, enabled, seen, cooling, queue, storage, toggles, handled, mark>>

Expired == TTL + 1
Absent  == TTL + 2
Ages    == 0..Absent
Older(age) == IF age < Expired THEN age + 1 ELSE age
Empty == [k \in Keys |-> Absent]
Entries(map) == {k \in Keys : map[k] # Absent}
Listed == {k \in Keys : items[k] # "absent"}
Active(t) == mode[t] = "open" /\ enabled[t]

TypeOK ==
  /\ items \in [Keys -> {"absent", "read", "unread"}]
  /\ mode \in [Tabs -> {"closed", "loaded", "open"}]
  /\ enabled \in [Tabs -> BOOLEAN] /\ cooling \in [Tabs -> BOOLEAN]
  /\ seen \in [Tabs -> [Keys -> Ages]] /\ stored \in [Keys -> Ages]
  /\ queue \in [Tabs -> Seq(SUBSET Keys)]
  /\ allowed \in BOOLEAN /\ toggles \in Nat
  /\ handled \in [Tabs -> SUBSET Keys]
  /\ mark \in [Keys -> {"new", "told", "excused", "again", "repeated"}]

Init ==
  /\ items = [k \in Keys |-> "absent"]
  /\ mode = [t \in Tabs |-> "closed"]
  /\ enabled = [t \in Tabs |-> FALSE]
  /\ seen = [t \in Tabs |-> Empty]
  /\ cooling = [t \in Tabs |-> FALSE]
  /\ queue = [t \in Tabs |-> <<>>]
  /\ stored = Empty /\ allowed = TRUE
  /\ toggles = 0 /\ handled = [t \in Tabs |-> {}]
  /\ mark = [k \in Keys |-> "new"]

Excused(keys) ==
  [k \in Keys |-> IF k \in keys /\ mark[k] = "told" THEN "excused" ELSE mark[k]]

-----------------------------------------------------------------------------
(* pruneSeen: entries older than the limit go, then the oldest of those    *)
(* beyond the capacity.                                                    *)

Fresh(map) == {k \in Entries(map) : map[k] # Expired}
Kept(map) ==
  {kept \in SUBSET Fresh(map) :
     /\ Cardinality(kept) = IF Cardinality(Fresh(map)) > MaxEntries
                            THEN MaxEntries ELSE Cardinality(Fresh(map))
     /\ \A k \in kept, other \in Fresh(map) \ kept : map[k] <= map[other]}
With(map, keys) == [k \in Keys |-> IF k \in keys THEN 0 ELSE map[k]]
Only(map, kept) == [k \in Keys |-> IF k \in kept THEN map[k] ELSE Absent]

-----------------------------------------------------------------------------
(* A tab is opened: loadSeen and loadUserEnabled, then bind subscribes.    *)

Load(t) ==
  /\ mode[t] = "closed"
  /\ mode' = [mode EXCEPT ![t] = "loaded"]
  /\ enabled' = [enabled EXCEPT ![t] = allowed]
  /\ \E kept \in Kept(stored) :
       /\ seen' = [seen EXCEPT ![t] = Only(stored, kept)]
       /\ mark' = Excused(Fresh(stored) \ kept)
  /\ UNCHANGED <<items, cooling, queue, storage, toggles, handled>>

Bind(t) ==
  /\ mode[t] = "loaded"
  /\ mode' = [mode EXCEPT ![t] = "open"]
  /\ UNCHANGED <<items, enabled, seen, cooling, queue, storage, toggles, handled, mark>>

Close(t) ==
  /\ mode[t] # "closed"
  /\ mode' = [mode EXCEPT ![t] = "closed"]
  /\ seen' = [seen EXCEPT ![t] = Empty]
  /\ enabled' = [enabled EXCEPT ![t] = FALSE]
  /\ cooling' = [cooling EXCEPT ![t] = FALSE]
  /\ queue' = [queue EXCEPT ![t] = <<>>]
  /\ handled' = [handled EXCEPT ![t] = {}]
  /\ UNCHANGED <<items, storage, toggles, mark>>

(* enable, the permission being granted, and disable.                      *)
Toggle(t) ==
  /\ mode[t] = "open" /\ toggles < MaxToggles
  /\ toggles' = toggles + 1
  /\ enabled' = [enabled EXCEPT ![t] = ~@]
  /\ allowed' = ~enabled[t]
  /\ UNCHANGED <<items, mode, seen, cooling, queue, stored, handled, mark>>

-----------------------------------------------------------------------------
(* onMessage: newer entries are merged, the map is pruned and not saved.   *)

(* A bug to exclude: what another tab announced is not remembered.         *)
Merge_Ignored(map, keys) == map
Merge(map, keys) == With(map, keys)

Deliver(t) ==
  /\ mode[t] = "open" /\ queue[t] # <<>>
  /\ queue' = [queue EXCEPT ![t] = Tail(@)]
  /\ LET merged == Merge(seen[t], Head(queue[t]))
     IN \E kept \in Kept(merged) :
          /\ seen' = [seen EXCEPT ![t] = Only(merged, kept)]
          /\ mark' = Excused(Fresh(merged) \ kept)
  /\ UNCHANGED <<items, mode, enabled, cooling, storage, toggles, handled>>

(* The effect that runs on every snapshot.                                 *)

(* A bug to exclude: an entry keeps the time of its announcement.          *)
Touched_Never(t) == seen[t]
Touched(t) ==
  [k \in Keys |-> IF k \in Listed \cap Entries(seen[t]) /\ seen[t][k] > TouchInterval
                  THEN 0 ELSE seen[t][k]]

NewItems(t) == {k \in Keys : items[k] = "unread" /\ seen[t][k] = Absent}

(* A bug to exclude: what the cap and the cooldown leave out counts as     *)
(* seen.                                                                   *)
Remembered_All(t, toNotify) == NewItems(t) \cup toNotify
Remembered(t, toNotify) == toNotify

(* slice(0, max_per_cycle) of a list in any order.                         *)
Batches(t) ==
  IF cooling[t] THEN {{}}
  ELSE {b \in SUBSET NewItems(t) :
          Cardinality(b) = IF Cardinality(NewItems(t)) > MaxPerCycle
                           THEN MaxPerCycle ELSE Cardinality(NewItems(t))}

InFlight(t) == UNION {queue[t][i] : i \in DOMAIN queue[t]}

(* Excuses: a tab announces before it heard of an announcement; it         *)
(* announces while another tab has loaded and not subscribed yet; it saves *)
(* over a newer entry of another tab; or an entry is evicted.              *)
Marked(t, toNotify, saved, evicted) ==
  [k \in Keys |->
     CASE k \in toNotify /\ mark[k] = "told" ->
            IF k \in InFlight(t) THEN "again" ELSE "repeated"
       [] k \in toNotify /\ mark[k] = "excused" -> "again"
       [] k \in toNotify /\ mark[k] = "new" ->
            IF k \in evicted \/ \E u \in Tabs : mode[u] = "loaded" THEN "excused" ELSE "told"
       [] k \notin toNotify /\ mark[k] = "told"
          /\ (k \in evicted \/ stored[k] < saved[k]) -> "excused"
       [] OTHER -> mark[k]]

Handle(t) ==
  /\ Active(t)
  /\ \E toNotify \in Batches(t) :
       LET remembered == Remembered(t, toNotify)
           touched == Touched(t)
           changed == toNotify # {} \/ touched # seen[t]
           map == With(touched, remembered)
       IN \E kept \in IF changed THEN Kept(map) ELSE {Keys} :
            /\ seen' = [seen EXCEPT ![t] = Only(map, kept)]
            /\ stored' = IF changed THEN Only(map, kept) ELSE stored
            /\ cooling' = [cooling EXCEPT ![t] = @ \/ toNotify # {}]
            /\ queue' = [u \in Tabs |->
                 IF u # t /\ mode[u] = "open" /\ toNotify # {}
                 THEN Append(queue[u], toNotify) ELSE queue[u]]
            /\ mark' = Marked(t, toNotify, stored', Fresh(map) \ kept)
  /\ handled' = [handled EXCEPT ![t] = @ \cup {k \in Listed : mark'[k] = "told"}]
  /\ UNCHANGED <<items, mode, enabled, allowed, toggles>>

Cool(t) ==
  /\ cooling[t]
  /\ cooling' = [cooling EXCEPT ![t] = FALSE]
  /\ UNCHANGED <<items, mode, enabled, seen, queue, storage, toggles, handled, mark>>

-----------------------------------------------------------------------------
(* A snapshot changes one item.                                            *)
Change(k, to) ==
  /\ items[k] # to
  /\ items' = [items EXCEPT ![k] = to]
  /\ UNCHANGED <<mode, enabled, seen, cooling, queue, storage, toggles, handled, mark>>

(* A day passes; messages are faster.  An entry may grow old if a tab did  *)
(* not handle its item that day: the item was not listed, the tab was not  *)
(* active or asleep, or no tab was open.  The excuse is coarser than the   *)
(* code: one such day excuses the thread for good, whereas an entry lives  *)
(* for TTL and a day missed costs nothing if the item is handled again     *)
(* before it expires.                                                      *)
Tick ==
  /\ \A t \in Tabs : mode[t] # "loaded" /\ queue[t] = <<>>
  /\ handled' = [t \in Tabs |-> {}]
  /\ seen' = [t \in Tabs |-> [k \in Keys |-> Older(seen[t][k])]]
  /\ stored' = [k \in Keys |-> Older(stored[k])]
  /\ cooling' = [t \in Tabs |-> FALSE]
  /\ mark' = Excused({k \in Keys :
                 \/ \A t \in Tabs : mode[t] = "closed"
                 \/ \E t \in Tabs : mode[t] = "open" /\ k \notin handled[t]})
  /\ UNCHANGED <<items, mode, enabled, queue, allowed, toggles>>

Next ==
  \/ \E t \in Tabs : Load(t) \/ Bind(t) \/ Close(t) \/ Toggle(t)
                     \/ Deliver(t) \/ Handle(t) \/ Cool(t)
  \/ \E k \in Keys, to \in {"absent", "read", "unread"} : Change(k, to)
  \/ Tick

Spec == Init /\ [][Next]_vars

-----------------------------------------------------------------------------
(* A thread that stays on the dashboard, and that every open tab handles   *)
(* every day, is announced once in all tabs, now and after reloads and     *)
(* however long it stays (the daily touch), unless its entry was evicted   *)
(* or a tab announced or saved before it had heard of the announcement     *)
(* ("Dedupe state is ... synced across tabs").  A day on which an open tab *)
(* did not handle it, or no tab was open, ends the promise for the thread. *)
NoRepeatWithoutCause == \A k \in Keys : mark[k] # "repeated"

(* Neither the cooldown nor the cap swallows a thread: what a tab or the   *)
(* storage takes for seen was announced by some tab, so an unread thread   *)
(* that was left out is still new at the next snapshot.                    *)
SeenMeansTold ==
  \A k \in Keys : mark[k] = "new" =>
    stored[k] = Absent /\ \A t \in Tabs : seen[t][k] = Absent /\ k \notin InFlight(t)

(* What a user of two tabs might expect, and the code does not promise: no *)
(* thread is announced twice.                                              *)
NeverTwice == \A k \in Keys : mark[k] \notin {"again", "repeated"}

(* Nor does "disabled" reach the tabs that are already open.               *)
DisabledIsSilent ==
  [][~allowed => \A k \in Keys : mark[k] = "new" => mark'[k] = "new"]_vars
=============================================================================
