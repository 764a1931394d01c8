------------------------- MODULE BrowserNotify_proofs -------------------------
(***************************************************************************)
(* Why the tabs of a user do not repeat an announcement without a cause,   *)
(* for any number of tabs and threads, any capacity and any lifetime of    *)
(* entries that is longer than the touch interval.                         *)
(***************************************************************************)
EXTENDS BrowserNotify, TLAPS

(* A tab that is not open has neither messages nor handled anything.       *)
QuietOK ==
  \A t \in Tabs : mode[t] # "open" => queue[t] = <<>> /\ handled[t] = {}

(* What holds of a thread that was announced and has no excuse yet: the    *)
(* saved entry is alive and the freshest of all; a tab has a live entry or *)
(* a message on its way, and what it handled today it has touched.         *)
TabKnows(t, k) ==
  /\ stored[k] <= seen[t][k]
  /\ k \in InFlight(t) => stored[k] = 0
  /\ seen[t][k] <= TTL \/ k \in InFlight(t)
  /\ k \in handled[t] => seen[t][k] <= TouchInterval \/ k \in InFlight(t)
ToldOK(k) ==
  mark[k] = "told" =>
    /\ stored[k] <= TTL
    /\ \A t \in Tabs : mode[t] # "closed" => TabKnows(t, k)

(* What holds of one that was not announced.                               *)
NewOK(k) ==
  mark[k] = "new" =>
    stored[k] = Absent /\ \A t \in Tabs : seen[t][k] = Absent /\ k \notin InFlight(t)

IInv ==
  /\ TypeOK /\ QuietOK
  /\ \A k \in Keys : ToldOK(k) /\ NewOK(k) /\ mark[k] # "repeated"

-----------------------------------------------------------------------------
(* The ages.                                                               *)
LEMMA AgeFacts ==
  /\ Ages = 0..TTL + 2 /\ Absent = TTL + 2 /\ Expired = TTL + 1
  /\ 0 \in Ages /\ Absent \in Ages
  /\ \A a \in Ages : Older(a) \in Ages
  /\ \A a, b \in Ages : a <= b => Older(a) <= Older(b)
  /\ \A a \in Ages : a <= TouchInterval => Older(a) <= TTL
  /\ Older(Absent) = Absent
BY BrowserAssumption DEF Ages, Absent, Expired, Older

(* Messages on their way, before and after one is sent or delivered.       *)
Flight(q) == UNION {q[i] : i \in DOMAIN q}

LEMMA FlightFacts ==
  /\ Flight(<<>>) = {}
  /\ \A q \in Seq(SUBSET Keys), m \in SUBSET Keys :
       Append(q, m) \in Seq(SUBSET Keys) /\ Flight(Append(q, m)) = Flight(q) \cup m
  /\ \A q \in Seq(SUBSET Keys) : q # <<>> =>
       /\ Head(q) \in SUBSET Keys /\ Tail(q) \in Seq(SUBSET Keys)
       /\ Flight(q) = Head(q) \cup Flight(Tail(q))
<1>1. Flight(<<>>) = {}
  BY DEF Flight
<1>2. ASSUME NEW q \in Seq(SUBSET Keys), NEW m \in SUBSET Keys
      PROVE  Append(q, m) \in Seq(SUBSET Keys) /\ Flight(Append(q, m)) = Flight(q) \cup m
  <2>1. /\ DOMAIN Append(q, m) = 1..Len(q) + 1 /\ DOMAIN q = 1..Len(q) /\ Len(q) \in Nat
        /\ Append(q, m)[Len(q) + 1] = m
        /\ \A i \in 1..Len(q) : Append(q, m)[i] = q[i]
    OBVIOUS
  <2>2. Flight(Append(q, m)) = Flight(q) \cup m
    BY <2>1 DEF Flight
  <2> QED
    BY <2>2
<1>3. ASSUME NEW q \in Seq(SUBSET Keys), q # <<>>
      PROVE  /\ Head(q) \in SUBSET Keys /\ Tail(q) \in Seq(SUBSET Keys)
             /\ Flight(q) = Head(q) \cup Flight(Tail(q))
  <2>1. /\ DOMAIN q = 1..Len(q) /\ Len(q) \in Nat \ {0} /\ Head(q) = q[1]
        /\ Tail(q) \in Seq(SUBSET Keys) /\ DOMAIN Tail(q) = 1..Len(q) - 1
        /\ \A i \in 1..Len(q) - 1 : Tail(q)[i] = q[i + 1]
    BY <1>3
  <2>2. \A x : x \in Flight(q) => x \in Head(q) \cup Flight(Tail(q))
    <3> SUFFICES ASSUME NEW i \in 1..Len(q), NEW x \in q[i]
                 PROVE  x \in Head(q) \cup Flight(Tail(q))
      BY <2>1 DEF Flight
    <3>1. CASE i = 1
      BY <2>1, <3>1
    <3>2. CASE i # 1
      <4>1. i - 1 \in DOMAIN Tail(q) /\ Tail(q)[i - 1] = q[i]
        BY <2>1, <3>2
      <4> QED
        BY <4>1 DEF Flight
    <3> QED
      BY <3>1, <3>2
  <2>3. \A x : x \in Head(q) \cup Flight(Tail(q)) => x \in Flight(q)
    <3>1. \A i \in DOMAIN Tail(q) : Tail(q)[i] = q[i + 1] /\ i + 1 \in DOMAIN q
      BY <2>1
    <3>2. 1 \in DOMAIN q
      BY <2>1
    <3> QED
      BY <2>1, <3>1, <3>2 DEF Flight
  <2> QED
    BY <1>3, <2>1, <2>2, <2>3
<1> QED
  BY <1>1, <1>2, <1>3

LEMMA InFlightIs == \A t \in Tabs : InFlight(t) = Flight(queue[t]) /\ InFlight(t)' = Flight(queue'[t])
BY DEF InFlight, Flight

(* Maps.                                                                   *)
LEMMA WithFacts ==
  ASSUME NEW map \in [Keys -> Ages], NEW keys \in SUBSET Keys
  PROVE  /\ With(map, keys) \in [Keys -> Ages]
         /\ \A k \in Keys : With(map, keys)[k] = IF k \in keys THEN 0 ELSE map[k]
BY AgeFacts DEF With

LEMMA OnlyFacts ==
  ASSUME NEW map \in [Keys -> Ages], NEW kept \in SUBSET Keys
  PROVE  /\ Only(map, kept) \in [Keys -> Ages]
         /\ \A k \in Keys : Only(map, kept)[k] = IF k \in kept THEN map[k] ELSE Absent
BY AgeFacts DEF Only

LEMMA FreshFacts ==
  ASSUME NEW map \in [Keys -> Ages]
  PROVE  \A k \in Keys : k \in Fresh(map) <=> map[k] <= TTL
BY BrowserAssumption DEF Fresh, Entries, Ages, Absent, Expired

LEMMA KeptFacts ==
  ASSUME NEW map, NEW kept \in Kept(map)
  PROVE  kept \subseteq Fresh(map) /\ kept \in SUBSET Keys
BY DEF Kept, Fresh, Entries

(* An eviction only excuses.                                               *)
LEMMA ExcusedFacts ==
  ASSUME TypeOK, NEW keys
  PROVE  /\ Excused(keys) \in [Keys -> {"new", "told", "excused", "again", "repeated"}]
         /\ \A k \in Keys :
              /\ Excused(keys)[k] = "told" <=> mark[k] = "told" /\ k \notin keys
              /\ Excused(keys)[k] = "new" <=> mark[k] = "new"
              /\ Excused(keys)[k] = "repeated" <=> mark[k] = "repeated"
BY DEF TypeOK, Excused

-----------------------------------------------------------------------------
(* A tab is opened: it starts from the saved map.                          *)
LEMMA LoadKeeps ==
  ASSUME IInv, NEW t \in Tabs, Load(t)
  PROVE  IInv'
<1> USE DEF IInv, storage
<1>1. PICK kept \in Kept(stored) :
        seen' = [seen EXCEPT ![t] = Only(stored, kept)] /\ mark' = Excused(Fresh(stored) \ kept)
  BY DEF Load
<1>2. /\ mode[t] = "closed" /\ mode' = [mode EXCEPT ![t] = "loaded"]
      /\ enabled' = [enabled EXCEPT ![t] = allowed]
      /\ UNCHANGED <<items, cooling, queue, stored, allowed, toggles, handled>>
  BY DEF Load
<1>3. stored \in [Keys -> Ages] /\ kept \in SUBSET Keys
  BY KeptFacts DEF TypeOK
<1>4. /\ Only(stored, kept) \in [Keys -> Ages]
      /\ \A k \in Keys : Only(stored, kept)[k] = IF k \in kept THEN stored[k] ELSE Absent
      /\ \A k \in Keys : k \in Fresh(stored) <=> stored[k] <= TTL
  BY <1>3, OnlyFacts, FreshFacts
<1>5. TypeOK'
  BY <1>1, <1>2, <1>4, ExcusedFacts DEF TypeOK
<1>6. QuietOK'
  BY <1>2 DEF QuietOK, TypeOK
<1>7. queue[t] = <<>> /\ handled[t] = {} /\ Flight(queue[t]) = {}
  BY <1>2, FlightFacts DEF QuietOK
<1>8. ASSUME NEW k \in Keys
      PROVE  ToldOK(k)' /\ NewOK(k)' /\ mark'[k] # "repeated"
  <2>1. seen'[t][k] \in {stored[k], Absent}
    BY <1>1, <1>4 DEF TypeOK
  <2>2. \A u \in Tabs \ {t} : seen'[u] = seen[u] /\ mode'[u] = mode[u]
    BY <1>1, <1>2 DEF TypeOK
  <2>3. \A u \in Tabs : InFlight(u)' = InFlight(u)
    BY <1>2, InFlightIs
  <2>4. ASSUME mark'[k] = "told"
        PROVE  stored'[k] <= TTL /\ \A u \in Tabs : mode'[u] # "closed" => TabKnows(u, k)'
    <3>1. mark[k] = "told" /\ k \notin Fresh(stored) \ kept /\ stored[k] <= TTL
      BY <1>1, <2>4, ExcusedFacts DEF ToldOK
    <3>2. seen'[t][k] = stored[k]
      BY <1>1, <1>3, <1>4, <3>1 DEF TypeOK
    <3>3. TabKnows(t, k)'
      <4>1. stored[k] <= stored[k]
        BY <1>3, AgeFacts
      <4> QED
        BY <1>2, <1>7, <2>3, <3>1, <3>2, <4>1, InFlightIs DEF TabKnows
    <3>4. ASSUME NEW u \in Tabs \ {t}, mode'[u] # "closed" PROVE TabKnows(u, k)'
      BY <1>2, <2>2, <2>3, <3>1, <3>4 DEF ToldOK, TabKnows
    <3> QED
      BY <1>2, <3>1, <3>3, <3>4
  <2>5. ASSUME mark'[k] = "new"
        PROVE  stored'[k] = Absent /\ \A u \in Tabs : seen'[u][k] = Absent /\ k \notin InFlight(u)'
    BY <1>1, <1>2, <2>1, <2>2, <2>3, <2>5, ExcusedFacts DEF NewOK
  <2>6. mark'[k] # "repeated"
    BY <1>1, ExcusedFacts
  <2> QED
    BY <2>4, <2>5, <2>6 DEF ToldOK, NewOK
<1> QED
  BY <1>5, <1>6, <1>8

(* Steps that leave the maps, the marks and the messages alone.            *)
LEMMA OthersKeep ==
  ASSUME IInv, TypeOK', UNCHANGED <<seen, queue, stored, handled, mark>>,
         \A t \in Tabs : mode'[t] = mode[t] \/ (mode[t] = "loaded" /\ mode'[t] = "open")
  PROVE  IInv'
<1>1. QuietOK'
  BY DEF IInv, QuietOK
<1>2. \A t \in Tabs : InFlight(t)' = InFlight(t)
  BY InFlightIs
<1>3. ASSUME NEW k \in Keys PROVE ToldOK(k)' /\ NewOK(k)' /\ mark'[k] # "repeated"
  BY <1>2 DEF IInv, ToldOK, NewOK, TabKnows
<1> QED
  BY <1>1, <1>3 DEF IInv

(* A tab is closed: what it knew is gone with it.                          *)
LEMMA CloseKeeps ==
  ASSUME IInv, NEW t \in Tabs, Close(t)
  PROVE  IInv'
<1> USE DEF IInv, storage
<1>1. /\ mode' = [mode EXCEPT ![t] = "closed"] /\ seen' = [seen EXCEPT ![t] = Empty]
      /\ enabled' = [enabled EXCEPT ![t] = FALSE] /\ cooling' = [cooling EXCEPT ![t] = FALSE]
      /\ queue' = [queue EXCEPT ![t] = <<>>] /\ handled' = [handled EXCEPT ![t] = {}]
      /\ UNCHANGED <<items, stored, allowed, toggles, mark>>
  BY DEF Close
<1>2. TypeOK'
  <2>1. Empty \in [Keys -> Ages] /\ <<>> \in Seq(SUBSET Keys)
    BY AgeFacts DEF Empty
  <2> QED
    BY <1>1, <2>1 DEF TypeOK
<1>3. QuietOK'
  BY <1>1 DEF QuietOK, TypeOK
<1>4. \A u \in Tabs \ {t} : /\ seen'[u] = seen[u] /\ mode'[u] = mode[u] /\ handled'[u] = handled[u]
                            /\ InFlight(u)' = InFlight(u)
  BY <1>1, InFlightIs DEF TypeOK
<1>5. /\ mode'[t] = "closed" /\ InFlight(t)' = {}
      /\ \A k \in Keys : seen'[t][k] = Absent
  BY <1>1, InFlightIs, FlightFacts DEF TypeOK, Empty
<1>6. ASSUME NEW k \in Keys PROVE ToldOK(k)' /\ NewOK(k)' /\ mark'[k] # "repeated"
  BY <1>1, <1>4, <1>5 DEF ToldOK, NewOK, TabKnows
<1> QED
  BY <1>2, <1>3, <1>6

(* A message arrives: the entry is fresh, or it is evicted at once.        *)
LEMMA DeliverKeeps ==
  ASSUME IInv, NEW t \in Tabs, Deliver(t)
  PROVE  IInv'
<1> USE DEF IInv, storage
<1> DEFINE head == Head(queue[t])
<1> DEFINE merged == With(seen[t], head)
<1>1. /\ mode[t] = "open" /\ queue[t] # <<>>
      /\ queue' = [queue EXCEPT ![t] = Tail(@)]
      /\ UNCHANGED <<items, mode, enabled, cooling, stored, allowed, toggles, handled>>
  BY DEF Deliver
<1>2. PICK kept \in Kept(merged) :
        seen' = [seen EXCEPT ![t] = Only(merged, kept)] /\ mark' = Excused(Fresh(merged) \ kept)
  BY DEF Deliver, Merge
<1>3. /\ head \in SUBSET Keys /\ Tail(queue[t]) \in Seq(SUBSET Keys)
      /\ Flight(queue[t]) = head \cup Flight(Tail(queue[t]))
  BY <1>1, FlightFacts DEF TypeOK
<1>4. kept \in SUBSET Keys /\ seen[t] \in [Keys -> Ages]
  BY KeptFacts DEF TypeOK
<1>5. merged \in [Keys -> Ages] /\ \A k \in Keys : merged[k] = IF k \in head THEN 0 ELSE seen[t][k]
  BY <1>3, <1>4, WithFacts
<1> HIDE DEF merged
<1>6. /\ Only(merged, kept) \in [Keys -> Ages]
      /\ \A k \in Keys : Only(merged, kept)[k] = IF k \in kept THEN merged[k] ELSE Absent
      /\ \A k \in Keys : k \in Fresh(merged) <=> merged[k] <= TTL
  BY <1>4, <1>5, OnlyFacts, FreshFacts
<1>7. TypeOK'
  BY <1>1, <1>2, <1>3, <1>6, ExcusedFacts DEF TypeOK
<1>8. QuietOK'
  BY <1>1 DEF QuietOK, TypeOK
<1>9. /\ \A u \in Tabs \ {t} : seen'[u] = seen[u] /\ InFlight(u)' = InFlight(u)
      /\ InFlight(t) = head \cup InFlight(t)'
  BY <1>1, <1>2, <1>3, InFlightIs DEF TypeOK
<1>10. \A k \in Keys : seen'[t][k] = IF k \in kept THEN merged[k] ELSE Absent
  BY <1>2, <1>6 DEF TypeOK
<1>11. ASSUME NEW k \in Keys
       PROVE  ToldOK(k)' /\ NewOK(k)' /\ mark'[k] # "repeated"
  <2>1. ASSUME mark'[k] = "told"
        PROVE  stored'[k] <= TTL /\ \A u \in Tabs : mode'[u] # "closed" => TabKnows(u, k)'
    <3>1. mark[k] = "told" /\ (merged[k] <= TTL => k \in kept)
      BY <1>2, <1>6, <2>1, ExcusedFacts
    <3>2. stored[k] <= TTL /\ TabKnows(t, k)
      BY <1>1, <3>1 DEF ToldOK
    <3>3. stored[k] \in Ages /\ seen[t][k] \in Ages /\ merged[k] \in Ages
      BY <1>4, <1>5 DEF TypeOK
    <3>4. TabKnows(t, k)'
      <4>1. CASE k \in head
        <5>1. merged[k] = 0 /\ stored[k] = 0 /\ k \in kept /\ seen'[t][k] = 0
          BY <1>5, <1>9, <1>10, <3>1, <3>2, <4>1, BrowserAssumption DEF TabKnows
        <5> QED
          BY <1>1, <5>1, BrowserAssumption DEF TabKnows
      <4>2. CASE k \notin head /\ seen[t][k] <= TTL
        <5>1. seen'[t][k] = seen[t][k]
          BY <1>5, <1>10, <3>1, <4>2
        <5> QED
          BY <1>1, <1>9, <3>2, <4>2, <5>1 DEF TabKnows
      <4>3. CASE k \notin head /\ ~(seen[t][k] <= TTL)
        <5>1. k \in InFlight(t) /\ k \in InFlight(t)'
          BY <1>9, <3>2, <4>3 DEF TabKnows
        <5>2. stored[k] <= seen[t][k] /\ stored[k] <= Absent
          BY <3>2, <3>3, AgeFacts, BrowserAssumption DEF TabKnows
        <5>3. seen'[t][k] \in {seen[t][k], Absent}
          BY <1>5, <1>10, <4>3
        <5> QED
          BY <1>1, <3>2, <5>1, <5>2, <5>3 DEF TabKnows
      <4> QED
        BY <4>1, <4>2, <4>3
    <3>5. ASSUME NEW u \in Tabs \ {t}, mode'[u] # "closed" PROVE TabKnows(u, k)'
      BY <1>1, <1>9, <3>1, <3>5 DEF ToldOK, TabKnows
    <3> QED
      BY <1>1, <3>2, <3>4, <3>5
  <2>2. ASSUME mark'[k] = "new"
        PROVE  stored'[k] = Absent /\ \A u \in Tabs : seen'[u][k] = Absent /\ k \notin InFlight(u)'
    <3>1. mark[k] = "new"
      BY <1>2, <2>2, ExcusedFacts
    <3>2. stored[k] = Absent /\ \A u \in Tabs : seen[u][k] = Absent /\ k \notin InFlight(u)
      BY <3>1 DEF NewOK
    <3>3. seen'[t][k] = Absent
      BY <1>5, <1>9, <1>10, <3>2
    <3> QED
      BY <1>1, <1>9, <3>2, <3>3
  <2>3. mark'[k] # "repeated"
    BY <1>2, ExcusedFacts
  <2> QED
    BY <2>1, <2>2, <2>3 DEF ToldOK, NewOK
<1> QED
  BY <1>7, <1>8, <1>11

(* A day passes.  An entry that has no excuse was handled in every open    *)
(* tab, and there is one, so that it is fresh everywhere.                  *)
LEMMA TickKeeps ==
  ASSUME IInv, Tick
  PROVE  IInv'
<1> USE DEF IInv
<1> DEFINE lost == {k \in Keys : \/ \A t \in Tabs : mode[t] = "closed"
                                 \/ \E t \in Tabs : mode[t] = "open" /\ k \notin handled[t]}
<1>1. /\ \A t \in Tabs : mode[t] # "loaded" /\ queue[t] = <<>>
      /\ handled' = [t \in Tabs |-> {}]
      /\ seen' = [t \in Tabs |-> [k \in Keys |-> Older(seen[t][k])]]
      /\ stored' = [k \in Keys |-> Older(stored[k])]
      /\ cooling' = [t \in Tabs |-> FALSE]
      /\ mark' = Excused(lost)
      /\ UNCHANGED <<items, mode, enabled, queue, allowed, toggles>>
  BY DEF Tick
<1> HIDE DEF lost
<1>2. TypeOK'
  <2>1. \A t \in Tabs, k \in Keys : Older(seen[t][k]) \in Ages /\ Older(stored[k]) \in Ages
    BY AgeFacts DEF TypeOK
  <2>2. stored' \in [Keys -> Ages]
    <3>1. \A k \in Keys : Older(stored[k]) \in Ages
      BY AgeFacts DEF TypeOK
    <3> QED
      BY <1>1, <3>1
  <2>3. seen' \in [Tabs -> [Keys -> Ages]]
    BY <1>1, <2>1
  <2> QED
    BY <1>1, <2>2, <2>3, ExcusedFacts DEF TypeOK
<1>3. QuietOK'
  BY <1>1 DEF QuietOK
<1>4. \A t \in Tabs : InFlight(t) = {} /\ InFlight(t)' = {}
  BY <1>1, InFlightIs, FlightFacts
<1>5. ASSUME NEW k \in Keys
      PROVE  ToldOK(k)' /\ NewOK(k)' /\ mark'[k] # "repeated"
  <2>1. stored[k] \in Ages /\ \A t \in Tabs : seen[t][k] \in Ages
    BY DEF TypeOK
  <2>2. stored'[k] = Older(stored[k]) /\ \A t \in Tabs : seen'[t][k] = Older(seen[t][k])
    BY <1>1
  <2>3. ASSUME mark'[k] = "told"
        PROVE  stored'[k] <= TTL /\ \A t \in Tabs : mode'[t] # "closed" => TabKnows(t, k)'
    <3>1. mark[k] = "told" /\ k \notin lost
      BY <1>1, <2>3, ExcusedFacts
    <3>2. \A t \in Tabs : mode[t] # "closed" => mode[t] = "open" /\ k \in handled[t]
      BY <1>1, <3>1 DEF lost, TypeOK
    <3>3. PICK o \in Tabs : mode[o] # "closed"
      BY <3>1 DEF lost
    <3>4. \A t \in Tabs : mode[t] # "closed" =>
            seen[t][k] <= TouchInterval /\ stored[k] <= seen[t][k]
      BY <1>4, <3>1, <3>2 DEF ToldOK, TabKnows
    <3>5. stored[k] <= TouchInterval
      BY <2>1, <3>3, <3>4, AgeFacts, BrowserAssumption
    <3>6. ASSUME NEW t \in Tabs, mode'[t] # "closed" PROVE TabKnows(t, k)'
      <4>1. seen[t][k] <= TouchInterval /\ stored[k] <= seen[t][k]
        BY <1>1, <3>4, <3>6
      <4>2. Older(stored[k]) <= Older(seen[t][k]) /\ Older(seen[t][k]) <= TTL
        BY <2>1, <4>1, AgeFacts
      <4> QED
        BY <1>1, <1>4, <2>2, <4>2 DEF TabKnows
    <3> QED
      BY <2>1, <2>2, <3>5, <3>6, AgeFacts
  <2>4. ASSUME mark'[k] = "new"
        PROVE  stored'[k] = Absent /\ \A u \in Tabs : seen'[u][k] = Absent /\ k \notin InFlight(u)'
    <3>1. mark[k] = "new"
      BY <1>1, <2>4, ExcusedFacts
    <3> QED
      BY <1>4, <2>2, <3>1, AgeFacts DEF NewOK
  <2>5. mark'[k] # "repeated"
    BY <1>1, ExcusedFacts
  <2> QED
    BY <2>3, <2>4, <2>5 DEF ToldOK, NewOK
<1> QED
  BY <1>2, <1>3, <1>5

(* What Marked makes of a thread.                                          *)
LEMMA MarkedFacts ==
  ASSUME TypeOK, NEW t \in Tabs, NEW toNotify, NEW saved, NEW evicted
  PROVE  LET after == Marked(t, toNotify, saved, evicted)
         IN /\ after \in [Keys -> {"new", "told", "excused", "again", "repeated"}]
            /\ \A k \in Keys :
                 /\ after[k] = "new" => mark[k] = "new" /\ k \notin toNotify
                 /\ after[k] = "repeated" =>
                      \/ mark[k] = "repeated"
                      \/ mark[k] = "told" /\ k \in toNotify /\ k \notin InFlight(t)
                 /\ after[k] = "told" =>
                      \/ /\ mark[k] = "new" /\ k \in toNotify /\ k \notin evicted
                         /\ \A u \in Tabs : mode[u] # "loaded"
                      \/ /\ mark[k] = "told" /\ k \notin toNotify /\ k \notin evicted
                         /\ ~(stored[k] < saved[k])
<1> DEFINE after == Marked(t, toNotify, saved, evicted)
<1> DEFINE value(k) ==
     CASE k \in toNotify /\ mark[k] = "told" ->
            IF k \in InFlight(t) THEN "again" ELSE "repeated"
       [] k \in toNotify /\ mark[k] = "excused" -> "again"
       [] k \in toNotify /\ mark[k] = "new" ->
            IF k \in evicted \/ \E u \in Tabs : mode[u] = "loaded" THEN "excused" ELSE "told"
       [] k \notin toNotify /\ mark[k] = "told"
          /\ (k \in evicted \/ stored[k] < saved[k]) -> "excused"
       [] OTHER -> mark[k]
<1>1. after = [k \in Keys |-> value(k)]
  BY DEF Marked
<1>2. ASSUME NEW k \in Keys
      PROVE  /\ value(k) \in {"new", "told", "excused", "again", "repeated"}
             /\ value(k) = "new" => mark[k] = "new" /\ k \notin toNotify
             /\ value(k) = "repeated" =>
                  \/ mark[k] = "repeated"
                  \/ mark[k] = "told" /\ k \in toNotify /\ k \notin InFlight(t)
             /\ value(k) = "told" =>
                  \/ /\ mark[k] = "new" /\ k \in toNotify /\ k \notin evicted
                     /\ \A u \in Tabs : mode[u] # "loaded"
                  \/ /\ mark[k] = "told" /\ k \notin toNotify /\ k \notin evicted
                     /\ ~(stored[k] < saved[k])
  <2>1. mark[k] \in {"new", "told", "excused", "again", "repeated"}
    BY DEF TypeOK
  <2>2. CASE k \in toNotify /\ mark[k] = "told"
    BY <2>2
  <2>3. CASE k \in toNotify /\ mark[k] = "excused"
    BY <2>3
  <2>4. CASE k \in toNotify /\ mark[k] = "new"
    BY <2>4
  <2>5. CASE k \in toNotify /\ mark[k] \in {"again", "repeated"}
    BY <2>5
  <2>6. CASE k \notin toNotify
    BY <2>1, <2>6
  <2> QED
    BY <2>1, <2>2, <2>3, <2>4, <2>5, <2>6
<1> HIDE DEF value
<1> QED
  BY <1>1, <1>2

(* A snapshot is handled.  What is announced becomes fresh in this tab and *)
(* in storage, and is on its way to the others; what was announced before  *)
(* is not announced again, for the tab knows it.                           *)
LEMMA HandleKeeps ==
  ASSUME IInv, NEW t \in Tabs, Handle(t)
  PROVE  IInv'
<1> USE DEF IInv
<1>1. PICK toNotify \in Batches(t) :
        LET touched == Touched(t)
            changed == toNotify # {} \/ touched # seen[t]
            map == With(touched, toNotify)
        IN \E kept \in IF changed THEN Kept(map) ELSE {Keys} :
             /\ seen' = [seen EXCEPT ![t] = Only(map, kept)]
             /\ stored' = IF changed THEN Only(map, kept) ELSE stored
             /\ cooling' = [cooling EXCEPT ![t] = @ \/ toNotify # {}]
             /\ queue' = [u \in Tabs |->
                  IF u # t /\ mode[u] = "open" /\ toNotify # {}
                  THEN Append(queue[u], toNotify) ELSE queue[u]]
             /\ mark' = Marked(t, toNotify, stored', Fresh(map) \ kept)
  BY DEF Handle, Remembered
<1> DEFINE touched == Touched(t)
<1> DEFINE changed == toNotify # {} \/ touched # seen[t]
<1> DEFINE map == With(touched, toNotify)
<1>2. PICK kept \in IF changed THEN Kept(map) ELSE {Keys} :
        /\ seen' = [seen EXCEPT ![t] = Only(map, kept)]
        /\ stored' = IF changed THEN Only(map, kept) ELSE stored
        /\ cooling' = [cooling EXCEPT ![t] = @ \/ toNotify # {}]
        /\ queue' = [u \in Tabs |->
             IF u # t /\ mode[u] = "open" /\ toNotify # {}
             THEN Append(queue[u], toNotify) ELSE queue[u]]
        /\ mark' = Marked(t, toNotify, stored', Fresh(map) \ kept)
  BY <1>1
<1>3. /\ mode[t] = "open"
      /\ handled' = [handled EXCEPT ![t] = @ \cup {k \in Listed : mark'[k] = "told"}]
      /\ UNCHANGED <<items, mode, enabled, allowed, toggles>>
  BY DEF Handle, Active
<1>4. toNotify \subseteq NewItems(t) /\ toNotify \in SUBSET Keys
  BY DEF Batches, NewItems
<1>5. /\ touched \in [Keys -> Ages]
      /\ \A k \in Keys : touched[k] \in {0, seen[t][k]}
      /\ \A k \in Listed : seen[t][k] = Absent \/ touched[k] <= TouchInterval
      /\ \A k \in Keys : seen[t][k] = Absent => touched[k] = Absent
  <2>1. seen[t] \in [Keys -> Ages]
    BY DEF TypeOK
  <2>2. \A k \in Keys : touched[k] = IF k \in Listed \cap Entries(seen[t]) /\ seen[t][k] > TouchInterval
                                     THEN 0 ELSE seen[t][k]
    BY DEF Touched
  <2>3. touched \in [Keys -> Ages]
    BY <2>1, AgeFacts DEF Touched
  <2> HIDE DEF touched
  <2>4. \A k \in Keys : touched[k] \in {0, seen[t][k]}
    BY <2>2
  <2>5. 0 <= TouchInterval /\ 0 # Absent /\ TouchInterval \in Nat
    BY AgeFacts, BrowserAssumption
  <2>6. ASSUME NEW k \in Listed, seen[t][k] # Absent
        PROVE  touched[k] <= TouchInterval
    <3>1. k \in Keys /\ k \in Listed \cap Entries(seen[t])
      BY <2>6 DEF Listed, Entries
    <3>2. CASE seen[t][k] > TouchInterval
      BY <2>2, <2>5, <3>1, <3>2
    <3>3. CASE ~(seen[t][k] > TouchInterval)
      <4>1. seen[t][k] \in Nat
        BY <2>1, <3>1, AgeFacts, BrowserAssumption
      <4>2. touched[k] = seen[t][k]
        BY <2>2, <3>1, <3>3
      <4> QED
        BY <2>5, <3>3, <4>1, <4>2
    <3> QED
      BY <3>2, <3>3
  <2>7. ASSUME NEW k \in Keys, seen[t][k] = Absent
        PROVE  touched[k] = Absent
    BY <2>2, <2>7 DEF Entries
  <2> QED
    BY <2>3, <2>4, <2>6, <2>7
<1> HIDE DEF touched
<1>6. map \in [Keys -> Ages] /\ \A k \in Keys : map[k] = IF k \in toNotify THEN 0 ELSE touched[k]
  BY <1>4, <1>5, WithFacts
<1> HIDE DEF map
<1>7. kept \in SUBSET Keys
  BY <1>2, KeptFacts
<1>8. /\ Only(map, kept) \in [Keys -> Ages]
      /\ \A k \in Keys : Only(map, kept)[k] = IF k \in kept THEN map[k] ELSE Absent
      /\ \A k \in Keys : k \in Fresh(map) <=> map[k] <= TTL
  BY <1>6, <1>7, OnlyFacts, FreshFacts
<1>9. ~changed => toNotify = {} /\ touched = seen[t] /\ kept = Keys /\ stored' = stored
  BY <1>2
<1>10. changed => stored' = Only(map, kept) /\ kept \subseteq Fresh(map)
  BY <1>2, KeptFacts
<1>11. \A u \in Tabs : queue[u] \in Seq(SUBSET Keys) /\ queue'[u] \in Seq(SUBSET Keys)
  BY <1>2, <1>4, FlightFacts DEF TypeOK
<1>12. /\ InFlight(t)' = InFlight(t)
       /\ \A u \in Tabs \ {t} :
            InFlight(u)' = IF mode[u] = "open" THEN InFlight(u) \cup toNotify ELSE InFlight(u)
  <2>1. \A u \in Tabs :
          queue'[u] = IF u # t /\ mode[u] = "open" /\ toNotify # {}
                      THEN Append(queue[u], toNotify) ELSE queue[u]
    BY <1>2
  <2> QED
    BY <1>4, <1>11, <2>1, InFlightIs, FlightFacts
<1> DEFINE evicted == Fresh(map) \ kept
<1>13. /\ mark' \in [Keys -> {"new", "told", "excused", "again", "repeated"}]
       /\ \A k \in Keys :
            /\ mark'[k] = "new" => mark[k] = "new" /\ k \notin toNotify
            /\ mark'[k] = "repeated" =>
                 \/ mark[k] = "repeated"
                 \/ mark[k] = "told" /\ k \in toNotify /\ k \notin InFlight(t)
            /\ mark'[k] = "told" =>
                 \/ /\ mark[k] = "new" /\ k \in toNotify /\ k \notin evicted
                    /\ \A u \in Tabs : mode[u] # "loaded"
                 \/ /\ mark[k] = "told" /\ k \notin toNotify /\ k \notin evicted
                    /\ ~(stored[k] < stored'[k])
  BY <1>2, MarkedFacts
<1>14. TypeOK'
  <2>1. seen' \in [Tabs -> [Keys -> Ages]] /\ stored' \in [Keys -> Ages]
    BY <1>2, <1>8 DEF TypeOK
  <2>2. queue' \in [Tabs -> Seq(SUBSET Keys)]
    BY <1>2, <1>11
  <2>3. handled' \in [Tabs -> SUBSET Keys]
    BY <1>3 DEF TypeOK, Listed
  <2>4. cooling' \in [Tabs -> BOOLEAN]
    BY <1>2 DEF TypeOK
  <2> QED
    BY <1>3, <1>13, <2>1, <2>2, <2>3, <2>4 DEF TypeOK
<1>15. QuietOK'
  BY <1>2, <1>3 DEF QuietOK, TypeOK
<1>16. /\ \A k \in Keys : seen'[t][k] = IF k \in kept THEN map[k] ELSE Absent
       /\ \A u \in Tabs \ {t} : seen'[u] = seen[u]
  BY <1>2, <1>8 DEF TypeOK
<1>17. /\ handled'[t] = handled[t] \cup {k \in Listed : mark'[k] = "told"}
       /\ \A u \in Tabs \ {t} : handled'[u] = handled[u]
  BY <1>3 DEF TypeOK
<1> HIDE DEF changed
<1>18. ASSUME NEW k \in Keys
       PROVE  ToldOK(k)' /\ NewOK(k)' /\ mark'[k] # "repeated"
  <2>1. /\ stored[k] \in Ages /\ stored'[k] \in Ages /\ map[k] \in Ages
        /\ \A u \in Tabs : seen[u][k] \in Ages
    BY <1>6, <1>14 DEF TypeOK
  <2>2. CASE mark'[k] = "told" /\ mark[k] = "new" /\ k \in toNotify /\ k \notin evicted
             /\ (\A u \in Tabs : mode[u] # "loaded")
    <3>1. map[k] = 0 /\ k \in kept
      BY <1>6, <1>8, <2>2, BrowserAssumption
    <3>2. changed
      BY <2>2 DEF changed
    <3>3. stored'[k] = 0 /\ seen'[t][k] = 0
      BY <1>8, <1>10, <1>16, <3>1, <3>2
    <3>4. TabKnows(t, k)'
      BY <3>3, BrowserAssumption DEF TabKnows
    <3>5. ASSUME NEW u \in Tabs \ {t}, mode'[u] # "closed" PROVE TabKnows(u, k)'
      <4>1. mode[u] = "open"
        BY <1>3, <2>2, <3>5 DEF TypeOK
      <4>2. k \in InFlight(u)'
        BY <1>12, <2>2, <4>1
      <4>3. 0 <= seen'[u][k]
        BY <1>16, <2>1, AgeFacts, BrowserAssumption
      <4> QED
        BY <3>3, <4>2, <4>3 DEF TabKnows
    <3>6. ToldOK(k)'
      BY <3>3, <3>4, <3>5, BrowserAssumption DEF ToldOK
    <3> QED
      BY <2>2, <3>6 DEF NewOK
  <2>3. CASE mark'[k] = "told" /\ mark[k] = "told" /\ k \notin toNotify /\ k \notin evicted
             /\ ~(stored[k] < stored'[k])
    <3>1. stored[k] <= TTL /\ TabKnows(t, k)
      BY <1>3, <2>3 DEF ToldOK
    <3>2. stored'[k] <= stored[k]
      BY <2>1, <2>3, AgeFacts, BrowserAssumption
    <3>3. map[k] = touched[k] /\ map[k] \in {0, seen[t][k]}
      BY <1>5, <1>6, <2>3
    <3>4. k \in Listed => seen[t][k] = Absent \/ map[k] <= TouchInterval
      BY <1>5, <3>3
    <3>5. k \in handled'[t] => k \in handled[t] \/ k \in Listed
      BY <1>17
    <3>6. TabKnows(t, k)'
      <4>1. CASE ~changed
        <5>1. stored' = stored /\ seen'[t][k] = seen[t][k] /\ map[k] = seen[t][k]
          BY <1>9, <1>16, <3>3, <4>1
        <5>2. k \in Listed => seen[t][k] <= TouchInterval \/ k \in InFlight(t)
          BY <2>1, <3>1, <3>4, <5>1, AgeFacts, BrowserAssumption DEF TabKnows
        <5> QED
          BY <1>12, <3>1, <3>5, <5>1, <5>2 DEF TabKnows
      <4>2. CASE changed /\ map[k] <= TTL
        <5>1. seen'[t][k] = map[k] /\ stored'[k] = map[k]
          BY <1>8, <1>10, <1>16, <2>3, <4>2
        <5>2. k \in InFlight(t) => stored'[k] = 0
          BY <2>1, <3>1, <3>2, AgeFacts, BrowserAssumption DEF TabKnows
        <5>3. k \in Listed => map[k] <= TouchInterval
          BY <3>3, <3>4, <4>2, AgeFacts, BrowserAssumption
        <5>4. k \in handled[t] => map[k] <= TouchInterval \/ k \in InFlight(t)
          BY <3>1, <3>3, BrowserAssumption DEF TabKnows
        <5>5. map[k] <= map[k]
          BY <2>1, AgeFacts, BrowserAssumption
        <5> QED
          BY <1>12, <3>5, <4>2, <5>1, <5>2, <5>3, <5>4, <5>5 DEF TabKnows
      <4>3. CASE changed /\ ~(map[k] <= TTL)
        <5>1. stored'[k] = Absent
          BY <1>8, <1>10, <4>3
        <5> QED
          BY <3>1, <3>2, <5>1, <2>1, AgeFacts, BrowserAssumption
      <4> QED
        BY <4>1, <4>2, <4>3
    <3>7. ASSUME NEW u \in Tabs \ {t}, mode'[u] # "closed" PROVE TabKnows(u, k)'
      <4>1. TabKnows(u, k) /\ seen'[u] = seen[u] /\ handled'[u] = handled[u]
        BY <1>3, <1>16, <1>17, <2>3, <3>7 DEF ToldOK
      <4>2. k \in InFlight(u)' <=> k \in InFlight(u)
        BY <1>12, <2>3
      <4>3. stored'[k] <= seen[u][k]
        <5>1. stored[k] <= seen[u][k] /\ stored'[k] <= stored[k]
          BY <3>2, <4>1 DEF TabKnows
        <5>2. stored[k] \in Nat /\ stored'[k] \in Nat /\ seen[u][k] \in Nat
          BY <2>1, AgeFacts, BrowserAssumption
        <5> QED
          BY <5>1, <5>2
      <4>4. k \in InFlight(u) => stored'[k] = 0
        BY <2>1, <3>2, <4>1, AgeFacts, BrowserAssumption DEF TabKnows
      <4> QED
        BY <4>1, <4>2, <4>3, <4>4 DEF TabKnows
    <3>8. stored'[k] <= TTL
      BY <2>1, <3>1, <3>2, AgeFacts, BrowserAssumption
    <3>9. ToldOK(k)'
      BY <3>6, <3>7, <3>8 DEF ToldOK
    <3> QED
      BY <2>3, <3>9 DEF NewOK
  <2>4. CASE mark'[k] = "new"
    <3>1. mark[k] = "new" /\ k \notin toNotify
      BY <1>13, <2>4
    <3>2. stored[k] = Absent /\ \A u \in Tabs : seen[u][k] = Absent /\ k \notin InFlight(u)
      BY <3>1 DEF NewOK
    <3>3. map[k] = Absent
      BY <1>5, <1>6, <3>1, <3>2
    <3>4. seen'[t][k] = Absent /\ stored'[k] = Absent
      BY <1>8, <1>9, <1>10, <1>16, <3>2, <3>3
    <3>5. NewOK(k)'
      BY <1>12, <1>16, <3>1, <3>2, <3>4 DEF NewOK
    <3> QED
      BY <2>4, <3>5 DEF ToldOK
  <2>5. mark'[k] # "repeated"
    <3>1. k \in toNotify => seen[t][k] = Absent
      BY <1>4 DEF NewItems
    <3>2. mark[k] = "told" /\ k \notin InFlight(t) => seen[t][k] <= TTL
      BY <1>3 DEF ToldOK, TabKnows
    <3>3. ~(Absent <= TTL)
      BY AgeFacts, BrowserAssumption
    <3> QED
      BY <1>13, <3>1, <3>2, <3>3
  <2>6. CASE mark'[k] \notin {"told", "new"}
    BY <2>5, <2>6 DEF ToldOK, NewOK
  <2> QED
    BY <1>13, <2>2, <2>3, <2>4, <2>5, <2>6
<1> QED
  BY <1>14, <1>15, <1>18

-----------------------------------------------------------------------------
LEMMA StepKeeps ==
  ASSUME IInv, [Next]_vars
  PROVE  IInv'
<1>1. ASSUME NEW t \in Tabs, Bind(t) \/ Toggle(t) \/ Cool(t)
      PROVE  IInv'
  <2>1. TypeOK'
    <3>1. CASE Bind(t)
      BY <3>1 DEF IInv, TypeOK, Bind, storage
    <3>2. CASE Toggle(t)
      <4>1. enabled' \in [Tabs -> BOOLEAN] /\ allowed' \in BOOLEAN
        BY <3>2, Zenon DEF IInv, TypeOK, Toggle
      <4>2. toggles' \in Nat
        BY <3>2 DEF IInv, TypeOK, Toggle
      <4> QED
        BY <3>2, <4>1, <4>2 DEF IInv, TypeOK, Toggle
    <3>3. CASE Cool(t)
      BY <3>3 DEF IInv, TypeOK, Cool, storage
    <3> QED
      BY <1>1, <3>1, <3>2, <3>3
  <2>2. UNCHANGED <<seen, queue, stored, handled, mark>>
    BY <1>1 DEF Bind, Toggle, Cool, storage
  <2>3. \A u \in Tabs : mode'[u] = mode[u] \/ (mode[u] = "loaded" /\ mode'[u] = "open")
    BY <1>1 DEF Bind, Toggle, Cool, IInv, TypeOK
  <2> QED
    BY <2>1, <2>2, <2>3, OthersKeep
<1>2. ASSUME NEW k \in Keys, NEW to \in {"absent", "read", "unread"}, Change(k, to)
      PROVE  IInv'
  <2>1. TypeOK'
    BY <1>2 DEF IInv, TypeOK, Change, storage
  <2> QED
    BY <1>2, <2>1, OthersKeep DEF Change, storage
<1>3. CASE UNCHANGED vars
  <2>1. TypeOK'
    BY <1>3 DEF IInv, TypeOK, vars, storage
  <2> QED
    BY <1>3, <2>1, OthersKeep DEF vars, storage
<1> QED
  BY <1>1, <1>2, <1>3, LoadKeeps, CloseKeeps, DeliverKeeps, HandleKeeps, TickKeeps DEF Next

LEMMA InitOK == Init => IInv
<1> SUFFICES ASSUME Init PROVE IInv
  OBVIOUS
<1>1. TypeOK
  BY AgeFacts DEF Init, TypeOK, Empty
<1>2. \A t \in Tabs : InFlight(t) = {}
  BY InFlightIs, FlightFacts DEF Init
<1> QED
  BY <1>1, <1>2 DEF Init, IInv, QuietOK, ToldOK, NewOK, Empty

(* What the storage, the tabs and the messages know of each announced      *)
(* thread agrees.                                                          *)
THEOREM Invariance == Spec => []IInv
<1>1. IInv /\ [Next]_vars => IInv'
  BY StepKeeps
<1> QED
  BY InitOK, <1>1, PTL DEF Spec

-----------------------------------------------------------------------------
(* "Dedupe state is ... synced across tabs": no thread is announced again  *)
(* without a cause, for any number of tabs and threads and any capacity,   *)
(* provided entries outlive the touch interval.  The causes are those of   *)
(* NoRepeatWithoutCause, a day on which an open tab missed it among them.  *)
THEOREM NoCauselessRepeat == Spec => []NoRepeatWithoutCause
<1>1. IInv => NoRepeatWithoutCause
  BY DEF IInv, NoRepeatWithoutCause
<1> QED
  BY Invariance, <1>1, PTL

(* The cap and the cooldown swallow nothing: what counts as seen anywhere  *)
(* was announced by some tab.                                              *)
THEOREM SeenWasTold == Spec => []SeenMeansTold
<1>1. IInv => SeenMeansTold
  BY DEF IInv, NewOK, SeenMeansTold
<1> QED
  BY Invariance, <1>1, PTL
=============================================================================
