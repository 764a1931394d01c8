--------------------------- MODULE Poller_proofs ----------------------------
(***************************************************************************)
(* The poller.  First the GitHub client and the rows it leads to: what was *)
(* read where, and what is announced twice.  Then the loop around it: what *)
(* the poller_status row means.                                            *)
(***************************************************************************)
EXTENDS Ingestion, WatchLoop, Ranking_proofs

(* What a page lists of a thread.                                          *)
Found == [key : Keys, unread : BOOLEAN, ver : Nat]

(* What _process_notifications hands to save_records.                      *)
Made == [key : Keys, row : Row]

(* Types. A row, a record and a notification carry ver, the moment of the  *)
(* activity they tell of.                                                  *)
TypeInv ==
  /\ inbox \in [Keys -> Thread]
  /\ db \in [Keys -> Row \cup {NoRow}]
  /\ pc \in {"idle", "fetch", "process"}
  /\ page \in Nat \ {0}
  /\ fetched \in Seq(Found)
  /\ attempt \in Nat
  /\ records \in Seq(Made)
  /\ faults \in Nat
  /\ steady \subseteq Keys
  /\ pushed \in BOOLEAN
  /\ deleted \subseteq Keys
  /\ told \subseteq Keys \X Nat

(* GitHub lists finitely many threads, no two with the same latest         *)
(* activity, and only listed ones are unread.                              *)
InboxInv ==
  /\ IsFiniteSet({k \in Keys : inbox[k].listed})
  /\ \A k \in Keys : inbox[k].unread => inbox[k].listed
  /\ \A j, k \in Keys : inbox[j].ver = inbox[k].ver /\ inbox[k].ver > 0 => j = k
  /\ \A k \in Keys : inbox[k].listed => inbox[k].ver > 0

(* What the phases of a cycle leave behind.                                *)
PhaseInv ==
  /\ pc = "idle" => fetched = <<>>
  /\ pc # "process" => records = <<>> /\ attempt = 0
  /\ attempt > 0 => fetched # <<>>
  /\ pc # "fetch" => page = 1 /\ steady = {}
  /\ pc = "fetch" /\ page = 1 => fetched = <<>>

(* The notifications of a cycle in the order they were listed: those       *)
(* already processed, then those that wait. Neither half alone is kept by  *)
(* a step that moves one from the second to the first.                     *)
Line ==
  [i \in 1..(Len(records) + Len(fetched)) |->
     IF i <= Len(records)
     THEN [key |-> records[i].key, unread |-> records[i].row.unread, ver |-> records[i].row.ver]
     ELSE fetched[i - Len(records)]]

(* a tells of a later moment than b, or of the same one and is not unread  *)
(* again.                                                                  *)
NotOlder(a, b) == a.ver > b.ver \/ (a.ver = b.ver /\ (a.unread => b.unread))

(* Of one key, what comes later in the line is not older; nothing in it is *)
(* newer than the inbox, or older than the row the last cycle left; no row *)
(* is newer than the inbox.                                                *)
AgeInv ==
  /\ \A i, j \in DOMAIN Line : i < j /\ Line[i].key = Line[j].key => NotOlder(Line[j], Line[i])
  /\ \A i \in DOMAIN Line : NotOlder(inbox[Line[i].key], Line[i])
  /\ \A i \in DOMAIN Line : db[Line[i].key] # NoRow => NotOlder(Line[i], db[Line[i].key])
  /\ \A k \in Keys : db[k] # NoRow => NotOlder(inbox[k], db[k])

(* What was announced is stored, in a row at least as new.                 *)
ToldInv ==
  \A a \in told : db[a[1]] # NoRow /\ db[a[1]].ver >= a[2]

(* Unless an activity moved the list between two pages, no key is listed   *)
(* twice: what was fetched still stands within the pages asked for.        *)
DistinctInv ==
  /\ ~pushed => \A i, j \in DOMAIN Line : Line[i].key = Line[j].key => i = j
  /\ pc = "fetch" /\ ~pushed => \A i \in DOMAIN fetched : Position(fetched[i].key) <= (page - 1) * PerPage

(* A row, or a record not saved yet, says dismissed only of a thread whose *)
(* DELETE GitHub acknowledged.                                             *)
DeletedInv ==
  /\ DismissedWasDeleted
  /\ \A i \in DOMAIN records : records[i].row.dismissed \/ "dismiss" \in records[i].row.taken
                                 => records[i].key \in deleted

(* A thread that kept its place is listed still, and was fetched or stands *)
(* behind the pages asked for so far.                                      *)
SteadyInv ==
  pc = "fetch" => \A k \in steady :
     k \in Listed /\ (k \in Collected \/ Position(k) > (page - 1) * PerPage)

-----------------------------------------------------------------------------
(* The list.                                                               *)

LEMMA ListedOrder ==
  TypeInv /\ InboxInv => /\ IsFiniteSet(Listed)
                         /\ Cardinality(Listed) \in Nat
                         /\ Orders(LatestFirst, Listed)
<1> SUFFICES ASSUME TypeInv, InboxInv
             PROVE  IsFiniteSet(Listed) /\ Cardinality(Listed) \in Nat /\ Orders(LatestFirst, Listed)
  OBVIOUS
<1>1. Listed \in SUBSET {k \in Keys : inbox[k].listed}
  BY DEF Listed
<1>2. IsFiniteSet(Listed) /\ Cardinality(Listed) \in Nat
  BY <1>1, FS_Subset, FS_CardinalityType DEF InboxInv
<1>3. \A k \in Listed : k \in Keys /\ inbox[k].ver \in Nat /\ inbox[k].ver > 0
  BY DEF Listed, TypeInv, InboxInv, Thread
<1>4. \A j, k \in Listed : <<j, k>> \in LatestFirst <=> inbox[j].ver > inbox[k].ver
  BY DEF LatestFirst
<1>5. \A j, k \in Listed : j # k => inbox[j].ver > inbox[k].ver \/ inbox[k].ver > inbox[j].ver
  BY <1>3 DEF InboxInv
<1>6. Orders(LatestFirst, Listed)
  <2>1. \A k \in Listed : <<k, k>> \notin LatestFirst
    BY <1>3, <1>4
  <2>2. \A j, k \in Listed : j # k => <<j, k>> \in LatestFirst \/ <<k, j>> \in LatestFirst
    BY <1>4, <1>5
  <2>3. \A i, j, k \in Listed :
          <<i, j>> \in LatestFirst /\ <<j, k>> \in LatestFirst => <<i, k>> \in LatestFirst
    BY <1>3, <1>4
  <2> QED
    BY <2>1, <2>2, <2>3 DEF Orders
<1> QED
  BY <1>2, <1>6

(* The listing is a sequence of the listed threads, each at its Position.  *)
LEMMA ListingOrder ==
  TypeInv /\ InboxInv =>
    /\ Listing \in Seq(Listed)
    /\ Len(Listing) = Cardinality(Listed)
    /\ \A i \in 1..Len(Listing) : Position(Listing[i]) = i
    /\ \A k \in Listed : Position(k) \in 1..Len(Listing) /\ Listing[Position(k)] = k
    /\ \A k \in Keys : Position(k) \in Nat
<1> SUFFICES ASSUME TypeInv, InboxInv
             PROVE  /\ Listing \in Seq(Listed)
                    /\ Len(Listing) = Cardinality(Listed)
                    /\ \A i \in 1..Len(Listing) : Position(Listing[i]) = i
                    /\ \A k \in Listed : Position(k) \in 1..Len(Listing) /\ Listing[Position(k)] = k
                    /\ \A k \in Keys : Position(k) \in Nat
  OBVIOUS
<1> DEFINE n == Cardinality(Listed)
<1>1. IsFiniteSet(Listed) /\ n \in Nat /\ Orders(LatestFirst, Listed)
  BY ListedOrder
<1>2. /\ Listing \in [1..n -> Listed]
      /\ \A i \in 1..n : Cardinality(Preceding(Listed, LatestFirst, Listing[i])) = i - 1
      /\ \A k \in Listed : Listing[Cardinality(Preceding(Listed, LatestFirst, k)) + 1] = k
  BY <1>1, RankedInOrder DEF Listing
<1>3. \A k \in Listed : Cardinality(Preceding(Listed, LatestFirst, k)) \in 0..(n - 1)
  BY <1>1, PrecedingBound
<1>4. Listing \in Seq(Listed) /\ Len(Listing) = n
  BY <1>1, <1>2
<1>5. \A k \in Listed : Position(k) \in 1..n
  BY <1>1, <1>3 DEF Position
<1>6. \A k \in Listed : Listing[Position(k)] = k
  BY <1>2 DEF Position
<1>7. \A i \in 1..n : Position(Listing[i]) = i
  BY <1>1, <1>2 DEF Position
<1>8. \A k \in Keys : Position(k) \in Nat
  BY <1>1, <1>5 DEF Position
<1> QED
  BY <1>1, <1>4, <1>5, <1>6, <1>7, <1>8

(* Where the page asked for begins and ends.                               *)
LEMMA PageBounds ==
  TypeInv => /\ (page - 1) * PerPage \in Nat /\ page * PerPage \in Nat
             /\ page * PerPage = (page - 1) * PerPage + PerPage
             /\ PerPage \in Nat \ {0}
<1>1. \A p, q \in Nat \ {0} : /\ (p - 1) * q \in Nat /\ p * q \in Nat
                             /\ p * q = (p - 1) * q + q
  OBVIOUS
<1> QED
  BY <1>1, IngestionAssumption DEF TypeInv

(* A page holds the threads of its positions as GitHub has them, and no    *)
(* other thread stands there.                                              *)
LEMMA PageOfListing ==
  TypeInv /\ InboxInv =>
    /\ Raw \in Seq(Found)
    /\ \A i \in 1..Len(Raw) : /\ Raw[i].key \in Listed
                              /\ Raw[i] = Item(Raw[i].key)
                              /\ Position(Raw[i].key) = (page - 1) * PerPage + i
                              /\ Position(Raw[i].key) <= page * PerPage
    /\ \A k \in Listed : Position(k) > (page - 1) * PerPage /\ Position(k) <= page * PerPage
                           => \E i \in 1..Len(Raw) : Raw[i].key = k
    /\ Raw = <<>> => \A k \in Listed : Position(k) <= (page - 1) * PerPage
<1> SUFFICES ASSUME TypeInv, InboxInv
    PROVE
    /\ Raw \in Seq(Found)
    /\ \A i \in 1..Len(Raw) : /\ Raw[i].key \in Listed
                              /\ Raw[i] = Item(Raw[i].key)
                              /\ Position(Raw[i].key) = (page - 1) * PerPage + i
                              /\ Position(Raw[i].key) <= page * PerPage
    /\ \A k \in Listed : Position(k) > (page - 1) * PerPage /\ Position(k) <= page * PerPage
                           => \E i \in 1..Len(Raw) : Raw[i].key = k
    /\ Raw = <<>> => \A k \in Listed : Position(k) <= (page - 1) * PerPage
  OBVIOUS
<1> DEFINE first == (page - 1) * PerPage
           upto  == page * PerPage
           size  == Len(Listing)
           last  == IF upto < size THEN upto ELSE size
<1>1. /\ Listing \in Seq(Listed) /\ size \in Nat
      /\ \A i \in 1..size : Position(Listing[i]) = i /\ Listing[i] \in Listed
      /\ \A k \in Listed : Position(k) \in 1..size /\ Listing[Position(k)] = k
  BY ListingOrder
<1>2. first \in Nat /\ upto \in Nat /\ upto = first + PerPage /\ PerPage \in Nat \ {0}
  BY PageBounds
<1>3. Raw = [i \in 1..(last - first) |-> Item(Listing[first + i])]
  BY DEF Raw
<1> HIDE DEF first, upto, size
<1>4. \A k \in Listed : Item(k) \in Found /\ Item(k).key = k
  BY DEF Item, Found, Listed, TypeInv, Thread
<1>5. \A i \in 1..(last - first) : first + i \in 1..size /\ first + i <= upto
  BY <1>1, <1>2
<1>6. \A i \in 1..(last - first) : Raw[i] = Item(Listing[first + i]) /\ Raw[i] \in Found
  BY <1>1, <1>3, <1>4, <1>5
<1>7. Raw \in Seq(Found) /\ DOMAIN Raw = 1..Len(Raw) /\ 1..Len(Raw) = 1..(last - first)
  <2>0. last \in Nat /\ last - first \in Int
    BY <1>1, <1>2
  <2>1. CASE last - first \in Nat
    <3> DEFINE m == last - first
    <3>1. m \in Nat
      BY <2>1
    <3>2. Raw = [i \in 1..m |-> Item(Listing[first + i])] /\ \A i \in 1..m : Raw[i] \in Found
      BY <1>3, <1>6
    <3> HIDE DEF m
    <3>3. Raw \in Seq(Found) /\ DOMAIN Raw = 1..Len(Raw) /\ 1..Len(Raw) = 1..m
      BY <3>1, <3>2
    <3> QED
      BY <3>3 DEF m
  <2>2. CASE last - first \notin Nat
    <3>1. Raw = <<>>
      BY <2>2, <1>1, <1>2, <1>3
    <3> QED
      BY <3>1, <2>2, <1>1, <1>2
  <2> QED
    BY <2>1, <2>2
<1>8. ASSUME NEW i \in 1..Len(Raw)
      PROVE  /\ Raw[i].key \in Listed
             /\ Raw[i] = Item(Raw[i].key)
             /\ Position(Raw[i].key) = first + i
             /\ Position(Raw[i].key) <= upto
  <2>1. i \in 1..(last - first)
    BY <1>7, <1>8
  <2>2. first + i \in 1..size /\ first + i <= upto /\ Raw[i] = Item(Listing[first + i])
    BY <2>1, <1>5, <1>6
  <2>3. Raw[i].key = Listing[first + i]
    BY <2>2, <1>1, <1>4
  <2> QED
    BY <2>2, <2>3, <1>1
<1>9. ASSUME NEW k \in Listed, Position(k) > first, Position(k) <= upto
      PROVE  \E i \in 1..Len(Raw) : Raw[i].key = k
  <2>1. Position(k) - first \in 1..(last - first)
    BY <1>1, <1>2, <1>9
  <2>2. Raw[Position(k) - first] = Item(Listing[first + (Position(k) - first)])
    BY <2>1, <1>6
  <2>3. first + (Position(k) - first) = Position(k)
    BY <1>1, <1>2
  <2>4. Raw[Position(k) - first].key = k
    BY <2>2, <2>3, <1>1, <1>4
  <2> QED
    BY <2>1, <2>4, <1>7
<1>10. Raw = <<>> => \A k \in Listed : Position(k) <= first
  <2> SUFFICES ASSUME Raw = <<>>, NEW k \in Listed, Position(k) > first PROVE FALSE
    BY <1>1, <1>2
  <2>1. first + 1 \in 1..size
    BY <1>1, <1>2
  <2>2. \E i \in 1..Len(Raw) : Raw[i].key = Listing[first + 1]
    BY <2>1, <1>1, <1>2, <1>9
  <2> QED
    BY <2>2
<1> QED
  BY <1>7, <1>8, <1>9, <1>10 DEF first, upto

-----------------------------------------------------------------------------
(* The table after save_records.                                           *)

Saves(n, saved) ==
  /\ saved \in [Keys -> Row \cup {NoRow}]
  /\ \A k \in Keys :
       \/ saved[k] = db[k] /\ \A i \in 1..n : records[i].key # k
       \/ \E i \in 1..n :
            /\ records[i].key = k
            /\ \A j \in 1..n : records[j].key = k => j <= i
            /\ saved[k] # NoRow
            /\ saved[k].ver = records[i].row.ver
            /\ saved[k].unread = records[i].row.unread
            /\ saved[k].taken = records[i].row.taken
            /\ saved[k].dismissed =>
                 \/ db[k] # NoRow /\ db[k].dismissed
                 \/ \E j \in 1..n : records[j].key = k /\ records[j].row.dismissed

(* Saving one more record keeps Saves.                                     *)
LEMMA SaveOne ==
  ASSUME TypeInv, NEW n \in 1..Len(records), NEW saved, Saves(n - 1, saved)
  PROVE  Saves(n, StoreRecord(saved, records[n]))
<1> DEFINE r == records[n]
           next == StoreRecord(saved, r)
<1>1. r.key \in Keys /\ r.row \in Row /\ r.row # NoRow /\ n \in Nat /\ n > 0
  <2>1. r \in Made
    BY DEF TypeInv
  <2> QED
    BY <2>1, ConstantsAssumption DEF Made, TypeInv
<1>2. saved \in [Keys -> Row \cup {NoRow}]
  BY DEF Saves
<1>3. next = [saved EXCEPT ![r.key] = Upsert(saved[r.key], r.row)]
  BY DEF StoreRecord
<1>4. /\ Upsert(saved[r.key], r.row) \in Row
      /\ Upsert(saved[r.key], r.row) # NoRow
      /\ Upsert(saved[r.key], r.row).ver = r.row.ver
      /\ Upsert(saved[r.key], r.row).unread = r.row.unread
      /\ Upsert(saved[r.key], r.row).taken = r.row.taken
      /\ Upsert(saved[r.key], r.row).dismissed =
           IF saved[r.key] = NoRow THEN r.row.dismissed ELSE saved[r.key].dismissed
  BY <1>1, <1>2, ConstantsAssumption DEF Upsert, Row
<1> HIDE DEF r, next
<1>5. next \in [Keys -> Row \cup {NoRow}]
  BY <1>1, <1>2, <1>3, <1>4
<1>6. ASSUME NEW k \in Keys, k # r.key
      PROVE  \/ next[k] = db[k] /\ \A i \in 1..n : records[i].key # k
             \/ \E i \in 1..n :
                  /\ records[i].key = k
                  /\ \A j \in 1..n : records[j].key = k => j <= i
                  /\ next[k] # NoRow
                  /\ next[k].ver = records[i].row.ver
                  /\ next[k].unread = records[i].row.unread
                  /\ next[k].taken = records[i].row.taken
                  /\ next[k].dismissed =>
                       \/ db[k] # NoRow /\ db[k].dismissed
                       \/ \E j \in 1..n : records[j].key = k /\ records[j].row.dismissed
  <2>1. next[k] = saved[k] /\ records[n].key # k
    BY <1>2, <1>3, <1>6 DEF r
  <2>2. 1..n = (1..(n - 1)) \cup {n}
    BY <1>1
  <2>3. CASE saved[k] = db[k] /\ \A i \in 1..(n - 1) : records[i].key # k
    BY <2>1, <2>2, <2>3
  <2>4. CASE \E i \in 1..(n - 1) :
               /\ records[i].key = k
               /\ \A j \in 1..(n - 1) : records[j].key = k => j <= i
               /\ saved[k] # NoRow
               /\ saved[k].ver = records[i].row.ver
               /\ saved[k].unread = records[i].row.unread
               /\ saved[k].taken = records[i].row.taken
               /\ saved[k].dismissed =>
                    \/ db[k] # NoRow /\ db[k].dismissed
                    \/ \E j \in 1..(n - 1) : records[j].key = k /\ records[j].row.dismissed
    BY <2>1, <2>2, <2>4
  <2> QED
    BY <2>3, <2>4 DEF Saves
<1>7. \E i \in 1..n :
        /\ records[i].key = r.key
        /\ \A j \in 1..n : records[j].key = r.key => j <= i
        /\ next[r.key] # NoRow
        /\ next[r.key].ver = records[i].row.ver
        /\ next[r.key].unread = records[i].row.unread
        /\ next[r.key].taken = records[i].row.taken
        /\ next[r.key].dismissed =>
             \/ db[r.key] # NoRow /\ db[r.key].dismissed
             \/ \E j \in 1..n : records[j].key = r.key /\ records[j].row.dismissed
  <2>1. next[r.key] = Upsert(saved[r.key], r.row)
    BY <1>1, <1>2, <1>3
  <2>2. n \in 1..n /\ 1..n = (1..(n - 1)) \cup {n}
    BY <1>1
  <2>3. next[r.key].dismissed =>
          \/ db[r.key] # NoRow /\ db[r.key].dismissed
          \/ \E j \in 1..n : records[j].key = r.key /\ records[j].row.dismissed
    BY <2>1, <2>2, <1>1, <1>4 DEF Saves, r
  <2> QED
    BY <2>1, <2>2, <2>3, <1>1, <1>4 DEF r
<1> QED
  BY <1>1, <1>5, <1>6, <1>7 DEF Saves, next, r

(* So does saving them all, by the least number of records that would not. *)
LEMMA SaveAll == TypeInv => Saves(Len(records), SaveRecords(db))
<1> SUFFICES ASSUME TypeInv PROVE Saves(Len(records), SaveRecords(db))
  OBVIOUS
<1> DEFINE size == Len(records)
           Good(m, t) == t = [n \in 0..m |->
                                IF n = 0 THEN db ELSE StoreRecord(t[n - 1], records[n])]
           Bad == {m \in Nat : ~\E t : Good(m, t)}
           after == CHOOSE t : Good(size, t)
           Wrong == {n \in Nat : n <= size /\ ~Saves(n, after[n])}
<1>1. size \in Nat
  BY DEF TypeInv
<1>2. Bad = {}
  <2> SUFFICES ASSUME Bad # {} PROVE FALSE
    OBVIOUS
  <2>1. Bad \in SUBSET Nat
    OBVIOUS
  <2> HIDE DEF Bad
  <2>2. PICK m \in Bad : \A k \in Bad : m <= k
    BY <2>1, LeastNatural
  <2>3. m \in Nat /\ ~\E t : Good(m, t)
    BY DEF Bad
  <2>4. CASE m = 0
    <3> DEFINE t == [n \in 0..0 |-> db]
    <3>1. Good(0, t)
      OBVIOUS
    <3> QED
      BY <3>1, <2>3, <2>4
  <2>5. CASE m # 0
    <3> HIDE DEF Good
    <3>1. m - 1 \in Nat /\ m - 1 \notin Bad
      BY <2>1, <2>2, <2>3, <2>5
    <3>2. PICK t : Good(m - 1, t)
      BY <3>1 DEF Bad
    <3> DEFINE u == [n \in 0..m |-> IF n = m THEN StoreRecord(t[m - 1], records[m]) ELSE t[n]]
    <3> USE DEF Good
    <3>3. \A n \in 0..m : u[n] = IF n = 0 THEN db ELSE StoreRecord(u[n - 1], records[n])
      <4> SUFFICES ASSUME NEW n \in 0..m
                   PROVE  u[n] = IF n = 0 THEN db ELSE StoreRecord(u[n - 1], records[n])
        OBVIOUS
      <4>1. CASE n = m
        BY <4>1, <3>1, <2>3, <2>5
      <4>2. CASE n # m
        <5>1. n \in 0..(m - 1) /\ u[n] = t[n]
          BY <4>2, <2>3
        <5>2. t[n] = IF n = 0 THEN db ELSE StoreRecord(t[n - 1], records[n])
          BY <5>1, <3>2
        <5>3. n # 0 => u[n - 1] = t[n - 1]
          BY <5>1, <2>3
        <5> QED
          BY <5>1, <5>2, <5>3
      <4> QED
        BY <4>1, <4>2
    <3>4. Good(m, u)
      BY <3>3
    <3> QED
      BY <3>4, <2>3
  <2> QED
    BY <2>4, <2>5
<1>3. Good(size, after)
  <2> HIDE DEF Good
  <2>1. \E t : Good(size, t)
    BY <1>1, <1>2
  <2> QED
    BY <2>1, Zenon
<1>4. SaveRecords(db) = after[size]
  BY DEF SaveRecords
<1>5. /\ after[0] = db
      /\ \A n \in 1..size : after[n] = StoreRecord(after[n - 1], records[n])
  <2> HIDE DEF after, size
  <2> QED
    BY <1>1, <1>3
<1>6. Saves(0, after[0])
  <2> HIDE DEF after
  <2>1. Saves(0, db)
    BY DEF Saves, TypeInv
  <2> QED
    BY <2>1, <1>5
<1>7. Wrong = {}
  <2> SUFFICES ASSUME Wrong # {} PROVE FALSE
    OBVIOUS
  <2>1. Wrong \in SUBSET Nat
    OBVIOUS
  <2> HIDE DEF Wrong, after, size
  <2>2. PICK n \in Wrong : \A m \in Wrong : n <= m
    BY <2>1, LeastNatural
  <2>3. n \in Nat /\ n <= size /\ ~Saves(n, after[n])
    BY DEF Wrong
  <2>4. n # 0
    BY <2>3, <1>6
  <2>5. n - 1 \in Nat /\ n - 1 <= size /\ n - 1 \notin Wrong /\ n \in 1..size
    BY <2>1, <2>2, <2>3, <2>4, <1>1
  <2>6. Saves(n - 1, after[n - 1])
    BY <2>5 DEF Wrong
  <2>7. Saves(n, after[n])
    BY <2>5, <2>6, <1>5, SaveOne DEF size
  <2> QED
    BY <2>3, <2>7
<1> QED
  BY <1>1, <1>4, <1>7

-----------------------------------------------------------------------------
(* Types.                                                                  *)

LEMMA InitTypes == Init => TypeInv /\ InboxInv /\ PhaseInv
<1> SUFFICES ASSUME Init PROVE TypeInv /\ InboxInv /\ PhaseInv
  OBVIOUS
<1>1. PICK first \in FirstInboxes :
        inbox = [k \in Keys |-> [listed |-> first[k] > 0, unread |-> first[k] > 0,
                                 ver |-> first[k]]]
  BY DEF Init
<1>2. first \in [Keys -> Nat] /\ IsFiniteSet({k \in Keys : first[k] > 0})
      /\ \A j, k \in Keys : first[j] = first[k] /\ first[k] > 0 => j = k
  BY IngestionAssumption
<1>3. inbox \in [Keys -> Thread]
  BY <1>1, <1>2 DEF Thread
<1>4. TypeInv
  <2>1. db \in [Keys -> Row \cup {NoRow}]
    BY DEF Init
  <2>2. fetched \in Seq(Found) /\ records \in Seq(Made) /\ told \subseteq Keys \X Nat
    BY DEF Init
  <2>3. pc \in {"idle", "fetch", "process"} /\ page \in Nat \ {0} /\ attempt \in Nat /\ faults \in Nat
    BY DEF Init
  <2>4. steady \subseteq Keys /\ deleted \subseteq Keys /\ pushed \in BOOLEAN
    BY DEF Init
  <2> QED
    BY <1>3, <2>1, <2>2, <2>3, <2>4 DEF TypeInv
<1>5. {k \in Keys : inbox[k].listed} = {k \in Keys : first[k] > 0}
  BY <1>1, <1>2
<1>6. InboxInv
  BY <1>1, <1>2, <1>5 DEF InboxInv
<1> QED
  BY <1>4, <1>6 DEF Init, PhaseInv

(* A record is of its notification, and says dismissed only if the DELETE  *)
(* was taken.                                                              *)
LEMMA RecordType ==
  ASSUME TypeInv, fetched # <<>>, NEW taken \in SUBSET {"dismiss"}
  PROVE  /\ Head(fetched) \in Found /\ Head(fetched).key \in Keys
         /\ [key |-> Head(fetched).key, row |-> Record(taken)] \in Made
         /\ Record(taken).ver = Head(fetched).ver
         /\ Record(taken).unread = Head(fetched).unread
         /\ Record(taken).taken = taken
         /\ Record(taken).dismissed = ("dismiss" \in taken)
<1>1. Head(fetched) \in Found
  BY DEF TypeInv
<1> QED
  BY <1>1 DEF Found, Made, Record, MakeRecord, Row, ActionNames, ActionTypes

(* The ways in which GitHub's inbox changes.                               *)
Arrives(k) ==
  \E moment \in Nat :
    /\ \A j \in Keys : inbox[j].ver < moment
    /\ inbox' = [inbox EXCEPT ![k] = [listed |-> TRUE, unread |-> TRUE, ver |-> moment]]

(* Done: not listed any more, its latest activity unchanged.               *)
Departs(k) ==
  \E t \in Thread : /\ ~t.listed /\ ~t.unread /\ t.ver = inbox[k].ver
                    /\ inbox' = [inbox EXCEPT ![k] = t]

(* Read: listed still.                                                     *)
IsRead(k) ==
  /\ inbox[k].listed /\ inbox[k].unread
  /\ \E t \in Thread : /\ t.listed /\ ~t.unread /\ t.ver = inbox[k].ver
                       /\ inbox' = [inbox EXCEPT ![k] = t]

(* What a DELETE or PATCH makes of a thread.                               *)
LEMMA ThreadAfterCalls ==
  ASSUME NEW t \in Thread, NEW applied \in SUBSET ActionTypes, applied # {}
  PROVE  /\ AfterCalls(t, applied) \in Thread
         /\ AfterCalls(t, applied).ver = t.ver
         /\ ~AfterCalls(t, applied).unread
         /\ AfterCalls(t, applied).listed <=> t.listed /\ "dismiss" \notin applied
  BY DEF AfterCalls, Thread

(* A DELETE, whoever sends it, is a departure.                             *)
LEMMA RemovedDeparts ==
  ASSUME TypeInv, NEW k \in Keys, inbox' = Removed(k)
  PROVE  Departs(k)
<1>1. inbox[k] \in Thread
  BY DEF TypeInv
<1>2. {"dismiss"} \in SUBSET ActionTypes
  BY DEF ActionTypes
<1>3. /\ AfterCalls(inbox[k], {"dismiss"}) \in Thread
      /\ AfterCalls(inbox[k], {"dismiss"}).ver = inbox[k].ver
      /\ ~AfterCalls(inbox[k], {"dismiss"}).unread
      /\ ~AfterCalls(inbox[k], {"dismiss"}).listed
  BY <1>1, <1>2, ThreadAfterCalls
<1> QED
  BY <1>3 DEF Departs, Removed

(* Reading elsewhere is a read.                                            *)
LEMMA ReadElsewhereReads ==
  ASSUME TypeInv, NEW k \in Keys, ReadElsewhere(k)
  PROVE  IsRead(k)
<1>1. inbox[k] \in Thread
  BY DEF TypeInv
<1>2. {"mark_read"} \in SUBSET ActionTypes
  BY DEF ActionTypes
<1>3. /\ AfterCalls(inbox[k], {"mark_read"}) \in Thread
      /\ AfterCalls(inbox[k], {"mark_read"}).ver = inbox[k].ver
      /\ ~AfterCalls(inbox[k], {"mark_read"}).unread
      /\ AfterCalls(inbox[k], {"mark_read"}).listed
  BY <1>1, <1>2, ThreadAfterCalls DEF ReadElsewhere
<1> QED
  BY <1>3 DEF IsRead, ReadElsewhere

(* No step changes the inbox in another way.                               *)
LEMMA InboxChanges ==
  ASSUME TypeInv, PhaseInv, [Next]_vars
  PROVE  inbox' = inbox \/ \E k \in Keys : Arrives(k) \/ Departs(k) \/ IsRead(k)
<1>1. ASSUME NEW k \in Keys, NewActivity(k) PROVE Arrives(k)
  <2>1. 1..MaxActivity \subseteq Nat
    BY IngestionAssumption
  <2> QED
    BY <1>1, <2>1 DEF NewActivity, Arrives
<1>2. ASSUME NEW k \in Keys, DoneElsewhere(k) PROVE Departs(k)
  BY <1>2, RemovedDeparts DEF DoneElsewhere
<1>3. ASSUME NEW k \in Keys, ReadElsewhere(k) PROVE IsRead(k)
  BY <1>3, ReadElsewhereReads
<1>4. ASSUME attempt > 0 PROVE Head(fetched).key \in Keys
  BY <1>4, RecordType DEF PhaseInv
<1>5. CASE DeleteReturns
  BY <1>4, <1>5, RemovedDeparts DEF DeleteReturns
<1>6. ASSUME NEW lost \in BOOLEAN, DeleteRaises(lost)
      PROVE  inbox' = inbox \/ \E k \in Keys : Departs(k)
  BY <1>4, <1>6, RemovedDeparts DEF DeleteRaises
<1>7. CASE StartFetch \/ FetchPage \/ EndFetch \/ DeleteThrottled \/ SaveAndDispatch \/ FetchFails
           \/ UNCHANGED vars \/ \E dismiss \in BOOLEAN : Process(dismiss)
  BY <1>7 DEF StartFetch, FetchPage, EndFetch, DeleteThrottled, SaveAndDispatch, FetchFails, vars,
              Process
<1> QED
  BY <1>1, <1>2, <1>3, <1>5, <1>6, <1>7 DEF Next, Poller, GitHub

(* None of them makes a thread older, or gives two the same latest         *)
(* activity.                                                               *)
LEMMA InboxStep ==
  ASSUME TypeInv, InboxInv, inbox' = inbox \/ \E k \in Keys : Arrives(k) \/ Departs(k) \/ IsRead(k)
  PROVE  /\ inbox' \in [Keys -> Thread]
         /\ InboxInv'
         /\ \A k \in Keys : NotOlder(inbox'[k], inbox[k])
<1> DEFINE now == {k \in Keys : inbox[k].listed}
           then == {k \in Keys : inbox'[k].listed}
<1>1. CASE inbox' = inbox
  BY <1>1 DEF TypeInv, InboxInv, NotOlder, Thread
<1>2. ASSUME NEW k \in Keys, Arrives(k)
      PROVE  inbox' \in [Keys -> Thread] /\ InboxInv' /\ \A j \in Keys : NotOlder(inbox'[j], inbox[j])
  <2>1. PICK moment \in Nat :
          /\ \A j \in Keys : inbox[j].ver < moment
          /\ inbox' = [inbox EXCEPT ![k] = [listed |-> TRUE, unread |-> TRUE, ver |-> moment]]
    BY <1>2 DEF Arrives
  <2>2. inbox' \in [Keys -> Thread]
    BY <2>1 DEF TypeInv, Thread
  <2>3. /\ inbox'[k] = [listed |-> TRUE, unread |-> TRUE, ver |-> moment]
        /\ \A j \in Keys : j # k => inbox'[j] = inbox[j]
        /\ \A j \in Keys : inbox[j] \in Thread
    BY <2>1 DEF TypeInv
  <2>4. then = now \cup {k}
    BY <2>3
  <2>5. IsFiniteSet(then)
    BY <2>4, FS_AddElement DEF InboxInv
  <2>6. \A j \in Keys : NotOlder(inbox'[j], inbox[j])
    BY <2>1, <2>3 DEF NotOlder, Thread
  <2>7. InboxInv'
    BY <2>1, <2>3, <2>5 DEF InboxInv, Thread
  <2> QED
    BY <2>2, <2>6, <2>7
<1>3. ASSUME NEW k \in Keys, Departs(k) \/ IsRead(k)
      PROVE  inbox' \in [Keys -> Thread] /\ InboxInv' /\ \A j \in Keys : NotOlder(inbox'[j], inbox[j])
  <2>0. /\ \A j \in Keys : inbox[j] \in Thread
        /\ \E t \in Thread :
             /\ t.listed => inbox[k].listed
             /\ ~t.unread /\ t.ver = inbox[k].ver
             /\ inbox' = [inbox EXCEPT ![k] = t]
    BY <1>3 DEF Departs, IsRead, TypeInv
  <2>1. /\ inbox' \in [Keys -> Thread]
        /\ \A j \in Keys : j # k => inbox'[j] = inbox[j]
        /\ \A j \in Keys : inbox[j] \in Thread
        /\ inbox'[k].ver = inbox[k].ver /\ ~inbox'[k].unread
        /\ inbox'[k].listed => inbox[k].listed
    BY <2>0 DEF TypeInv, Thread
  <2>2. then \in SUBSET now
    BY <2>1
  <2>3. IsFiniteSet(then)
    BY <2>2, FS_Subset DEF InboxInv
  <2>4. \A j \in Keys : NotOlder(inbox'[j], inbox[j])
    BY <2>1 DEF NotOlder, Thread
  <2>5. InboxInv'
    BY <2>1, <2>3 DEF InboxInv, Thread
  <2> QED
    BY <2>1, <2>4, <2>5
<1> QED
  BY <1>1, <1>2, <1>3

(* Every step keeps the types and the phases.                              *)
LEMMA TypeStep ==
  ASSUME TypeInv, InboxInv, PhaseInv, [Next]_vars
  PROVE  TypeInv' /\ PhaseInv'
<1>1. inbox' \in [Keys -> Thread]
  BY InboxChanges, InboxStep
<1>2. ASSUME NEW taken \in SUBSET {"dismiss"}, fetched # <<>>, Finish(taken)
      PROVE  fetched' \in Seq(Found) /\ records' \in Seq(Made) /\ attempt' = 0
  <2>1. [key |-> Head(fetched).key, row |-> Record(taken)] \in Made
    BY <1>2, RecordType
  <2> QED
    BY <1>2, <2>1 DEF Finish, TypeInv
<1>3. ASSUME NEW k \in Keys, NewActivity(k) \/ DoneElsewhere(k) \/ ReadElsewhere(k)
      PROVE  TypeInv' /\ PhaseInv'
  BY <1>1, <1>3 DEF NewActivity, DoneElsewhere, ReadElsewhere, TypeInv, PhaseInv, cycleVars
<1>4. CASE StartFetch
  BY <1>1, <1>4 DEF StartFetch, TypeInv, PhaseInv, Listed
<1>5. CASE FetchPage
  BY <1>1, <1>5, PageOfListing DEF FetchPage, TypeInv, PhaseInv, ghosts
<1>6. CASE EndFetch
  BY <1>1, <1>6 DEF EndFetch, TypeInv, PhaseInv
<1>7. CASE FetchFails
  BY <1>1, <1>7 DEF FetchFails, TypeInv, PhaseInv
<1>8. ASSUME NEW dismiss \in BOOLEAN, Process(dismiss)
      PROVE  TypeInv' /\ PhaseInv'
  BY <1>1, <1>2, <1>8 DEF Process, TypeInv, PhaseInv, ghosts
<1>9. CASE DeleteReturns
  <2>1. fetched # <<>> /\ Head(fetched).key \in Keys
    BY <1>9, RecordType DEF DeleteReturns, PhaseInv
  <2> QED
    BY <1>1, <1>2, <1>9, <2>1 DEF DeleteReturns, TypeInv, PhaseInv
<1>10. CASE DeleteThrottled
  BY <1>1, <1>10 DEF DeleteThrottled, TypeInv, PhaseInv, ghosts
<1>11. ASSUME NEW lost \in BOOLEAN, DeleteRaises(lost)
       PROVE  TypeInv' /\ PhaseInv'
  BY <1>1, <1>2, <1>11 DEF DeleteRaises, TypeInv, PhaseInv, ghosts
<1>12. CASE SaveAndDispatch
  <2>1. db' \in [Keys -> Row \cup {NoRow}]
    BY <1>12, SaveAll DEF SaveAndDispatch, Saves
  <2>2. told' \subseteq Keys \X Nat
    <3>1. \A i \in Events : Activity(i) \in Keys \X Nat
      <4> SUFFICES ASSUME NEW i \in DOMAIN records PROVE Activity(i) \in Keys \X Nat
        BY DEF Events
      <4>1. records[i] \in Made
        BY DEF TypeInv
      <4> QED
        BY <4>1 DEF Activity, Made, Row
    <3> QED
      BY <1>12, <3>1 DEF SaveAndDispatch, TypeInv
  <2> QED
    BY <1>1, <1>12, <2>1, <2>2 DEF SaveAndDispatch, TypeInv, PhaseInv
<1>13. CASE UNCHANGED vars
  BY <1>13 DEF vars, cycleVars, ghosts, TypeInv, PhaseInv
<1> QED
  BY <1>3, <1>4, <1>5, <1>6, <1>7, <1>8, <1>9, <1>10, <1>11, <1>12, <1>13 DEF Next, Poller, GitHub
-----------------------------------------------------------------------------
(* The line of what a cycle has collected.                                 *)

LEMMA NewerStill ==
  \A a, b, c : /\ a.ver \in Nat /\ b.ver \in Nat /\ c.ver \in Nat
               /\ NotOlder(a, b) /\ NotOlder(b, c)
               => NotOlder(a, c)
  BY DEF NotOlder

(* The line is a sequence of notifications.                                *)
LEMMA LineType ==
  TypeInv => /\ Line \in Seq(Found)
             /\ DOMAIN Line = 1..(Len(records) + Len(fetched))
             /\ records = <<>> => Line = fetched
             /\ fetched = <<>> => DOMAIN Line = DOMAIN records
<1> SUFFICES ASSUME TypeInv
             PROVE  /\ Line \in Seq(Found)
                    /\ DOMAIN Line = 1..(Len(records) + Len(fetched))
                    /\ records = <<>> => Line = fetched
                    /\ fetched = <<>> => DOMAIN Line = DOMAIN records
  OBVIOUS
<1>1. fetched \in Seq(Found) /\ records \in Seq(Made)
  BY DEF TypeInv
<1> DEFINE size == Len(records) + Len(fetched)
<1>2. size \in Nat
  BY <1>1
<1>3. \A i \in 1..size : Line[i] \in Found
  <2> SUFFICES ASSUME NEW i \in 1..size PROVE Line[i] \in Found
    OBVIOUS
  <2>1. CASE i <= Len(records)
    <3>1. records[i] \in Made
      BY <1>1, <2>1
    <3> QED
      BY <2>1, <3>1 DEF Line, Made, Row, Found
  <2>2. CASE ~(i <= Len(records))
    <3>1. i - Len(records) \in 1..Len(fetched)
      BY <1>1, <2>2
    <3> QED
      BY <1>1, <2>2, <3>1 DEF Line
  <2> QED
    BY <2>1, <2>2
<1>4. Line = [i \in 1..size |-> Line[i]]
  BY DEF Line
<1>5. Line \in Seq(Found) /\ DOMAIN Line = 1..size
  <2> HIDE DEF Line, size
  <2> QED
    BY <1>2, <1>3, <1>4
<1>6. ASSUME records = <<>> PROVE Line = fetched
  <2>1. size = Len(fetched) /\ Len(records) = 0
    BY <1>1, <1>6
  <2>2. \A i \in 1..Len(fetched) : Line[i] = fetched[i]
    BY <1>1, <2>1 DEF Line
  <2> HIDE DEF Line
  <2> QED
    BY <1>1, <1>4, <2>1, <2>2
<1>7. ASSUME fetched = <<>> PROVE DOMAIN Line = DOMAIN records
  <2>1. Len(fetched) = 0
    BY <1>7
  <2> QED
    BY <1>1, <1>5, <2>1
<1> QED
  BY <1>5, <1>6, <1>7

(* It begins with the records.                                             *)
LEMMA LineOfRecords ==
  ASSUME TypeInv, NEW i \in DOMAIN records
  PROVE  /\ i \in DOMAIN Line
         /\ Line[i].key = records[i].key
         /\ Line[i].unread = records[i].row.unread
         /\ Line[i].ver = records[i].row.ver
<1>1. i \in 1..Len(records) /\ Len(fetched) \in Nat /\ Len(records) \in Nat
  BY DEF TypeInv
<1>2. i \in DOMAIN Line
  BY <1>1, LineType
<1>3. Line[i] = [key |-> records[i].key, unread |-> records[i].row.unread,
                 ver |-> records[i].row.ver]
  BY <1>1 DEF Line
<1> QED
  BY <1>2, <1>3

(* Processing a notification does not change the line.                     *)
LEMMA FinishKeepsLine ==
  ASSUME TypeInv, TypeInv', fetched # <<>>, NEW taken \in SUBSET {"dismiss"}, Finish(taken)
  PROVE  Line' = Line
<1> DEFINE n == Len(records)
           m == Len(fetched)
           made == [key |-> Head(fetched).key, row |-> Record(taken)]
<1>1. fetched \in Seq(Found) /\ records \in Seq(Made)
  BY DEF TypeInv
<1>2. n \in Nat /\ m \in Nat /\ m > 0
  BY <1>1
<1>3. /\ Len(records') = n + 1 /\ Len(fetched') = m - 1
      /\ \A i \in 1..n : records'[i] = records[i]
      /\ records'[n + 1] = made
      /\ \A i \in 1..(m - 1) : fetched'[i] = fetched[i + 1]
      /\ Head(fetched) = fetched[1]
  BY <1>1, <1>2 DEF Finish
<1>4. /\ made.key = fetched[1].key /\ made.row.unread = fetched[1].unread
      /\ made.row.ver = fetched[1].ver /\ fetched[1] \in Found
  BY <1>3, RecordType
<1>5. [key |-> made.key, unread |-> made.row.unread, ver |-> made.row.ver] = fetched[1]
  BY <1>4 DEF Found
<1> HIDE DEF n, m, made
<1>6. DOMAIN Line' = DOMAIN Line /\ DOMAIN Line = 1..(n + m)
  <2>1. DOMAIN Line' = 1..((n + 1) + (m - 1))
    BY <1>3 DEF Line
  <2> QED
    BY <1>2, <2>1, LineType DEF n, m
<1>7. \A i \in 1..(n + m) : Line'[i] = Line[i]
  <2> SUFFICES ASSUME NEW i \in 1..(n + m) PROVE Line'[i] = Line[i]
    OBVIOUS
  <2>0. i \in 1..(Len(records') + Len(fetched'))
    BY <1>2, <1>3
  <2>a. Line'[i] = IF i <= Len(records')
                   THEN [key |-> records'[i].key, unread |-> records'[i].row.unread,
                         ver |-> records'[i].row.ver]
                   ELSE fetched'[i - Len(records')]
    BY <2>0 DEF Line
  <2>b. Line[i] = IF i <= n
                  THEN [key |-> records[i].key, unread |-> records[i].row.unread,
                        ver |-> records[i].row.ver]
                  ELSE fetched[i - n]
    BY DEF Line, n, m
  <2>1. CASE i <= n
    BY <1>2, <1>3, <2>a, <2>b, <2>1
  <2>2. CASE i = n + 1
    <3>1. Line[i] = fetched[1]
      BY <1>2, <2>2, <2>b
    <3>2. Line'[i] = [key |-> made.key, unread |-> made.row.unread, ver |-> made.row.ver]
      BY <1>2, <1>3, <2>2, <2>a
    <3> QED
      BY <3>1, <3>2, <1>5
  <2>3. CASE i > n + 1
    <3>1. i - (n + 1) \in 1..(m - 1) /\ (i - (n + 1)) + 1 = i - n
      BY <1>2, <2>3
    <3> QED
      BY <1>2, <1>3, <2>a, <2>b, <2>3, <3>1
  <2> QED
    BY <1>2, <2>1, <2>2, <2>3
<1>8. /\ Line' = [i \in DOMAIN Line' |-> Line'[i]]
      /\ Line = [i \in DOMAIN Line |-> Line[i]]
  BY DEF Line
<1> HIDE DEF Line
<1> QED
  BY <1>6, <1>7, <1>8

(* How a step changes the line.                                            *)
LEMMA LineStep ==
  ASSUME TypeInv, PhaseInv, TypeInv', PhaseInv', [Next]_vars
  PROVE  \/ Line' = Line /\ db' = db /\ told' = told /\ repeats' = repeats
         \/ StartFetch /\ Line' = Line /\ Line = <<>>
         \/ FetchPage /\ Line = fetched /\ Line' = fetched \o Raw
         \/ FetchFails /\ Line' = <<>>
         \/ SaveAndDispatch /\ Line' = <<>> /\ DOMAIN Line = DOMAIN records
<1>1. ASSUME UNCHANGED <<records, fetched>> PROVE Line' = Line
  BY <1>1 DEF Line
<1>2. ASSUME NEW k \in Keys, NewActivity(k) \/ DoneElsewhere(k) \/ ReadElsewhere(k)
      PROVE  Line' = Line /\ db' = db /\ told' = told /\ repeats' = repeats
  BY <1>1, <1>2 DEF NewActivity, DoneElsewhere, ReadElsewhere, cycleVars
<1>3. CASE StartFetch
  <2>1. records = <<>> /\ fetched = <<>>
    BY <1>3 DEF StartFetch, PhaseInv
  <2>2. Line = <<>>
    BY <2>1, LineType
  <2> QED
    BY <1>1, <1>3, <2>2 DEF StartFetch
<1>4. CASE FetchPage
  <2>1. records = <<>> /\ records' = <<>>
    BY <1>4 DEF FetchPage, PhaseInv
  <2>2. Line = fetched
    BY <2>1, LineType
  <2>3. Line' = fetched'
    <3>1. (TypeInv => (records = <<>> => Line = fetched))'
      BY LineType, PTL
    <3> QED
      BY <2>1, <3>1
  <2> QED
    BY <1>4, <2>2, <2>3 DEF FetchPage
<1>5. CASE EndFetch \/ DeleteThrottled
  BY <1>1, <1>5 DEF EndFetch, DeleteThrottled, ghosts
<1>6. ASSUME NEW dismiss \in BOOLEAN, Process(dismiss)
      PROVE  Line' = Line /\ db' = db /\ told' = told /\ repeats' = repeats
  <2>1. {} \in SUBSET {"dismiss"} /\ fetched # <<>>
    BY <1>6 DEF Process
  <2> QED
    BY <1>1, <1>6, <2>1, FinishKeepsLine DEF Process, ghosts
<1>7. CASE DeleteReturns
  <2>1. {"dismiss"} \in SUBSET {"dismiss"} /\ fetched # <<>>
    BY <1>7 DEF DeleteReturns, PhaseInv
  <2> QED
    BY <1>7, <2>1, FinishKeepsLine DEF DeleteReturns
<1>8. ASSUME NEW lost \in BOOLEAN, DeleteRaises(lost)
      PROVE  Line' = Line /\ db' = db /\ told' = told /\ repeats' = repeats
  <2>1. {} \in SUBSET {"dismiss"} /\ fetched # <<>>
    BY <1>8 DEF DeleteRaises, PhaseInv
  <2> QED
    BY <1>8, <2>1, FinishKeepsLine DEF DeleteRaises, ghosts
<1>9. ASSUME records' = <<>>, fetched' = <<>> PROVE Line' = <<>>
  <2>1. (TypeInv => (records = <<>> => Line = fetched))'
    BY LineType, PTL
  <2> QED
    BY <1>9, <2>1
<1>10. CASE FetchFails
  <2>1. records = <<>>
    BY <1>10 DEF FetchFails, PhaseInv
  <2> QED
    BY <1>9, <1>10, <2>1 DEF FetchFails
<1>11. CASE SaveAndDispatch
  BY <1>9, <1>11, LineType DEF SaveAndDispatch
<1>12. CASE UNCHANGED vars
  BY <1>1, <1>12 DEF vars, cycleVars, ghosts
<1> QED
  BY <1>2, <1>3, <1>4, <1>5, <1>6, <1>7, <1>8, <1>10, <1>11, <1>12 DEF Next, Poller, GitHub
-----------------------------------------------------------------------------
(* Ages: nothing the poller holds is newer than what GitHub lists.         *)

AgeOfLine ==
  /\ \A i, j \in DOMAIN Line : i < j /\ Line[i].key = Line[j].key => NotOlder(Line[j], Line[i])
  /\ \A i \in DOMAIN Line : NotOlder(inbox[Line[i].key], Line[i])

(* And the rows.                                                           *)
AgeOfTable == \A k \in Keys : db[k] # NoRow => NotOlder(inbox[k], db[k])

(* Every step keeps the ages along the line: a page tells what the inbox   *)
(* says now, and the inbox only moves on.                                  *)
LEMMA AgeOfCollected ==
  ASSUME TypeInv, InboxInv, PhaseInv, AgeInv, TypeInv', InboxInv', PhaseInv', [Next]_vars
  PROVE  AgeOfLine'
<1>1. /\ inbox \in [Keys -> Thread] /\ inbox' \in [Keys -> Thread]
      /\ \A k \in Keys : NotOlder(inbox'[k], inbox[k])
  BY InboxChanges, InboxStep DEF TypeInv
<1>2. Line \in Seq(Found) /\ \A i \in DOMAIN Line : Line[i] \in Found /\ Line[i].key \in Keys
  <2>1. Line \in Seq(Found)
    BY LineType
  <2>2. \A i \in DOMAIN Line : Line[i] \in Found
    BY <2>1
  <2>3. \A f \in Found : f.key \in Keys
    BY DEF Found
  <2> QED
    BY <2>1, <2>2, <2>3
<1>3. CASE Line' = Line
  <2>1. \A i \in DOMAIN Line : NotOlder(inbox'[Line[i].key], Line[i])
    <3> SUFFICES ASSUME NEW i \in DOMAIN Line PROVE NotOlder(inbox'[Line[i].key], Line[i])
      OBVIOUS
    <3>1. NotOlder(inbox[Line[i].key], Line[i]) /\ NotOlder(inbox'[Line[i].key], inbox[Line[i].key])
      BY <1>1, <1>2 DEF AgeInv
    <3>2. /\ Line[i].ver \in Nat /\ inbox[Line[i].key].ver \in Nat
          /\ inbox'[Line[i].key].ver \in Nat
      BY <1>1, <1>2 DEF Found, Thread
    <3> QED
      BY <3>1, <3>2, NewerStill
  <2> QED
    BY <1>3, <2>1 DEF AgeInv, AgeOfLine
<1>4. CASE Line' = <<>>
  BY <1>4 DEF AgeOfLine
<1>5. CASE FetchPage /\ Line = fetched /\ Line' = fetched \o Raw
  <2>1. /\ Raw \in Seq(Found) /\ fetched \in Seq(Found)
        /\ \A i \in 1..Len(Raw) : Raw[i].key \in Listed /\ Raw[i] = Item(Raw[i].key)
                                  /\ Position(Raw[i].key) = (page - 1) * PerPage + i
    BY PageOfListing DEF TypeInv
  <2>2. (page - 1) * PerPage \in Nat
    BY PageBounds
  <2>3. \A i, j \in 1..Len(Raw) : Raw[i].key = Raw[j].key => i = j
    BY <2>1, <2>2
  <2>4. \A i \in 1..Len(Raw) : /\ Raw[i].key \in Keys
                               /\ Raw[i].ver = inbox[Raw[i].key].ver
                               /\ Raw[i].unread = inbox[Raw[i].key].unread
    <3> SUFFICES ASSUME NEW i \in 1..Len(Raw)
                 PROVE  /\ Raw[i].key \in Keys /\ Raw[i].ver = inbox[Raw[i].key].ver
                        /\ Raw[i].unread = inbox[Raw[i].key].unread
      OBVIOUS
    <3>1. Raw[i].key \in Keys /\ Raw[i] = Item(Raw[i].key)
      BY <2>1 DEF Listed
    <3> QED
      BY <3>1 DEF Item
  <2>5. \A i \in 1..Len(Raw) : \A b : NotOlder(inbox[Raw[i].key], b) => NotOlder(Raw[i], b)
    BY <2>4 DEF NotOlder
  <2>6. inbox' = inbox
    BY <1>5 DEF FetchPage
  <2> DEFINE n == Len(fetched)
             m == Len(Raw)
  <2>7. /\ n \in Nat /\ m \in Nat
        /\ DOMAIN Line = 1..n /\ DOMAIN Line' = 1..(n + m)
        /\ \A i \in 1..n : Line'[i] = Line[i]
        /\ \A i \in 1..(n + m) : i \notin 1..n => i - n \in 1..m /\ Line'[i] = Raw[i - n]
    BY <1>5, <2>1
  <2> HIDE DEF n, m
  <2>8. ASSUME NEW i \in 1..(n + m) PROVE NotOlder(inbox[Line'[i].key], Line'[i])
    <3>1. CASE i \in 1..n
      BY <2>7, <3>1 DEF AgeInv
    <3>2. CASE i \notin 1..n
      <4>1. i - n \in 1..m /\ Line'[i] = Raw[i - n]
        BY <2>7, <3>2
      <4> QED
        BY <4>1, <2>4 DEF NotOlder, m
    <3> QED
      BY <3>1, <3>2
  <2>9. ASSUME NEW i \in 1..(n + m), NEW j \in 1..(n + m), i < j, Line'[i].key = Line'[j].key
        PROVE  NotOlder(Line'[j], Line'[i])
    <3>1. CASE j \in 1..n
      <4>1. i \in 1..n
        BY <2>7, <2>9, <3>1
      <4> QED
        BY <2>7, <2>9, <3>1, <4>1 DEF AgeInv
    <3>2. CASE j \notin 1..n /\ i \in 1..n
      <4>1. j - n \in 1..m /\ Line'[j] = Raw[j - n]
        BY <2>7, <3>2
      <4>2. NotOlder(inbox[Line'[i].key], Line'[i])
        BY <2>8
      <4> QED
        BY <2>5, <2>9, <4>1, <4>2 DEF m
    <3>3. CASE j \notin 1..n /\ i \notin 1..n
      <4>1. /\ j - n \in 1..m /\ Line'[j] = Raw[j - n]
            /\ i - n \in 1..m /\ Line'[i] = Raw[i - n]
        BY <2>7, <3>3
      <4>2. i - n = j - n
        BY <2>3, <2>9, <4>1 DEF m
      <4> QED
        BY <2>7, <2>9, <4>2
    <3> QED
      BY <3>1, <3>2, <3>3
  <2> QED
    BY <2>6, <2>7, <2>8, <2>9 DEF AgeOfLine
<1> QED
  BY <1>3, <1>4, <1>5, LineStep

(* What a row is after the save: the row it was, or the last record of its *)
(* key; never older than it was.                                           *)
LEMMA SavedRow ==
  ASSUME TypeInv, AgeInv, SaveAndDispatch, DOMAIN Line = DOMAIN records, NEW k \in Keys
  PROVE  /\ \/ db'[k] = db[k] /\ \A i \in DOMAIN records : records[i].key # k
            \/ \E i \in DOMAIN records :
                 /\ i \in DOMAIN Line /\ Line[i].key = k /\ records[i].key = k
                 /\ \A j \in DOMAIN records : records[j].key = k => j <= i
                 /\ db'[k] # NoRow
                 /\ db'[k].ver = Line[i].ver /\ db'[k].unread = Line[i].unread
                 /\ db'[k].taken = records[i].row.taken
                 /\ db'[k].dismissed =>
                      \/ db[k] # NoRow /\ db[k].dismissed
                      \/ \E j \in DOMAIN records :
                           records[j].key = k /\ records[j].row.dismissed
<1>1. Saves(Len(records), db')
  BY SaveAll DEF SaveAndDispatch
<1>2. records \in Seq(Made) /\ DOMAIN records = 1..Len(records)
  BY DEF TypeInv
<1>3. \A i \in DOMAIN records : /\ i \in DOMAIN Line
                                /\ Line[i].key = records[i].key
                                /\ Line[i].ver = records[i].row.ver
                                /\ Line[i].unread = records[i].row.unread
  BY LineOfRecords
<1>4. \/ db'[k] = db[k] /\ \A i \in 1..Len(records) : records[i].key # k
      \/ \E i \in 1..Len(records) :
            /\ records[i].key = k
            /\ \A j \in 1..Len(records) : records[j].key = k => j <= i
            /\ db'[k] # NoRow
            /\ db'[k].ver = records[i].row.ver
            /\ db'[k].unread = records[i].row.unread
            /\ db'[k].taken = records[i].row.taken
            /\ db'[k].dismissed =>
                 \/ db[k] # NoRow /\ db[k].dismissed
                 \/ \E j \in 1..Len(records) : records[j].key = k /\ records[j].row.dismissed
  BY <1>1 DEF Saves
<1> QED
  BY <1>2, <1>3, <1>4

(* So a saved row is between the row it replaces and the inbox.            *)
LEMMA SavedIsNotOlder ==
  ASSUME TypeInv, TypeInv', AgeInv, SaveAndDispatch, DOMAIN Line = DOMAIN records,
         NEW k \in Keys
  PROVE  /\ db[k] # NoRow => db'[k] # NoRow /\ db'[k].ver >= db[k].ver
         /\ db'[k] # NoRow => NotOlder(inbox[k], db'[k])
         /\ \A i \in DOMAIN records : records[i].key = k =>
              db'[k] # NoRow /\ db'[k].ver >= records[i].row.ver
<1>0. /\ \A i \in DOMAIN Line : Line[i] \in Found /\ i \in Nat
      /\ DOMAIN Line = 1..Len(records) /\ Len(records) \in Nat
      /\ db \in [Keys -> Row \cup {NoRow}] /\ db' \in [Keys -> Row \cup {NoRow}]
  BY LineType DEF TypeInv
<1>1. CASE db'[k] = db[k] /\ \A i \in DOMAIN records : records[i].key # k
  <2>1. db[k] # NoRow => db[k].ver \in Nat
    BY <1>0 DEF Row
  <2> QED
    BY <1>1, <2>1 DEF AgeInv
<1>2. ASSUME NEW i \in DOMAIN records,
             i \in DOMAIN Line, Line[i].key = k,
             \A j \in DOMAIN records : records[j].key = k => j <= i,
             db'[k] # NoRow, db'[k].ver = Line[i].ver, db'[k].unread = Line[i].unread
      PROVE  /\ db[k] # NoRow => db'[k] # NoRow /\ db'[k].ver >= db[k].ver
             /\ db'[k] # NoRow => NotOlder(inbox[k], db'[k])
             /\ \A j \in DOMAIN records : records[j].key = k =>
                  db'[k] # NoRow /\ db'[k].ver >= records[j].row.ver
  <2>1. Line[i].ver \in Nat /\ (db[k] # NoRow => db[k].ver \in Nat)
    BY <1>0, <1>2 DEF Found, Row
  <2>2. db[k] # NoRow => NotOlder(Line[i], db[k])
    BY <1>2 DEF AgeInv
  <2>3. NotOlder(inbox[k], Line[i])
    BY <1>2 DEF AgeInv
  <2>4. ASSUME NEW j \in DOMAIN records, records[j].key = k
        PROVE  db'[k].ver >= records[j].row.ver
    <3>1. /\ j \in DOMAIN Line /\ Line[j].key = k /\ Line[j].ver = records[j].row.ver
          /\ Line[j] \in Found
      BY <2>4, <1>0, LineOfRecords
    <3>2. j = i \/ j < i
      BY <1>0, <1>2, <2>4, <3>1
    <3>3. CASE j < i
      <4>1. NotOlder(Line[i], Line[j])
        BY <1>2, <3>1, <3>3 DEF AgeInv
      <4>2. Line[j].ver \in Nat
        BY <3>1 DEF Found
      <4> QED
        BY <1>2, <2>1, <3>1, <4>1, <4>2 DEF NotOlder
    <3> QED
      BY <1>2, <2>1, <3>1, <3>2, <3>3
  <2>5. NotOlder(inbox[k], db'[k])
    BY <1>2, <2>3 DEF NotOlder
  <2>6. db[k] # NoRow => db'[k].ver >= db[k].ver
    BY <1>2, <2>1, <2>2 DEF NotOlder
  <2> QED
    BY <1>2, <2>4, <2>5, <2>6
<1> QED
  BY <1>1, <1>2, SavedRow

(* Every step keeps the ages.                                              *)
LEMMA AgeStep ==
  ASSUME TypeInv, InboxInv, PhaseInv, AgeInv, TypeInv', InboxInv', PhaseInv', [Next]_vars
  PROVE  AgeInv'
<1>1. /\ inbox \in [Keys -> Thread] /\ inbox' \in [Keys -> Thread]
      /\ \A k \in Keys : NotOlder(inbox'[k], inbox[k])
      /\ db \in [Keys -> Row \cup {NoRow}]
  BY InboxChanges, InboxStep DEF TypeInv
<1>2. AgeOfLine'
  BY AgeOfCollected
<1>3. ASSUME db' = db PROVE AgeOfTable'
  <2> SUFFICES ASSUME NEW k \in Keys, db[k] # NoRow PROVE NotOlder(inbox'[k], db[k])
    BY <1>3 DEF AgeOfTable
  <2>1. NotOlder(inbox[k], db[k]) /\ NotOlder(inbox'[k], inbox[k])
    BY <1>1 DEF AgeInv
  <2>2. inbox[k].ver \in Nat /\ inbox'[k].ver \in Nat /\ db[k].ver \in Nat
    BY <1>1 DEF Thread, Row
  <2> QED
    BY <2>1, <2>2, NewerStill
<1>4. CASE Line' = Line /\ db' = db
  <2>1. (\A i \in DOMAIN Line : db[Line[i].key] # NoRow => NotOlder(Line[i], db[Line[i].key]))'
    BY <1>4 DEF AgeInv
  <2> QED
    BY <1>2, <1>3, <1>4, <2>1 DEF AgeInv, AgeOfLine, AgeOfTable
<1>5. CASE FetchPage /\ Line = fetched /\ Line' = fetched \o Raw
  <2>1. db' = db /\ inbox' = inbox
    BY <1>5 DEF FetchPage
  <2>2. AgeOfTable'
    BY <1>3, <2>1
  <2>3. /\ Raw \in Seq(Found) /\ fetched \in Seq(Found)
        /\ \A i \in 1..Len(Raw) : Raw[i].key \in Listed /\ Raw[i] = Item(Raw[i].key)
    BY PageOfListing DEF TypeInv
  <2>4. ASSUME NEW i \in DOMAIN Line', db[Line'[i].key] # NoRow
        PROVE  NotOlder(Line'[i], db[Line'[i].key])
    <3>1. CASE i \in 1..Len(fetched)
      <4>1. Line'[i] = Line[i] /\ i \in DOMAIN Line
        BY <1>5, <2>3, <3>1
      <4> QED
        BY <2>4, <4>1 DEF AgeInv
    <3>2. CASE i \notin 1..Len(fetched)
      <4>1. i - Len(fetched) \in 1..Len(Raw) /\ Line'[i] = Raw[i - Len(fetched)]
        BY <1>5, <2>3, <3>2
      <4> DEFINE k == Line'[i].key
      <4>2. k \in Keys /\ Line'[i] = Item(k)
        BY <2>3, <4>1 DEF Listed
      <4>3. NotOlder(inbox[k], db[k])
        BY <2>4, <4>2 DEF AgeInv
      <4>4. Line'[i].ver = inbox[k].ver /\ Line'[i].unread = inbox[k].unread
        <5> HIDE DEF k
        <5> QED
          BY <4>2 DEF Item
      <4> QED
        BY <4>3, <4>4 DEF NotOlder
    <3> QED
      BY <3>1, <3>2
  <2> QED
    BY <1>2, <2>1, <2>2, <2>4 DEF AgeInv, AgeOfLine, AgeOfTable
<1>6. ASSUME Line' = <<>>, AgeOfTable' PROVE AgeInv'
  BY <1>2, <1>6 DEF AgeInv, AgeOfLine, AgeOfTable
<1>7. CASE FetchFails /\ Line' = <<>>
  BY <1>3, <1>6, <1>7 DEF FetchFails
<1>8. CASE SaveAndDispatch /\ Line' = <<>> /\ DOMAIN Line = DOMAIN records
  <2>1. inbox' = inbox
    BY <1>8 DEF SaveAndDispatch
  <2>2. \A k \in Keys : db'[k] # NoRow => NotOlder(inbox[k], db'[k])
    BY <1>8, SavedIsNotOlder
  <2> QED
    BY <1>6, <1>8, <2>1, <2>2 DEF AgeOfTable
<1>9. CASE StartFetch /\ Line' = Line /\ Line = <<>>
  BY <1>3, <1>6, <1>9 DEF StartFetch
<1> QED
  BY <1>4, <1>5, <1>7, <1>8, <1>9, LineStep

(* What is announced is saved in the same step, and what is saved later is *)
(* not older.                                                              *)
LEMMA ToldStep ==
  ASSUME TypeInv, InboxInv, PhaseInv, AgeInv, ToldInv, TypeInv', PhaseInv', [Next]_vars
  PROVE  ToldInv'
<1>1. ASSUME db' = db, told' = told PROVE ToldInv'
  BY <1>1 DEF ToldInv
<1>2. CASE FetchPage \/ FetchFails \/ StartFetch
  BY <1>1, <1>2 DEF FetchPage, FetchFails, StartFetch, ghosts
<1>3. CASE SaveAndDispatch /\ DOMAIN Line = DOMAIN records
  <2>1. told' = told \cup {Activity(i) : i \in Events}
    BY <1>3 DEF SaveAndDispatch
  <2>2. ASSUME NEW a \in told PROVE db'[a[1]] # NoRow /\ db'[a[1]].ver >= a[2]
    <3>1. a[1] \in Keys /\ a[2] \in Nat
      BY DEF TypeInv
    <3>2. db[a[1]] # NoRow /\ db[a[1]].ver >= a[2]
      BY DEF ToldInv
    <3>3. db'[a[1]] # NoRow /\ db'[a[1]].ver >= db[a[1]].ver
      BY <1>3, <3>1, <3>2, SavedIsNotOlder
    <3>4. db[a[1]].ver \in Nat /\ db'[a[1]].ver \in Nat
      BY <3>1, <3>2, <3>3 DEF TypeInv, Row
    <3> QED
      BY <3>1, <3>2, <3>3, <3>4
  <2>3. ASSUME NEW i \in Events
        PROVE  /\ db'[Activity(i)[1]] # NoRow
               /\ db'[Activity(i)[1]].ver >= Activity(i)[2]
    <3>1. i \in DOMAIN records /\ records[i] \in Made
      BY DEF Events, TypeInv
    <3>2. records[i].key \in Keys
      BY <3>1 DEF Made
    <3>3. db'[records[i].key] # NoRow /\ db'[records[i].key].ver >= records[i].row.ver
      BY <1>3, <3>1, <3>2, SavedIsNotOlder
    <3> QED
      BY <3>3 DEF Activity
  <2> QED
    BY <2>1, <2>2, <2>3 DEF ToldInv
<1> QED
  BY <1>1, <1>2, <1>3, LineStep

(* Only DeleteReturns makes a record that says dismissed; saving keeps     *)
(* what the rows or the records say.                                       *)
LEMMA DeletedStep ==
  ASSUME TypeInv, InboxInv, PhaseInv, AgeInv, DeletedInv, TypeInv', PhaseInv', [Next]_vars
  PROVE  DeletedInv'
<1>1. ASSUME NEW taken \in SUBSET {"dismiss"}, fetched # <<>>, Finish(taken), db' = db,
             deleted \subseteq deleted', "dismiss" \in taken => Head(fetched).key \in deleted'
      PROVE  DeletedInv'
  <2> DEFINE n == Len(records)
             made == [key |-> Head(fetched).key, row |-> Record(taken)]
  <2>1. records \in Seq(Made) /\ n \in Nat
    BY DEF TypeInv
  <2>2. /\ made.row.taken = taken /\ made.row.dismissed = ("dismiss" \in taken)
        /\ made.key = Head(fetched).key /\ made \in Made
    BY <1>1, RecordType
  <2>3. /\ records' = Append(records, made)
    BY <1>1 DEF Finish
  <2> HIDE DEF made, n
  <2>4. /\ DOMAIN records = 1..n /\ DOMAIN records' = 1..(n + 1)
        /\ \A i \in 1..n : records'[i] = records[i]
        /\ records'[n + 1] = made
    BY <2>1, <2>2, <2>3 DEF n
  <2>5. ASSUME NEW i \in 1..(n + 1),
               records'[i].row.dismissed \/ "dismiss" \in records'[i].row.taken
        PROVE  records'[i].key \in deleted'
    <3>1. CASE i = n + 1
      BY <1>1, <2>2, <2>4, <2>5, <3>1
    <3>2. CASE i # n + 1
      <4>1. i \in 1..n /\ records'[i] = records[i]
        BY <2>1, <2>4, <3>2
      <4> QED
        BY <1>1, <2>4, <2>5, <4>1 DEF DeletedInv
    <3> QED
      BY <3>1, <3>2
  <2>6. DismissedWasDeleted'
    BY <1>1 DEF DeletedInv, DismissedWasDeleted
  <2> QED
    BY <2>4, <2>5, <2>6 DEF DeletedInv
<1>2. ASSUME db' = db, records' = records, deleted' = deleted PROVE DeletedInv'
  BY <1>2 DEF DeletedInv, DismissedWasDeleted
<1>3. ASSUME NEW k \in Keys, NewActivity(k) \/ DoneElsewhere(k) \/ ReadElsewhere(k)
      PROVE  DeletedInv'
  BY <1>2, <1>3 DEF NewActivity, DoneElsewhere, ReadElsewhere, cycleVars
<1>4. CASE StartFetch \/ FetchPage \/ EndFetch \/ DeleteThrottled \/ FetchFails \/ UNCHANGED vars
  BY <1>2, <1>4 DEF StartFetch, FetchPage, EndFetch, DeleteThrottled, FetchFails, vars, cycleVars,
                    ghosts
<1>5. ASSUME NEW dismiss \in BOOLEAN, Process(dismiss) PROVE DeletedInv'
  <2>1. {} \in SUBSET {"dismiss"} /\ fetched # <<>>
    BY <1>5 DEF Process
  <2> QED
    BY <1>1, <1>2, <1>5, <2>1 DEF Process, ghosts
<1>6. CASE DeleteReturns
  <2>1. {"dismiss"} \in SUBSET {"dismiss"} /\ fetched # <<>>
    BY <1>6 DEF DeleteReturns, PhaseInv
  <2>2. Finish({"dismiss"}) /\ db' = db /\ deleted \subseteq deleted'
        /\ Head(fetched).key \in deleted'
    BY <1>6 DEF DeleteReturns
  <2> QED
    BY <1>1, <2>1, <2>2
<1>7. ASSUME NEW lost \in BOOLEAN, DeleteRaises(lost) PROVE DeletedInv'
  <2>1. {} \in SUBSET {"dismiss"} /\ fetched # <<>>
    BY <1>7 DEF DeleteRaises, PhaseInv
  <2> QED
    BY <1>1, <1>7, <2>1 DEF DeleteRaises, ghosts
<1>8. CASE SaveAndDispatch
  <2>1. fetched = <<>> /\ records' = <<>> /\ deleted' = deleted
    BY <1>8 DEF SaveAndDispatch
  <2>2. DOMAIN Line = DOMAIN records
    BY <2>1, LineType
  <2>3. ASSUME NEW k \in Keys, db'[k] # NoRow,
               db'[k].dismissed \/ "dismiss" \in db'[k].taken
        PROVE  k \in deleted
    <3>1. CASE db'[k] = db[k]
      BY <2>3, <3>1 DEF DeletedInv, DismissedWasDeleted
    <3>2. CASE \E i \in DOMAIN records :
                 /\ records[i].key = k
                 /\ db'[k].taken = records[i].row.taken
                 /\ db'[k].dismissed =>
                      \/ db[k] # NoRow /\ db[k].dismissed
                      \/ \E j \in DOMAIN records :
                           records[j].key = k /\ records[j].row.dismissed
      BY <2>3, <3>2 DEF DeletedInv, DismissedWasDeleted
    <3> QED
      BY <1>8, <2>2, <3>1, <3>2, SavedRow
  <2> QED
    BY <2>1, <2>3 DEF DeletedInv, DismissedWasDeleted
<1> QED
  BY <1>3, <1>4, <1>5, <1>6, <1>7, <1>8 DEF Next, Poller, GitHub
-----------------------------------------------------------------------------
(* Places in the list, while it moves.                                     *)

AheadByActivity ==
  \A k \in Listed : Preceding(Listed, LatestFirst, k) = {j \in Listed : inbox[j].ver > inbox[k].ver}

(* Ahead in the list means later activity.                                 *)
LEMMA PrecedingInInbox == AheadByActivity
BY DEF Preceding, LatestFirst, AheadByActivity

(* A thread that becomes active goes to the front.                         *)
LEMMA ArrivingPushesBack ==
  ASSUME TypeInv, InboxInv, TypeInv', InboxInv', NEW k \in Keys, Arrives(k)
  PROVE  /\ Listed' = Listed \cup {k}
         /\ \A j \in Listed : j # k => Position(j)' >= Position(j)
<1>1. PICK moment \in Nat :
        /\ \A j \in Keys : inbox[j].ver < moment
        /\ inbox' = [inbox EXCEPT ![k] = [listed |-> TRUE, unread |-> TRUE, ver |-> moment]]
  BY DEF Arrives
<1>2. /\ inbox'[k] = [listed |-> TRUE, unread |-> TRUE, ver |-> moment]
      /\ \A j \in Keys : j # k => inbox'[j] = inbox[j]
  BY <1>1 DEF TypeInv
<1>3. Listed' = Listed \cup {k}
  BY <1>2 DEF Listed
<1>4. ASSUME NEW j \in Listed, j # k PROVE Position(j)' >= Position(j)
  <2>1. j \in Listed' /\ j \in Keys
    BY <1>3 DEF Listed
  <2>2. Preceding(Listed, LatestFirst, j) = {i \in Listed : inbox[i].ver > inbox[j].ver}
    BY PrecedingInInbox DEF AheadByActivity
  <2>3. (Preceding(Listed, LatestFirst, j))' = {i \in Listed' : inbox'[i].ver > inbox'[j].ver}
    <3>1. AheadByActivity'
      BY PrecedingInInbox, PTL
    <3> QED
      BY <2>1, <3>1 DEF AheadByActivity
  <2>4. Preceding(Listed, LatestFirst, j) \in SUBSET (Preceding(Listed, LatestFirst, j))'
    <3>1. \A i \in Listed : inbox[i].ver > inbox[j].ver =>
             i \in Listed' /\ inbox'[i].ver > inbox'[j].ver
      <4> SUFFICES ASSUME NEW i \in Listed, inbox[i].ver > inbox[j].ver
                   PROVE  i \in Listed' /\ inbox'[i].ver > inbox'[j].ver
        OBVIOUS
      <4>1. i \in Keys /\ inbox'[j] = inbox[j]
        BY <1>2, <1>4, <2>1 DEF Listed
      <4>2. CASE i = k
        BY <1>1, <1>2, <1>3, <2>1, <4>1, <4>2
      <4>3. CASE i # k
        BY <1>2, <1>3, <4>1, <4>3
      <4> QED
        BY <4>2, <4>3
    <3> QED
      BY <2>2, <2>3, <3>1
  <2>5. IsFiniteSet((Preceding(Listed, LatestFirst, j))')
    <3>1. (TypeInv /\ InboxInv => IsFiniteSet(Listed) /\ Orders(LatestFirst, Listed))'
      BY ListedOrder, PTL
    <3>2. IsFiniteSet(Listed') /\ Orders(LatestFirst', Listed')
      BY <3>1
    <3> QED
      BY <2>1, <3>2, PrecedingBound
  <2>6. Cardinality(Preceding(Listed, LatestFirst, j)) <= Cardinality((Preceding(Listed, LatestFirst, j))')
    BY <2>4, <2>5, FS_Subset
  <2>7. /\ Cardinality(Preceding(Listed, LatestFirst, j)) \in Nat
        /\ Cardinality((Preceding(Listed, LatestFirst, j))') \in Nat
    BY <2>4, <2>5, FS_Subset, FS_CardinalityType
  <2>8. Position(j)' = Cardinality((Preceding(Listed, LatestFirst, j))') + 1
    BY <2>1 DEF Position
  <2> QED
    BY <2>6, <2>7, <2>8 DEF Position
<1> QED
  BY <1>3, <1>4

(* A thread that is done or read elsewhere may leave the list: those ahead *)
(* of it stay where they are, the others move up.                          *)
LEMMA LeavingPullsUp ==
  ASSUME TypeInv, InboxInv, TypeInv', InboxInv', NEW k \in Keys, Departs(k) \/ IsRead(k)
  PROVE  /\ Listed' \subseteq Listed /\ \A j \in Listed : j # k => j \in Listed'
         /\ \A j \in Keys : Position(j)' <= Position(j)
         /\ k \in Listed' \/ k \notin Listed => \A j \in Keys : Position(j)' = Position(j)
         /\ \A j \in Listed : j \notin Left(k) => j \in Listed' /\ Position(j)' = Position(j)
<1>1. /\ \A j \in Keys : j # k => inbox'[j] = inbox[j]
      /\ \A j \in Keys : inbox[j] \in Thread
      /\ inbox'[k].ver = inbox[k].ver /\ ~inbox'[k].unread
      /\ inbox'[k].listed => inbox[k].listed
  BY DEF Departs, IsRead, TypeInv, Thread
<1>2. \A j \in Keys : inbox'[j].ver = inbox[j].ver
  BY <1>1
<1>3. Listed' \subseteq Listed /\ \A j \in Listed : j # k => j \in Listed'
  BY <1>1 DEF Listed
<1>4. /\ IsFiniteSet(Listed) /\ Orders(LatestFirst, Listed)
      /\ \A j \in Keys : Position(j) \in Nat
      /\ \A j \in Listed : j \in Keys
  BY ListedOrder, ListingOrder DEF Listed
<1>5. ASSUME NEW j \in Listed'
      PROVE  Preceding(Listed', LatestFirst', j) = Preceding(Listed, LatestFirst, j) \cap Listed'
  <2>1. j \in Listed
    BY <1>3
  <2>2. Preceding(Listed, LatestFirst, j) = {i \in Listed : inbox[i].ver > inbox[j].ver}
    BY <2>1, PrecedingInInbox DEF AheadByActivity
  <2>3. Preceding(Listed', LatestFirst', j) = {i \in Listed' : inbox'[i].ver > inbox'[j].ver}
    <3>1. AheadByActivity'
      BY PrecedingInInbox, PTL
    <3> QED
      BY <3>1 DEF AheadByActivity
  <2>4. \A i \in Listed' : i \in Listed /\ inbox'[i].ver = inbox[i].ver
    BY <1>2, <1>3, <1>4
  <2> QED
    BY <1>2, <1>4, <2>1, <2>2, <2>3, <2>4
<1>6. ASSUME NEW j \in Listed'
      PROVE  /\ Position(j)' = Cardinality(Preceding(Listed', LatestFirst', j)) + 1
             /\ Position(j) = Cardinality(Preceding(Listed, LatestFirst, j)) + 1
             /\ IsFiniteSet(Preceding(Listed, LatestFirst, j))
  BY <1>3, <1>4, PrecedingBound DEF Position
<1>7. ASSUME NEW j \in Keys PROVE Position(j)' <= Position(j)
  <2>1. CASE j \notin Listed'
    <3>1. Position(j)' = 0
      BY <2>1 DEF Position
    <3> QED
      BY <1>4, <3>1
  <2>2. CASE j \in Listed'
    <3>1. Preceding(Listed', LatestFirst', j) \in SUBSET Preceding(Listed, LatestFirst, j)
      BY <1>5, <2>2
    <3>2. /\ Cardinality(Preceding(Listed', LatestFirst', j)) <= Cardinality(Preceding(Listed, LatestFirst, j))
          /\ Cardinality(Preceding(Listed', LatestFirst', j)) \in Nat
          /\ Cardinality(Preceding(Listed, LatestFirst, j)) \in Nat
      BY <1>6, <2>2, <3>1, FS_Subset, FS_CardinalityType
    <3> QED
      BY <1>6, <2>2, <3>2
  <2> QED
    BY <2>1, <2>2
<1>8. ASSUME NEW j \in Listed', Preceding(Listed, LatestFirst, j) \subseteq Listed'
      PROVE  Position(j)' = Position(j)
  BY <1>5, <1>6, <1>8
<1>9. ASSUME k \in Listed' \/ k \notin Listed, NEW j \in Keys
      PROVE  Position(j)' = Position(j)
  <2>1. Listed' = Listed
    BY <1>3, <1>9
  <2>2. CASE j \in Listed
    BY <1>8, <2>1, <2>2 DEF Preceding
  <2>3. CASE j \notin Listed
    <3>1. Position(j)' = 0 /\ Position(j) = 0
      BY <2>1, <2>3 DEF Position
    <3> QED
      BY <3>1
  <2> QED
    BY <2>2, <2>3
<1>10. ASSUME NEW j \in Listed, j \notin Left(k)
       PROVE  j \in Listed' /\ Position(j)' = Position(j)
  <2>1. CASE k \notin Listed
    BY <1>3, <1>4, <1>9, <2>1
  <2>2. CASE k \in Listed
    <3>1. Position(j) < Position(k) /\ j # k /\ j \in Listed' /\ j \in Keys
      BY <1>3, <1>4, <1>10, <2>2 DEF Left
    <3>2. k \notin Preceding(Listed, LatestFirst, j)
      <4> SUFFICES ASSUME k \in Preceding(Listed, LatestFirst, j) PROVE FALSE
        OBVIOUS
      <4>1. <<k, j>> \in LatestFirst
        BY DEF Preceding
      <4>2. Cardinality(Preceding(Listed, LatestFirst, k)) < Cardinality(Preceding(Listed, LatestFirst, j))
        BY <1>4, <2>2, <4>1, PrecedingGrows
      <4>3. /\ Position(j) = Cardinality(Preceding(Listed, LatestFirst, j)) + 1
            /\ Position(k) = Cardinality(Preceding(Listed, LatestFirst, k)) + 1
        BY <2>2 DEF Position
      <4>4. /\ Cardinality(Preceding(Listed, LatestFirst, k)) \in Nat
            /\ Cardinality(Preceding(Listed, LatestFirst, j)) \in Nat
        BY <1>4, <2>2, PrecedingBound, FS_CardinalityType
      <4> QED
        BY <3>1, <4>2, <4>3, <4>4
    <3>3. Preceding(Listed, LatestFirst, j) \subseteq Listed'
      BY <1>3, <3>2 DEF Preceding
    <3> QED
      BY <1>8, <3>1, <3>3
  <2> QED
    BY <2>1, <2>2
<1> QED
  BY <1>3, <1>7, <1>9, <1>10
-----------------------------------------------------------------------------
(* Pages that overlap, and threads that keep their place.                  *)

PlacesAreNumbers == \A k \in Keys : Position(k) \in Nat

(* A position is a number.                                                 *)
LEMMA PlaceType == TypeInv /\ InboxInv => PlacesAreNumbers
BY ListingOrder DEF PlacesAreNumbers

(* A page repeats no key of the pages before unless a thread was pushed    *)
(* back; only an activity pushes.                                          *)
LEMMA DistinctStep ==
  ASSUME TypeInv, InboxInv, PhaseInv, DistinctInv, TypeInv', InboxInv', PhaseInv', [Next]_vars
  PROVE  DistinctInv'
<1>1. CASE FetchPage /\ Line = fetched /\ Line' = fetched \o Raw
  <2> SUFFICES ASSUME ~pushed PROVE DistinctInv'
    BY <1>1 DEF FetchPage, DistinctInv, ghosts
  <2>1. /\ Raw \in Seq(Found) /\ fetched \in Seq(Found)
        /\ \A i \in 1..Len(Raw) : /\ Position(Raw[i].key) = (page - 1) * PerPage + i
                                  /\ Position(Raw[i].key) <= page * PerPage
    BY PageOfListing DEF TypeInv
  <2>2. /\ (page - 1) * PerPage \in Nat /\ page * PerPage \in Nat
        /\ page * PerPage >= (page - 1) * PerPage
    BY PageBounds
  <2>3. /\ fetched' = fetched \o Raw /\ inbox' = inbox /\ pc = "fetch"
        /\ (page' - 1) * PerPage = page * PerPage /\ \A k \in Keys : Position(k)' = Position(k)
    <3>1. inbox' = inbox /\ page' = page + 1 /\ page \in Nat
      BY <1>1 DEF FetchPage, TypeInv
    <3>2. page' - 1 = page
      BY <3>1
    <3> QED
      BY <1>1, <3>1, <3>2 DEF FetchPage, Position, Listed, LatestFirst
  <2> DEFINE n == Len(fetched)
             m == Len(Raw)
             low == (page - 1) * PerPage
             high == page * PerPage
  <2>4. /\ n \in Nat /\ m \in Nat
        /\ DOMAIN Line = 1..n /\ DOMAIN Line' = 1..(n + m) /\ DOMAIN fetched' = 1..(n + m)
        /\ \A i \in 1..n : Line'[i] = Line[i] /\ fetched'[i] = fetched[i] /\ Line[i] = fetched[i]
        /\ \A i \in 1..(n + m) : i \notin 1..n =>
             i - n \in 1..m /\ Line'[i] = Raw[i - n] /\ fetched'[i] = Raw[i - n]
    BY <1>1, <2>1, <2>3
  <2>5. /\ \A i \in 1..n : Position(fetched[i].key) <= low /\ fetched[i] \in Found
        /\ \A i, j \in 1..n : Line[i].key = Line[j].key => i = j
    <3>1. \A i \in 1..n : fetched[i] \in Found
      BY <2>1
    <3>2. \A i, j \in 1..n : Line[i].key = Line[j].key => i = j
      BY <2>4 DEF DistinctInv
    <3>3. \A i \in 1..n : Position(fetched[i].key) <= low
      BY <2>1, <2>3 DEF DistinctInv
    <3> QED
      BY <3>1, <3>2, <3>3
  <2>6. \A f \in Found : f.key \in Keys /\ Position(f.key) \in Nat
    BY ListingOrder DEF Found
  <2> HIDE DEF n, m, low, high
  <2>7. ASSUME NEW i \in 1..(n + m), NEW j \in 1..(n + m), Line'[i].key = Line'[j].key
        PROVE  i = j
    <3>1. CASE i \in 1..n /\ j \in 1..n
      BY <2>4, <2>5, <2>7, <3>1
    <3>2. \A h \in 1..n, g \in 1..m : fetched[h].key # Raw[g].key
      <4> SUFFICES ASSUME NEW h \in 1..n, NEW g \in 1..m, fetched[h].key = Raw[g].key PROVE FALSE
        OBVIOUS
      <4>1. Position(fetched[h].key) <= low /\ Position(fetched[h].key) = low + g
        BY <2>1, <2>5 DEF low, m
      <4>2. low \in Nat
        BY <2>2 DEF low
      <4> QED
        BY <4>1, <4>2
    <3>3. CASE i \notin 1..n /\ j \notin 1..n
      <4>1. /\ i - n \in 1..m /\ Line'[i] = Raw[i - n]
            /\ j - n \in 1..m /\ Line'[j] = Raw[j - n]
        BY <2>4, <3>3
      <4>2. low + (i - n) = low + (j - n)
        BY <2>1, <2>7, <4>1 DEF low, m
      <4> QED
        BY <2>2, <2>4, <4>1, <4>2 DEF low
    <3>4. CASE i \in 1..n /\ j \notin 1..n
      BY <2>4, <2>7, <3>2, <3>4
    <3>5. CASE i \notin 1..n /\ j \in 1..n
      BY <2>4, <2>7, <3>2, <3>5
    <3> QED
      BY <3>1, <3>3, <3>4, <3>5
  <2>8. ASSUME NEW i \in 1..(n + m)
        PROVE  Position(fetched'[i].key) <= high /\ fetched'[i] \in Found
    <3>1. CASE i \in 1..n
      <4>1. fetched'[i] = fetched[i] /\ Position(fetched[i].key) <= low
            /\ Position(fetched[i].key) \in Nat /\ fetched[i] \in Found
        BY <2>4, <2>5, <2>6, <3>1
      <4> QED
        BY <2>2, <4>1 DEF low, high
    <3>2. CASE i \notin 1..n
      <4>1. i - n \in 1..m /\ fetched'[i] = Raw[i - n]
        BY <2>4, <3>2
      <4> QED
        BY <2>1, <4>1 DEF high, m
    <3> QED
      BY <3>1, <3>2
  <2>9. \A i \in DOMAIN fetched' : (Position(fetched[i].key))' <= (page' - 1) * PerPage
    <3> SUFFICES ASSUME NEW i \in 1..(n + m)
                 PROVE  (Position(fetched[i].key))' <= (page' - 1) * PerPage
      BY <2>4
    <3>1. fetched'[i].key \in Keys
      BY <2>6, <2>8
    <3>2. (Position(fetched[i].key))' = Position(fetched'[i].key)
      BY <2>3 DEF Position, Listed, LatestFirst
    <3> QED
      BY <2>3, <2>8, <3>2 DEF high
  <2> QED
    BY <2>4, <2>7, <2>9 DEF DistinctInv
<1>2. CASE Line' = <<>> /\ pc' # "fetch"
  BY <1>2 DEF DistinctInv
<1>3. CASE (FetchFails \/ SaveAndDispatch) /\ Line' = <<>>
  BY <1>2, <1>3 DEF FetchFails, SaveAndDispatch
<1>4. CASE StartFetch /\ Line' = Line /\ Line = <<>>
  <2>1. fetched' = <<>>
    BY <1>4 DEF StartFetch, PhaseInv
  <2> QED
    BY <1>4, <2>1 DEF DistinctInv
<1>5. ASSUME Line' = Line, pushed' = pushed, pc' # "fetch" PROVE DistinctInv'
  BY <1>5 DEF DistinctInv
<1>6. ASSUME Line' = Line, UNCHANGED <<pushed, pc, fetched, page>>,
             \A k \in Keys : Position(k)' <= Position(k)
      PROVE  DistinctInv'
  <2>1. ASSUME pc = "fetch", ~pushed, NEW i \in DOMAIN fetched
        PROVE  (Position(fetched[i].key))' <= (page - 1) * PerPage
    <3>1. fetched[i] \in Found /\ Position(fetched[i].key) <= (page - 1) * PerPage
      BY <2>1 DEF DistinctInv, TypeInv
    <3>2. PICK k \in Keys : k = fetched[i].key
      BY <3>1 DEF Found
    <3>3. (Position(fetched[i].key))' = Position(k)'
      BY <1>6, <3>2 DEF Position
    <3>4. Position(k)' <= Position(k) /\ Position(k) \in Nat /\ Position(k)' \in Nat
      <4>1. PlacesAreNumbers /\ PlacesAreNumbers'
        BY PlaceType, PTL
      <4>2. Position(k) \in Nat /\ Position(k)' \in Nat
        BY <3>2, <4>1 DEF PlacesAreNumbers
      <4> QED
        BY <1>6, <3>2, <4>2
    <3>5. (page - 1) * PerPage \in Nat
      BY PageBounds
    <3> QED
      BY <3>1, <3>2, <3>3, <3>4, <3>5
  <2> QED
    BY <1>6, <2>1 DEF DistinctInv
<1>7. CASE Line' = Line /\ db' = db /\ told' = told /\ repeats' = repeats
  <2>0. \A k \in Keys : Position(k) \in Nat
    BY ListingOrder
  <2>1. ASSUME inbox' = inbox PROVE \A k \in Keys : Position(k)' <= Position(k)
    <3>1. \A k \in Keys : Position(k)' = Position(k)
      BY <2>1 DEF Position, Listed, LatestFirst
    <3> QED
      BY <2>0, <3>1
  <2>2. ASSUME NEW k \in Keys, NewActivity(k) PROVE DistinctInv'
    <3>1. CASE pc = "fetch" /\ page > 1
      BY <2>2, <3>1, <1>7 DEF NewActivity, DistinctInv
    <3>2. CASE pc = "fetch" /\ ~(page > 1)
      <4>1. fetched' = <<>> /\ pushed' = pushed
        BY <2>2, <3>2 DEF NewActivity, PhaseInv, TypeInv, cycleVars
      <4> QED
        BY <1>7, <4>1 DEF DistinctInv
    <3>3. CASE pc # "fetch"
      BY <1>5, <1>7, <2>2, <3>3 DEF NewActivity, cycleVars, TypeInv
    <3> QED
      BY <3>1, <3>2, <3>3
  <2>3. ASSUME NEW k \in Keys, DoneElsewhere(k) \/ ReadElsewhere(k) PROVE DistinctInv'
    <3>1. Departs(k) \/ IsRead(k)
      BY <2>3, RemovedDeparts, ReadElsewhereReads DEF DoneElsewhere
    <3>2. \A j \in Keys : Position(j)' <= Position(j)
      BY <3>1, LeavingPullsUp
    <3> QED
      BY <1>6, <1>7, <2>3, <3>2 DEF DoneElsewhere, ReadElsewhere, cycleVars
  <2>4. CASE EndFetch
    BY <1>5, <1>7, <2>4 DEF EndFetch
  <2>5. ASSUME attempt > 0, pc' = pc, pushed' = pushed PROVE DistinctInv'
    BY <1>5, <1>7, <2>5 DEF PhaseInv, TypeInv
  <2>6. CASE DeleteReturns \/ DeleteThrottled \/ \E lost \in BOOLEAN : DeleteRaises(lost)
    <3>1. attempt \in Nat
      BY DEF TypeInv
    <3> QED
      BY <2>5, <2>6, <3>1 DEF DeleteReturns, DeleteThrottled, DeleteRaises, ghosts
  <2>7. CASE \E dismiss \in BOOLEAN : Process(dismiss)
    BY <1>5, <1>7, <2>7 DEF Process, ghosts
  <2>8. CASE UNCHANGED vars
    BY <1>6, <1>7, <2>1, <2>8 DEF vars, cycleVars, ghosts
  <2>9. CASE StartFetch
    <3>1. fetched' = <<>> /\ records' = <<>>
      BY <2>9 DEF StartFetch, PhaseInv
    <3>2. (TypeInv => (records = <<>> => Line = fetched))'
      BY LineType, PTL
    <3> QED
      BY <3>1, <3>2 DEF DistinctInv
  <2>10. CASE FetchPage
    <3>1. Line = fetched
      BY <2>10, LineType DEF FetchPage, PhaseInv
    <3>2. (TypeInv => (records = <<>> => Line = fetched))'
      BY LineType, PTL
    <3>3. Line' = fetched'
      BY <2>10, <3>2 DEF FetchPage, PhaseInv
    <3> QED
      BY <1>1, <2>10, <3>1, <3>3 DEF FetchPage
  <2>11. CASE FetchFails \/ SaveAndDispatch
    BY <1>5, <1>7, <2>11 DEF FetchFails, SaveAndDispatch
  <2> QED
    BY <2>2, <2>3, <2>4, <2>6, <2>7, <2>8, <2>9, <2>10, <2>11 DEF Next, Poller, GitHub
<1> QED
  BY <1>1, <1>3, <1>4, <1>7, LineStep

(* A thread leaves its place only by its own activity or when one ahead of *)
(* it leaves; a page brings every thread of its positions.                 *)
LEMMA SteadyStep ==
  ASSUME TypeInv, InboxInv, PhaseInv, SteadyInv, TypeInv', InboxInv', PhaseInv', [Next]_vars
  PROVE  SteadyInv'
<1>0. PlacesAreNumbers /\ PlacesAreNumbers'
  BY PlaceType, PTL
<1>1. CASE pc' # "fetch"
  BY <1>1 DEF SteadyInv
<1>2. CASE StartFetch
  <2>1. inbox' = inbox /\ page' = 1 /\ steady' = Listed
    BY <1>2 DEF StartFetch, PhaseInv
  <2>2. Listed' = Listed
    BY <2>1 DEF Listed
  <2>3. ASSUME NEW k \in Listed PROVE Position(k)' > (page' - 1) * PerPage
    <3>1. (page' - 1) * PerPage = 0
      BY <2>1, PageBounds
    <3>2. k \in Keys /\ Position(k) \in Nat /\ Position(k) > 0
      BY ListingOrder DEF Listed
    <3>3. Position(k)' = Position(k)
      BY <2>1 DEF Position, Listed, LatestFirst
    <3> QED
      BY <3>1, <3>2, <3>3
  <2> QED
    BY <2>1, <2>2, <2>3 DEF SteadyInv
<1>3. CASE FetchPage
  <2>1. /\ inbox' = inbox /\ steady' = steady /\ pc = "fetch" /\ page' = page + 1
        /\ fetched' = fetched \o Raw
    BY <1>3 DEF FetchPage, ghosts
  <2>2. Listed' = Listed
    BY <2>1 DEF Listed
  <2>3. (page' - 1) * PerPage = page * PerPage /\ page * PerPage \in Nat
    <3>1. page' - 1 = page
      BY <2>1 DEF TypeInv
    <3> QED
      BY <3>1, PageBounds
  <2>4. Raw \in Seq(Found) /\ fetched \in Seq(Found)
    BY PageOfListing DEF TypeInv
  <2>5. /\ DOMAIN fetched = 1..Len(fetched) /\ Len(fetched) \in Nat /\ Len(Raw) \in Nat
        /\ DOMAIN fetched' = 1..(Len(fetched) + Len(Raw))
        /\ \A i \in 1..Len(fetched) : fetched'[i] = fetched[i]
        /\ \A i \in 1..Len(Raw) : fetched'[Len(fetched) + i] = Raw[i]
    BY <2>1, <2>4
  <2>6. ASSUME NEW k \in steady
        PROVE  k \in Listed /\ (k \in Collected' \/ Position(k)' > (page' - 1) * PerPage)
    <3>1. k \in Listed /\ k \in Keys /\ (k \in Collected \/ Position(k) > (page - 1) * PerPage)
      BY <2>1 DEF SteadyInv, Listed
    <3>2. Position(k)' = Position(k) /\ Position(k) \in Nat
      BY <2>1, <3>1, <1>0 DEF Position, Listed, LatestFirst, PlacesAreNumbers
    <3>3. CASE k \in Collected
      <4>1. PICK i \in 1..Len(fetched) : fetched[i].key = k
        BY <2>5, <3>3 DEF Collected
      <4>2. i \in DOMAIN fetched' /\ fetched'[i].key = k
        BY <2>5, <4>1
      <4> QED
        BY <3>1, <4>2 DEF Collected
    <3>4. CASE Position(k) > (page - 1) * PerPage /\ Position(k) <= page * PerPage
      <4>1. PICK i \in 1..Len(Raw) : Raw[i].key = k
        BY <3>1, <3>4, PageOfListing
      <4>2. Len(fetched) + i \in DOMAIN fetched' /\ fetched'[Len(fetched) + i].key = k
        BY <2>5, <4>1
      <4> QED
        BY <3>1, <4>2 DEF Collected
    <3>5. CASE ~(Position(k) <= page * PerPage)
      BY <2>3, <3>1, <3>2, <3>5
    <3> QED
      BY <3>1, <3>3, <3>4, <3>5
  <2> QED
    BY <2>1, <2>2, <2>6 DEF SteadyInv
<1>4. ASSUME UNCHANGED <<pc, page, fetched>>, pc = "fetch", steady' \subseteq steady,
             \A k \in steady' : k \in Listed' /\ (k \in Listed => Position(k)' >= Position(k))
      PROVE  SteadyInv'
  <2> SUFFICES ASSUME NEW k \in steady'
               PROVE  k \in Listed' /\ (k \in Collected' \/ Position(k)' > (page' - 1) * PerPage)
    BY DEF SteadyInv
  <2>1. /\ k \in Listed /\ k \in Keys
        /\ k \in Collected \/ Position(k) > (page - 1) * PerPage
    BY <1>4 DEF SteadyInv, Listed
  <2>2. Collected' = Collected
    BY <1>4 DEF Collected
  <2>3. Position(k) \in Nat /\ Position(k)' \in Nat /\ (page - 1) * PerPage \in Nat
    BY <1>0, <2>1, PageBounds DEF PlacesAreNumbers
  <2>4. Position(k)' >= Position(k) /\ k \in Listed'
    BY <1>4, <2>1
  <2> QED
    BY <1>4, <2>1, <2>2, <2>3, <2>4
<1>5. ASSUME NEW k \in Keys, NewActivity(k), pc = "fetch" PROVE SteadyInv'
  <2>1. Arrives(k)
    <3>1. 1..MaxActivity \subseteq Nat
      BY IngestionAssumption
    <3> QED
      BY <1>5, <3>1 DEF NewActivity, Arrives
  <2>2. Listed' = Listed \cup {k} /\ \A j \in Listed : j # k => Position(j)' >= Position(j)
    BY <2>1, ArrivingPushesBack
  <2>3. \A j \in steady : j \in Listed
    BY <1>5 DEF SteadyInv
  <2> QED
    BY <1>4, <1>5, <2>2, <2>3 DEF NewActivity, cycleVars
<1>6. ASSUME NEW k \in Keys, Departs(k) \/ IsRead(k), pc = "fetch",
             UNCHANGED <<pc, page, fetched>>,
             \/ steady' = steady \ Left(k)
             \/ steady' = steady /\ k \in Listed'
      PROVE  SteadyInv'
  <2>1. /\ \A j \in Listed : j # k => j \in Listed'
        /\ k \in Listed' \/ k \notin Listed => \A j \in Keys : Position(j)' = Position(j)
        /\ \A j \in Listed : j \notin Left(k) => j \in Listed' /\ Position(j)' = Position(j)
    BY <1>6, LeavingPullsUp
  <2>2. \A j \in steady : j \in Listed /\ j \in Keys /\ Position(j) \in Nat
    BY <1>0, <1>6 DEF SteadyInv, Listed, PlacesAreNumbers
  <2>3. CASE steady' = steady \ Left(k)
    BY <1>4, <1>6, <2>1, <2>2, <2>3
  <2>4. CASE steady' = steady /\ k \in Listed'
    <3>1. \A j \in steady : j \in Listed' /\ Position(j)' >= Position(j)
      BY <2>1, <2>2, <2>4
    <3> QED
      BY <1>4, <1>6, <2>4, <3>1
  <2> QED
    BY <1>6, <2>3, <2>4
<1>7. ASSUME NEW k \in Keys, DoneElsewhere(k), pc = "fetch" PROVE SteadyInv'
  BY <1>6, <1>7, RemovedDeparts DEF DoneElsewhere, cycleVars
<1>8. ASSUME NEW k \in Keys, ReadElsewhere(k), pc = "fetch" PROVE SteadyInv'
  <2>1. IsRead(k)
    BY <1>8, ReadElsewhereReads
  <2>2. CASE PollAll
    <3>1. k \in Listed'
      <4>1. inbox'[k].listed
        BY <2>1 DEF IsRead, TypeInv
      <4> QED
        BY <2>2, <4>1 DEF Listed
    <3> QED
      BY <1>6, <1>8, <2>1, <2>2, <3>1 DEF ReadElsewhere, cycleVars
  <2>3. CASE ~PollAll
    BY <1>6, <1>8, <2>1, <2>3 DEF ReadElsewhere, cycleVars
  <2> QED
    BY <2>2, <2>3
<1>9. CASE EndFetch \/ FetchFails \/ SaveAndDispatch
  BY <1>1, <1>9 DEF EndFetch, FetchFails, SaveAndDispatch
<1>10. ASSUME attempt > 0, pc' = pc PROVE SteadyInv'
  BY <1>1, <1>10 DEF PhaseInv, TypeInv
<1>11. CASE DeleteReturns \/ DeleteThrottled \/ \E lost \in BOOLEAN : DeleteRaises(lost)
  <2>1. attempt \in Nat
    BY DEF TypeInv
  <2> QED
    BY <1>10, <1>11, <2>1 DEF DeleteReturns, DeleteThrottled, DeleteRaises, ghosts
<1>12. CASE \E dismiss \in BOOLEAN : Process(dismiss)
  BY <1>1, <1>12 DEF Process
<1>13. CASE UNCHANGED vars /\ pc = "fetch"
  <2>1. \A k \in steady : k \in Listed /\ k \in Keys /\ Position(k) \in Nat
    BY <1>0, <1>13 DEF SteadyInv, Listed, PlacesAreNumbers
  <2>2. inbox' = inbox /\ steady' = steady /\ UNCHANGED <<pc, page, fetched>>
    BY <1>13 DEF vars, cycleVars, ghosts
  <2>3. Listed' = Listed /\ \A k \in Keys : Position(k)' = Position(k)
    BY <2>2 DEF Position, Listed, LatestFirst
  <2>4. \A k \in steady' : k \in Listed' /\ Position(k)' >= Position(k)
    BY <2>1, <2>2, <2>3
  <2> QED
    BY <1>4, <1>13, <2>2, <2>4
<1>14. ASSUME pc' = pc \/ pc = "fetch" PROVE pc = "fetch" \/ SteadyInv'
  BY <1>1, <1>14
<1> QED
  <2>1. CASE \E k \in Keys : NewActivity(k) \/ DoneElsewhere(k) \/ ReadElsewhere(k)
    BY <2>1, <1>5, <1>7, <1>8, <1>14 DEF NewActivity, DoneElsewhere, ReadElsewhere, cycleVars
  <2>2. CASE UNCHANGED vars
    BY <2>2, <1>13, <1>14 DEF vars, cycleVars
  <2> QED
    BY <1>2, <1>3, <1>9, <1>11, <1>12, <2>1, <2>2 DEF Next, Poller, GitHub

-----------------------------------------------------------------------------
(* Repeats.                                                                *)

(* Two announcements of one activity in a cycle are two notifications of   *)
(* one key; one of an earlier cycle is stored, so its row is not announced *)
(* again.                                                                  *)
LEMMA RepeatsStep ==
  ASSUME ~IncludeRead, TypeInv, InboxInv, PhaseInv, AgeInv, ToldInv, DistinctInv,
         RepeatsOnlyIfPushed, [Next]_vars
  PROVE  RepeatsOnlyIfPushed'
<1>1. ASSUME repeats' = repeats, pushed => pushed' PROVE RepeatsOnlyIfPushed'
  BY <1>1 DEF RepeatsOnlyIfPushed
<1>2. CASE StartFetch
  BY <1>2 DEF StartFetch, RepeatsOnlyIfPushed
<1>3. CASE SaveAndDispatch
  <2>1. pushed' = pushed /\ repeats' = Repeats /\ fetched = <<>>
    BY <1>3 DEF SaveAndDispatch
  <2>2. ASSUME ~pushed, NEW i \in Events, Activity(i) \in told PROVE FALSE
    <3> DEFINE k == records[i].key
               r == records[i].row
    <3>1. i \in DOMAIN records /\ Announced(db[k], r)
      BY DEF Events
    <3>2. /\ i \in DOMAIN Line /\ Line[i].key = k /\ Line[i].ver = r.ver
          /\ Line[i].unread = r.unread
      BY <3>1, LineOfRecords
    <3>3. db[k] # NoRow /\ db[k].ver >= r.ver
      BY <2>2 DEF ToldInv, Activity
    <3>4. NotOlder(Line[i], db[k])
      BY <3>2, <3>3 DEF AgeInv
    <3>5. r.ver \in Nat /\ db[k].ver \in Nat
      <4>1. records[i] \in Made
        BY <3>1 DEF TypeInv
      <4>2. k \in Keys /\ r \in Row
        BY <4>1 DEF Made
      <4>3. db[k] \in Row
        BY <3>3, <4>2 DEF TypeInv
      <4> QED
        BY <4>2, <4>3 DEF Row
    <3> HIDE DEF k, r
    <3>6. r.unread /\ ~db[k].unread
      BY <3>1, <3>3 DEF Announced
    <3> QED
      BY <3>2, <3>3, <3>4, <3>5, <3>6 DEF NotOlder
  <2>3. ASSUME ~pushed, NEW i \in Events, NEW j \in Events, j # i, Activity(j) = Activity(i)
        PROVE  FALSE
    <3>1. i \in DOMAIN records /\ j \in DOMAIN records /\ records[i].key = records[j].key
      BY <2>3 DEF Events, Activity
    <3>2. i \in DOMAIN Line /\ j \in DOMAIN Line
      BY <3>1, LineOfRecords
    <3>3. Line[i].key = records[i].key /\ Line[j].key = records[j].key
      BY <3>1, LineOfRecords
    <3> QED
      BY <2>3, <3>1, <3>2, <3>3 DEF DistinctInv
  <2> QED
    BY <2>1, <2>2, <2>3 DEF RepeatsOnlyIfPushed, Repeats
<1>4. ASSUME NEW k \in Keys, NewActivity(k) \/ DoneElsewhere(k) \/ ReadElsewhere(k)
      PROVE  RepeatsOnlyIfPushed'
  BY <1>1, <1>4 DEF NewActivity, DoneElsewhere, ReadElsewhere
<1>5. CASE FetchPage \/ EndFetch \/ FetchFails \/ DeleteReturns \/ DeleteThrottled
           \/ (\E lost \in BOOLEAN : DeleteRaises(lost)) \/ \E dismiss \in BOOLEAN : Process(dismiss)
  BY <1>1, <1>5 DEF FetchPage, EndFetch, FetchFails, DeleteReturns, DeleteThrottled, DeleteRaises,
                    Process, ghosts
<1>6. CASE UNCHANGED vars
  BY <1>1, <1>6 DEF vars, ghosts
<1> QED
  BY <1>2, <1>3, <1>4, <1>5, <1>6 DEF Next, Poller, GitHub

-----------------------------------------------------------------------------

(* The inductive invariant.                                                *)
IngestionInv == TypeInv /\ InboxInv /\ PhaseInv /\ AgeInv /\ ToldInv /\ DistinctInv
                /\ DeletedInv /\ SteadyInv

(* It holds initially.                                                     *)
LEMMA InvInit == Init => IngestionInv /\ RepeatsOnlyIfPushed
<1> SUFFICES ASSUME Init PROVE IngestionInv /\ RepeatsOnlyIfPushed
  OBVIOUS
<1>1. TypeInv /\ InboxInv /\ PhaseInv
  BY InitTypes
<1>2. Line = <<>>
  BY <1>1, LineType DEF Init
<1>3. \A k \in Keys : db[k] = NoRow
  BY DEF Init
<1>4. AgeInv
  BY <1>2, <1>3 DEF AgeInv
<1>5. ToldInv /\ DistinctInv /\ DeletedInv /\ SteadyInv /\ RepeatsOnlyIfPushed
  BY <1>2, <1>3 DEF Init, ToldInv, DistinctInv, DeletedInv, DismissedWasDeleted, SteadyInv,
                    RepeatsOnlyIfPushed
<1> QED
  BY <1>1, <1>4, <1>5 DEF IngestionInv

(* Every step keeps it.                                                    *)
LEMMA InvStep == IngestionInv /\ [Next]_vars => IngestionInv'
<1> SUFFICES ASSUME IngestionInv, [Next]_vars PROVE IngestionInv'
  OBVIOUS
<1> USE DEF IngestionInv
<1>1. TypeInv' /\ PhaseInv'
  BY TypeStep
<1>2. InboxInv'
  BY InboxChanges, InboxStep
<1>3. AgeInv'
  BY <1>1, <1>2, AgeStep
<1>4. ToldInv'
  BY <1>1, ToldStep
<1>5. DistinctInv'
  BY <1>1, <1>2, DistinctStep
<1>6. DeletedInv'
  BY <1>1, DeletedStep
<1>7. SteadyInv'
  BY <1>1, <1>2, SteadyStep
<1> QED
  BY <1>1, <1>2, <1>3, <1>4, <1>5, <1>6, <1>7

(* Every state the poller and GitHub reach is one of these (ingestion.py,  *)
(* fetch_notifications and the writes of a cycle).                         *)
THEOREM IngestionInvariant == Spec => []IngestionInv
<1>1. Init => IngestionInv
  BY InvInit
<1> QED
  BY <1>1, InvStep, PTL DEF Spec

(* A row that says it was dismissed stands for a DELETE that GitHub        *)
(* acknowledged, for every number of threads, attempts and throttled       *)
(* answers (_request_no_content_with_backoff, save_records).               *)
THEOREM DismissedWasDeletedHolds == Spec => []DismissedWasDeleted
<1>1. IngestionInv => DismissedWasDeleted
  BY DEF IngestionInv, DeletedInv
<1> QED
  BY <1>1, IngestionInvariant, PTL

(* A poller that announces only unread rows announces an activity twice    *)
(* only in a cycle whose pages overlapped because new activity pushed the  *)
(* list, for every page size (fetch_notifications,                         *)
(* detect_new_unread_events).                                              *)
THEOREM RepeatsOnlyIfPushedHolds ==
  ASSUME ~IncludeRead
  PROVE  Spec => []RepeatsOnlyIfPushed
<1>1. Init => RepeatsOnlyIfPushed
  BY InvInit
<1>2. IngestionInv /\ RepeatsOnlyIfPushed /\ [Next]_vars => RepeatsOnlyIfPushed'
  BY RepeatsStep DEF IngestionInv
<1> QED
  BY <1>1, <1>2, IngestionInvariant, PTL DEF Spec

(* A thread that kept its place, or was only pushed back, and is within    *)
(* reach of the pages is fetched, for every page size and every way the    *)
(* list moves meanwhile (fetch_notifications).                             *)
THEOREM SteadyThreadsAreFetchedHolds == Spec => SteadyThreadsAreFetched
<1>1. ASSUME IngestionInv, EndFetch, NEW k \in steady, Position(k) <= Reach
      PROVE  k \in Collected
  <2>1. TypeInv /\ InboxInv /\ PhaseInv /\ pc = "fetch"
    BY <1>1 DEF IngestionInv, EndFetch
  <2>2. k \in Listed /\ k \in Keys /\ (k \in Collected \/ Position(k) > (page - 1) * PerPage)
    BY <1>1, <2>1 DEF IngestionInv, SteadyInv, Listed
  <2>3. Position(k) \in Nat /\ (page - 1) * PerPage \in Nat
    BY <2>1, <2>2, PlaceType, PageBounds DEF PlacesAreNumbers
  <2>4. CASE Raw = <<>>
    <3>1. Position(k) <= (page - 1) * PerPage
      BY <2>1, <2>2, <2>4, PageOfListing
    <3> QED
      BY <2>2, <2>3, <3>1
  <2>5. CASE ~WithinCap
    <3>1. \A p, q, m \in Nat \ {0} : p > m => m * q \in Nat /\ q * m = m * q /\ m * q <= (p - 1) * q
      OBVIOUS
    <3>2. /\ page \in Nat \ {0} /\ PerPage \in Nat \ {0} /\ MaxPages \in Nat \ {0}
          /\ page > MaxPages
      <4>1. page \in Nat \ {0} /\ PerPage \in Nat \ {0} /\ MaxPages \in Nat \ {0}
        BY <2>1, IngestionAssumption DEF TypeInv
      <4> QED
        BY <2>5, <4>1 DEF WithinCap
    <3>3. PerPage * MaxPages \in Nat /\ PerPage * MaxPages <= (page - 1) * PerPage
      BY <3>1, <3>2
    <3>4. Position(k) <= (page - 1) * PerPage
      BY <1>1, <2>3, <3>3 DEF Reach
    <3> QED
      BY <2>2, <2>3, <3>4
  <2> QED
    BY <1>1, <2>4, <2>5 DEF EndFetch
<1>2. IngestionInv /\ [Next]_vars =>
        [EndFetch => \A k \in steady : Position(k) <= Reach => k \in Collected]_vars
  BY <1>1
<1> QED
  BY <1>2, IngestionInvariant, PTL DEF Spec, SteadyThreadsAreFetched

-----------------------------------------------------------------------------
(* What the poller_status row means, for every interval, cycle length and  *)
(* number of failures: a check that passes is right, and an undisturbed    *)
(* poller never fails the check.                                           *)
USE WatchAssumption

(* The stored time, and what the error handler carries over, are those of  *)
(* the last completed cycle.                                               *)
KeptIsTrue == mode = "save" => kept.age = success

TruthInv == TypeOK /\ StoredTimeIsTrue /\ KeptIsTrue

(* While nothing has failed: the row's age against where the loop is.      *)
Timely ==
  failures = 0 =>
    /\ dbUp /\ mode \in {"sleep", "cycle"} /\ status.state # "error"
    /\ status.state = "ok" =>
         /\ mode = "sleep" => age <= MaxCycle + Interval - left
         /\ mode = "cycle" => age <= MaxCycle + Interval + elapsed

(* The threshold is a natural number below Cap.                            *)
LEMMA ThresholdType == Threshold \in Nat /\ Threshold < Cap /\ Floor <= Threshold
  BY DEF Threshold, Larger

(* What the error handler keeps when there is nothing to keep.             *)
LEMMA NothingType == Nothing \in [age : 0..Cap, failed : SUBSET Watched]
<1>1. Cap \in 0..Cap /\ {} \in SUBSET Watched
  BY WatchAssumption
<1> QED BY <1>1 DEF Nothing

(* Ageing stays within the cap and never skips a tick.                     *)
LEMMA OlderType ==
  ASSUME NEW a \in 0..Cap
  PROVE  Older(a) \in 0..Cap /\ Older(a) <= a + 1
  BY DEF Older

(* The loop's variables keep their types, and the row stays true, under    *)
(* every step of the loop, the database, the runtime and the clock.        *)
LEMMA TruthStep ==
  ASSUME TruthInv, [WatchNext]_watchVars
  PROVE  TruthInv'
<1> USE DEF TruthInv, TypeOK, StoredTimeIsTrue, KeptIsTrue, Status, watchGhosts
<1>1. CASE Begin
  BY <1>1 DEF Begin
<1>2. ASSUME NEW F \in SUBSET Watched, Complete(F) PROVE TruthInv'
  <2>1. elapsed \in 0..Cap
    BY WatchAssumption
  <2> QED BY <1>2, <2>1 DEF Complete, GoToSleep
<1>3. CASE Raise
  BY <1>3 DEF Raise
<1>4. CASE LoadStatus
  BY <1>4 DEF LoadStatus, Loaded, Nothing
<1>5. CASE SaveError
  BY <1>5 DEF SaveError, GoToSleep, Nothing
<1>6. CASE DbFails
  <2>1. failures' \in 0..MaxFailures
    BY <1>6 DEF DbFails
  <2> QED BY <1>6, <2>1 DEF DbFails
<1>7. CASE DbRecovers
  BY <1>7 DEF DbRecovers
<1>8. CASE Killed
  <2>1. failures' \in 0..MaxFailures
    BY <1>8 DEF Killed
  <2> QED BY <1>8, <2>1, NothingType DEF Killed
<1>9. CASE Restarted
  <2>1. 0 \in 0..Interval /\ 0 \in 0..MaxCycle
    BY WatchAssumption
  <2> QED BY <1>9, <2>1 DEF Restarted
<1>10. CASE Tick
  <2>1. kept.age \in 0..Cap /\ kept.failed \in SUBSET Watched
    OBVIOUS
  <2>2. Older(kept.age) \in 0..Cap /\ Older(age) \in 0..Cap /\ Older(polled) \in 0..Cap
    BY <2>1, OlderType
  <2>3. kept' = [age |-> Older(kept.age), failed |-> kept.failed]
    BY <1>10 DEF Tick
  <2>4. left' \in 0..Interval /\ elapsed' \in 0..MaxCycle
    BY <1>10 DEF Tick
  <2>5. /\ age' = Older(age) /\ success' = Older(success) /\ polled' = Older(polled)
        /\ UNCHANGED <<mode, dbUp, status, failures, crashed>>
    BY <1>10 DEF Tick
  <2>6. TypeOK'
    BY <2>1, <2>2, <2>3, <2>4, <2>5
  <2> QED BY <2>3, <2>5, <2>6
<1>11. CASE UNCHANGED watchVars
  BY <1>11 DEF watchVars
<1> QED BY <1>1, <1>2, <1>3, <1>4, <1>5, <1>6, <1>7, <1>8, <1>9, <1>10, <1>11
        DEF WatchNext, Loop
(* The row's age stays in step with an undisturbed loop.                   *)
LEMMA TimelyStep ==
  ASSUME TypeOK, Timely, [WatchNext]_watchVars
  PROVE  Timely'
<1> SUFFICES ASSUME failures' = 0 PROVE Timely'
  BY DEF Timely
<1>0. failures = 0 /\ failures \in Nat
  <2>1. failures' = failures \/ failures' = failures + 1
    BY DEF WatchNext, Loop, Begin, Complete, Raise, LoadStatus, Loaded, SaveError, GoToSleep,
           DbFails, DbRecovers, Killed, Restarted, Tick, watchVars
  <2> QED BY <2>1 DEF TypeOK
<1>c. /\ dbUp /\ mode \in {"sleep", "cycle"} /\ status.state # "error"
      /\ status.state = "ok" =>
           /\ mode = "sleep" => age <= MaxCycle + Interval - left
           /\ mode = "cycle" => age <= MaxCycle + Interval + elapsed
  BY <1>0 DEF Timely
<1>t. /\ left \in 0..Interval /\ elapsed \in 0..MaxCycle /\ age \in 0..Cap
      /\ status \in Status
  BY DEF TypeOK
<1>1. CASE Begin
  BY <1>1, <1>c, <1>t DEF Begin, Timely
<1>2. ASSUME NEW F \in SUBSET Watched, Complete(F) PROVE Timely'
  BY <1>2, <1>c, <1>t DEF Complete, GoToSleep, Timely
<1>3. CASE Raise
  BY <1>3, <1>0, <1>c DEF Raise
<1>4. CASE LoadStatus \/ SaveError \/ Restarted
  BY <1>4, <1>c DEF LoadStatus, Loaded, SaveError, Restarted
<1>5. CASE DbFails \/ Killed
  BY <1>5, <1>0 DEF DbFails, Killed
<1>6. CASE DbRecovers
  BY <1>6, <1>c DEF DbRecovers
<1>7. CASE Tick
  <2>1. age' \in 0..Cap /\ age' <= age + 1
    BY <1>7, <1>t, OlderType DEF Tick
  <2>2. CASE mode = "sleep"
    BY <2>1, <2>2, <1>7, <1>c, <1>t DEF Tick, Timely
  <2>3. CASE mode = "cycle"
    BY <2>1, <2>3, <1>7, <1>c, <1>t DEF Tick, Timely
  <2> QED BY <2>2, <2>3, <1>c
<1>8. CASE UNCHANGED watchVars
  BY <1>8, <1>c DEF watchVars, Timely
<1> QED BY <1>1, <1>2, <1>3, <1>4, <1>5, <1>6, <1>7, <1>8 DEF WatchNext, Loop

-----------------------------------------------------------------------------
(* The inductive invariant holds in every reachable state.                 *)
THEOREM PollerInvariance == WatchSpec => [](TruthInv /\ Timely)
<1>1. WatchInit => TruthInv /\ Timely
  <2>1. WatchInit => TypeOK
    <3>1. Cap \in 0..Cap /\ 0 \in 0..Interval /\ 0 \in 0..MaxCycle /\ 0 \in 0..MaxFailures
      BY WatchAssumption
    <3>2. [state |-> "unknown", failed |-> {}] \in Status
      BY DEF Status
    <3> QED BY <3>1, <3>2, NothingType DEF WatchInit, TypeOK
  <2>2. WatchInit => StoredTimeIsTrue /\ KeptIsTrue /\ Timely
    BY DEF WatchInit, StoredTimeIsTrue, KeptIsTrue, Timely
  <2> QED BY <2>1, <2>2 DEF TruthInv
<1>2. TruthInv /\ Timely /\ [WatchNext]_watchVars => (TruthInv /\ Timely)'
  BY TruthStep, TimelyStep DEF TruthInv
<1> QED BY <1>1, <1>2, PTL DEF WatchSpec

(* The loop, the stored row and the clock are well typed.                  *)
THEOREM PollerTypeCorrect == WatchSpec => []TypeOK
<1>1. TruthInv => TypeOK
  BY DEF TruthInv
<1> QED BY <1>1, PollerInvariance, PTL

(* Every row stored carries the start of the last completed cycle, also    *)
(* the rows _handle_cycle_error writes.                                    *)
THEOREM StoredTimes == WatchSpec => []StoredTimeIsTrue
<1>1. TruthInv => StoredTimeIsTrue
  BY DEF TruthInv
<1> QED BY <1>1, PollerInvariance, PTL

(* A health check that passes does so because a cycle that started within  *)
(* its limit completed.                                                    *)
THEOREM HealthIsSound == WatchSpec => []HealthyMeansCompleted
<1>1. TruthInv => HealthyMeansCompleted
  BY DEF TruthInv, StoredTimeIsTrue, HealthyMeansCompleted, CliHealthy, WebHealthy
<1> QED BY <1>1, PollerInvariance, PTL

(* poller-health raises no false alarm when two cycles and an interval fit *)
(* in its threshold.                                                       *)
THEOREM NoAlarm ==
  ASSUME 2 * MaxCycle + Interval <= Threshold
  PROVE  WatchSpec => []NoFalseAlarm
<1>1. TruthInv /\ Timely => NoFalseAlarm
  BY ThresholdType DEF TruthInv, TypeOK, Timely, NoFalseAlarm, CliHealthy
<1> QED BY <1>1, PollerInvariance, PTL

(* The web check, which compares with five minutes, raises none when they  *)
(* fit in five minutes; the run on the specification's interval shows that *)
(* the condition is needed.                                                *)
THEOREM NoWebAlarm ==
  ASSUME 2 * MaxCycle + Interval <= Floor
  PROVE  WatchSpec => []NoFalseWebAlarm
<1>1. TruthInv /\ Timely => NoFalseWebAlarm
  BY ThresholdType DEF TruthInv, TypeOK, Status, Timely, NoFalseWebAlarm, WebHealthy
<1> QED BY <1>1, PollerInvariance, PTL
=============================================================================
