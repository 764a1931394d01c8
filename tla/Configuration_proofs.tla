------------------------ MODULE Configuration_proofs ------------------------
(***************************************************************************)
(* The configuration file: what its rules and dashboards make of the rows, *)
(* whatever is pasted into it, and how the web process reads it.           *)
(***************************************************************************)
EXTENDS RuleFlow, ConfigCache, Ranking_proofs

-----------------------------------------------------------------------------
(* What a dashboard makes of some rows.                                    *)

LEMMA SortKeyType ==
  ASSUME NEW r \in Row, NEW d \in Dashboard
  PROVE  SortKey(r, d) \in Int
<1>1. r.n \in Notification /\ r.score \in Int
  BY DEF Row
<1>2. /\ r.n.updated_at \in Int /\ r.n.repository \in Int /\ r.n.reason \in Int
      /\ r.n.subject_type \in Int /\ r.n.title \in Int
  BY <1>1, RulesAssumption DEF Notification
<1> QED
  BY <1>1, <1>2 DEF SortKey

(* Sorting by a key, equal keys by place, is an order on the places.       *)
LEMMA BeforeOrders ==
  ASSUME NEW m \in Nat, NEW rows \in [1..m -> Row], NEW d \in Dashboard,
         NEW places \in SUBSET (1..m)
  PROVE  /\ Orders(Before(rows, d), places)
         /\ \A i, j \in 1..m : <<i, j>> \in Before(rows, d) => ~Ahead(rows[j], rows[i], d)
<1> DEFINE key(i) == SortKey(rows[i], d)
           first(i, j) == IF d.descending THEN key(i) > key(j) ELSE key(i) < key(j)
<1>1. \A i \in 1..m : key(i) \in Int
  BY SortKeyType
<1>2. \A i, j \in 1..m : <<i, j>> \in Before(rows, d) <=>
                           first(i, j) \/ (~first(j, i) /\ i < j)
  BY DEF Before, Ahead
<1>3. \A i, j \in 1..m : Ahead(rows[j], rows[i], d) <=> first(j, i)
  BY DEF Ahead
<1> HIDE DEF key
<1>4. \A i \in 1..m : <<i, i>> \notin Before(rows, d)
  BY <1>1, <1>2
<1>5. \A i, j \in 1..m : i # j => <<i, j>> \in Before(rows, d) \/ <<j, i>> \in Before(rows, d)
  BY <1>1, <1>2
<1>6. \A h, i, j \in 1..m :
        <<h, i>> \in Before(rows, d) /\ <<i, j>> \in Before(rows, d) => <<h, j>> \in Before(rows, d)
  <2> TAKE h, i, j \in 1..m
  <2>1. /\ key(h) \in Int /\ key(i) \in Int /\ key(j) \in Int
    BY <1>1
  <2>2. (first(h, i) \/ (~first(i, h) /\ h < i)) /\ (first(i, j) \/ (~first(j, i) /\ i < j))
          => first(h, j) \/ (~first(j, h) /\ h < j)
    BY <2>1
  <2> HIDE DEF first
  <2> QED
    BY <1>2, <2>2
<1>7. \A i, j \in 1..m : <<i, j>> \in Before(rows, d) => ~Ahead(rows[j], rows[i], d)
  BY <1>1, <1>2, <1>3
<1>8. \A i \in places : i \in 1..m
  OBVIOUS
<1> QED
  BY <1>4, <1>5, <1>6, <1>7, <1>8 DEF Orders

(* How many of n rows max_items lets through.                              *)
SizeOf(d, n) == IF d.max_items = 0 \/ d.max_items > n THEN n ELSE d.max_items

(* The rows chosen: the first ones of the selected, in the order.          *)
AreChosen(chosen, rows, selected, size, d) ==
  \E place \in [1..size -> selected] :
    /\ chosen = [p \in 1..size |-> rows[place[p]]]
    /\ \A p, q \in 1..size : place[p] = place[q] => p = q
    /\ \A p, q \in 1..size : p < q => ~Ahead(rows[place[q]], rows[place[p]], d)
    /\ \A i \in selected, p \in 1..size :
         (\A q \in 1..size : place[q] # i) => ~Ahead(rows[i], rows[place[p]], d)

(* _select_records and the cut by max_items choose such rows.              *)
LEMMA ChosenRows ==
  ASSUME NEW m \in Nat, NEW rows \in [1..m -> Row], NEW d \in Dashboard, NEW hour,
         NEW selected, selected = Selected(rows, d, hour),
         NEW size, size = SizeOf(d, Cardinality(selected))
  PROVE  /\ IsFiniteSet(selected) /\ Cardinality(selected) \in Nat /\ size \in Nat
         /\ AreChosen(Chosen(rows, d, hour), rows, selected, size, d)
<1> DEFINE S == Selected(rows, d, hour)
           R == Before(rows, d)
           n == Cardinality(S)
           order == Ranked(S, R)
           place == Cut(order, d)
<1>1. S \in SUBSET (1..m)
  BY DEF Selected
<1>2. IsFiniteSet(S) /\ n \in Nat /\ selected = S /\ size = SizeOf(d, n)
  BY <1>1, PlacesInOrder
<1>3. Orders(R, S) /\ \A i, j \in 1..m : <<i, j>> \in R => ~Ahead(rows[j], rows[i], d)
  BY <1>1, BeforeOrders
<1> HIDE DEF S, R
<1>4. /\ order \in [1..n -> S]
      /\ \A i \in S : order[Cardinality(Preceding(S, R, i)) + 1] = i
      /\ \A p, q \in 1..n : p < q => <<order[p], order[q]>> \in R
  BY <1>2, <1>3, RankedInOrder
<1>5. \A i \in S : Cardinality(Preceding(S, R, i)) + 1 \in 1..n
  <2> TAKE i \in S
  <2>1. Cardinality(Preceding(S, R, i)) \in 0..(n - 1)
    BY <1>2, <1>3, PrecedingBound
  <2> QED
    BY <1>2, <2>1
<1> HIDE DEF order, n
<1>6. \A i \in S : \E p \in 1..n : order[p] = i
  BY <1>4, <1>5
<1>7. d.max_items \in Nat
  BY DEF Dashboard
<1>8. size \in Nat /\ size <= n
  BY <1>2, <1>7 DEF SizeOf
<1>9. place = [p \in 1..size |-> order[p]]
  <2>1. order \in Seq(S) /\ Len(order) = n /\ order = [p \in 1..n |-> order[p]]
    BY <1>2, <1>4
  <2>2. CASE d.max_items = 0 \/ d.max_items >= n
    <3>1. size = n
      BY <1>2, <1>7, <2>2 DEF SizeOf
    <3> QED
      BY <2>1, <2>2, <3>1 DEF Cut
  <2>3. CASE ~(d.max_items = 0 \/ d.max_items >= n)
    <3>1. size = d.max_items /\ size >= 1 /\ size <= n
      BY <1>2, <1>7, <2>3 DEF SizeOf
    <3>2. place = SubSeq(order, 1, size)
      BY <2>1, <2>3, <3>1 DEF Cut
    <3>3. SubSeq(order, 1, size) = [p \in 1..size |-> order[p]]
      BY <1>8, <2>1, <3>1
    <3> QED
      BY <3>2, <3>3
  <2> QED
    BY <2>2, <2>3
<1> HIDE DEF place
<1>10. place \in [1..size -> S] /\ \A p \in 1..size : p \in 1..n /\ place[p] = order[p]
  BY <1>2, <1>4, <1>8, <1>9
<1>11. \A p, q \in 1..n : p < q => order[p] # order[q]
  <2> TAKE p, q \in 1..n
  <2>1. order[p] \in S /\ order[q] \in S
    BY <1>4
  <2> QED
    BY <1>3, <1>4, <2>1 DEF Orders
<1>12. \A p, q \in 1..size : place[p] = place[q] => p = q
  <2> TAKE p, q \in 1..size
  <2>1. p = q \/ p < q \/ q < p
    BY <1>8
  <2> QED
    BY <1>10, <1>11, <2>1
<1>13. \A p, q \in 1..n : p < q => ~Ahead(rows[order[q]], rows[order[p]], d)
  <2> TAKE p, q \in 1..n
  <2>1. order[p] \in 1..m /\ order[q] \in 1..m
    BY <1>1, <1>4
  <2> QED
    BY <1>3, <1>4, <2>1
<1>14. ASSUME NEW i \in S, NEW p \in 1..size, \A q \in 1..size : place[q] # i
       PROVE  ~Ahead(rows[i], rows[place[p]], d)
  <2>1. PICK q \in 1..n : order[q] = i
    BY <1>6
  <2>2. q \notin 1..size
    BY <1>10, <1>14, <2>1
  <2>3. p < q
    BY <1>8, <2>2, <1>2
  <2> QED
    BY <1>10, <1>13, <2>1, <2>3
<1>15. Chosen(rows, d, hour) = [p \in 1..size |-> rows[place[p]]]
  BY <1>10 DEF Chosen, RowsAt, place, order, S, R
<1>16. AreChosen(Chosen(rows, d, hour), rows, S, size, d)
  <2> DEFINE chosen == Chosen(rows, d, hour)
  <2>1. /\ place \in [1..size -> S]
        /\ chosen = [p \in 1..size |-> rows[place[p]]]
        /\ \A p, q \in 1..size : place[p] = place[q] => p = q
        /\ \A p, q \in 1..size : p < q => ~Ahead(rows[place[q]], rows[place[p]], d)
        /\ \A i \in S, p \in 1..size :
             (\A q \in 1..size : place[q] # i) => ~Ahead(rows[i], rows[place[p]], d)
    BY <1>10, <1>12, <1>13, <1>14, <1>15
  <2> HIDE DEF chosen
  <2>2. AreChosen(chosen, rows, S, size, d)
    BY <2>1 DEF AreChosen
  <2> QED
    BY <2>2 DEF chosen
<1>17. IsFiniteSet(selected) /\ Cardinality(selected) \in Nat
  BY <1>2 DEF n
<1> QED
  BY <1>2, <1>8, <1>16, <1>17
-----------------------------------------------------------------------------
(* The groups of some rows.                                                *)

LEMMA GroupKeyType ==
  ASSUME NEW r \in Row, NEW d \in Dashboard
  PROVE  GroupKey(r, d) \in Nat
<1>1. r.n \in Notification
  BY DEF Row
<1>2. r.n.repository \in Nat /\ r.n.reason \in Nat /\ r.n.subject_type \in Nat
  BY <1>1, RulesAssumption DEF Notification
<1> QED
  BY <1>2 DEF GroupKey

(* The sum over the groups is what a running total says.                   *)
LEMMA ItemCountIs ==
  ASSUME NEW groups, NEW size \in Nat, Len(groups) = size, NEW total \in [0..size -> Nat],
         total[0] = 0,
         \A g \in 1..size : total[g] = total[g - 1] + Len(groups[g].items)
  PROVE  ItemCount(groups) = total[size]
<1> DEFINE Good(t) == t = [g \in 0..size |-> IF g = 0 THEN 0
                                             ELSE t[g - 1] + Len(groups[g].items)]
           sum == CHOOSE t : Good(t)
           Wrong == {g \in Nat : g <= size /\ sum[g] # total[g]}
<1>1. Good(total)
  <2>1. \A g \in 0..size : total[g] = IF g = 0 THEN 0 ELSE total[g - 1] + Len(groups[g].items)
    OBVIOUS
  <2> QED
    BY <2>1
<1>2. Good(sum)
  <2> HIDE DEF Good
  <2> QED
    BY <1>1, Zenon
<1>3. ItemCount(groups) = sum[size]
  BY DEF ItemCount
<1>4. /\ sum[0] = 0
      /\ \A g \in 1..size : sum[g] = sum[g - 1] + Len(groups[g].items)
  <2> HIDE DEF sum
  <2> QED
    BY <1>2
<1> HIDE DEF sum
<1>5. Wrong = {}
  <2> SUFFICES ASSUME Wrong # {} PROVE FALSE
    OBVIOUS
  <2>1. Wrong \in SUBSET Nat
    OBVIOUS
  <2> HIDE DEF Wrong
  <2>2. PICK g \in Wrong : \A h \in Wrong : g <= h
    BY <2>1, LeastNatural
  <2>3. g \in Nat /\ g <= size /\ sum[g] # total[g]
    BY DEF Wrong
  <2>4. g # 0
    BY <1>4, <2>3
  <2>5. g - 1 \in Nat /\ g - 1 <= size /\ g - 1 \notin Wrong /\ g \in 1..size
    BY <2>1, <2>2, <2>3, <2>4
  <2>6. sum[g - 1] = total[g - 1]
    BY <2>5 DEF Wrong
  <2> QED
    BY <1>4, <2>3, <2>5, <2>6
<1> QED
  BY <1>3, <1>5

(* A group of some rows keeps their order; the groups have every row and   *)
(* count it once.                                                          *)
PartOf(group, chosen, size, d) ==
  LET count == Len(group.items)
  IN  /\ count \in Nat
      /\ \E place \in [1..count -> 1..size] :
           /\ group.items = [p \in 1..count |-> chosen[place[p]]]
           /\ \A p, q \in 1..count : p < q => place[p] < place[q]
      /\ d.group_by # "none" =>
           /\ count # 0
           /\ \A p \in 1..count : GroupKey(group.items[p], d) = group.name

(* Every chosen row is in a group, the groups count them once, and each    *)
(* name has one group.                                                     *)
AreGroups(groups, chosen, size, d) ==
  /\ groups = [g \in 1..Len(groups) |-> groups[g]] /\ Len(groups) \in Nat
  /\ \A g \in 1..Len(groups) : PartOf(groups[g], chosen, size, d)
  /\ \A i \in 1..size : \E g \in 1..Len(groups) : \E p \in 1..Len(groups[g].items) :
       groups[g].items[p] = chosen[i]
  /\ ItemCount(groups) = size
  /\ d.group_by # "none" =>
       Len(groups) = Cardinality({GroupKey(chosen[i], d) : i \in 1..size})

(* _build_groups makes such groups, by induction on the rows read: each    *)
(* one joins the group of its name or founds one.                          *)
LEMMA GroupedRows ==
  ASSUME NEW size \in Nat, NEW chosen \in [1..size -> Row], NEW d \in Dashboard,
         d.group_by # "none"
  PROVE  AreGroups(Groups(chosen, d), chosen, size, d)
<1> DEFINE groups == Groups(chosen, d)
           key(i) == GroupKey(chosen[i], d)
           firsts == {i \in 1..size : \A j \in 1..(i - 1) : key(j) # key(i)}
           n == Cardinality(firsts)
           lead == Leaders(chosen, d)
           members(g) == {i \in 1..size : key(i) = key(lead[g])}
           order(g) == InOrder(members(g))
           items(g) == groups[g].items
<1>1. DOMAIN chosen = 1..size /\ \A i \in 1..size : key(i) \in Nat
  BY GroupKeyType
<1>2. /\ lead = InOrder(firsts) /\ firsts \in SUBSET (1..size)
      /\ \A g : Members(chosen, d, key(lead[g])) = order(g) /\ members(g) \in SUBSET (1..size)
  BY <1>1 DEF Leaders, Members
<1> HIDE DEF key, firsts, lead, members, groups, n, order, items
<1>3. /\ IsFiniteSet(firsts) /\ n \in Nat
      /\ lead \in [1..n -> firsts]
      /\ \A i \in firsts : \E g \in 1..n : lead[g] = i
      /\ \A g, h \in 1..n : g < h => lead[g] < lead[h]
  BY <1>2, PlacesInOrder DEF n
<1>4. /\ groups = [g \in 1..n |-> [name |-> key(lead[g]), items |-> RowsAt(chosen, order(g))]]
      /\ \A g \in 1..n : groups[g].name = key(lead[g]) /\ items(g) = RowsAt(chosen, order(g))
  <2>1. DOMAIN lead = 1..n
    BY <1>3
  <2>2. groups = [g \in DOMAIN lead |->
                    [name |-> key(lead[g]), items |-> RowsAt(chosen, Members(chosen, d, key(lead[g])))]]
    BY DEF Groups, groups, key, lead
  <2>3. groups = [g \in 1..n |-> [name |-> key(lead[g]), items |-> RowsAt(chosen, order(g))]]
    BY <1>2, <2>1, <2>2
  <2> QED
    BY <2>3 DEF items
<1>5. ASSUME NEW g \in 1..n
      PROVE  /\ lead[g] \in 1..size /\ lead[g] \in firsts
             /\ \A i \in members(g) : i \in 1..size /\ key(i) = key(lead[g])
             /\ IsFiniteSet(members(g)) /\ Cardinality(members(g)) \in Nat \ {0}
             /\ order(g) \in [1..Cardinality(members(g)) -> members(g)]
             /\ \A i \in members(g) : \E p \in 1..Cardinality(members(g)) : order(g)[p] = i
             /\ \A p, q \in 1..Cardinality(members(g)) : p < q => order(g)[p] < order(g)[q]
             /\ items(g) = [p \in 1..Cardinality(members(g)) |-> chosen[order(g)[p]]]
             /\ Len(items(g)) = Cardinality(members(g))
  <2>1. lead[g] \in firsts /\ lead[g] \in 1..size
    BY <1>2, <1>3
  <2>2. lead[g] \in members(g) /\ \A i \in members(g) : i \in 1..size /\ key(i) = key(lead[g])
    BY <2>1 DEF members
  <2>3. members(g) \in SUBSET (1..size) /\ order(g) = InOrder(members(g))
    BY <1>2 DEF order
  <2>4. /\ IsFiniteSet(members(g)) /\ Cardinality(members(g)) \in Nat
        /\ order(g) \in [1..Cardinality(members(g)) -> members(g)]
        /\ \A i \in members(g) : \E p \in 1..Cardinality(members(g)) : order(g)[p] = i
        /\ \A p, q \in 1..Cardinality(members(g)) : p < q => order(g)[p] < order(g)[q]
    <3> DEFINE M == members(g)
    <3>1. M \in SUBSET (1..size) /\ order(g) = InOrder(M)
      BY <2>3
    <3> HIDE DEF M
    <3>2. /\ IsFiniteSet(M) /\ Cardinality(M) \in Nat
          /\ InOrder(M) \in [1..Cardinality(M) -> M]
          /\ \A i \in M : \E p \in 1..Cardinality(M) : InOrder(M)[p] = i
          /\ \A p, q \in 1..Cardinality(M) : p < q => InOrder(M)[p] < InOrder(M)[q]
      BY <3>1, PlacesInOrder
    <3>3. /\ IsFiniteSet(M) /\ Cardinality(M) \in Nat
          /\ order(g) \in [1..Cardinality(M) -> M]
          /\ \A i \in M : \E p \in 1..Cardinality(M) : order(g)[p] = i
          /\ \A p, q \in 1..Cardinality(M) : p < q => order(g)[p] < order(g)[q]
      BY <3>1, <3>2
    <3> QED
      BY <3>3 DEF M
  <2>5. Cardinality(members(g)) # 0
    BY <2>2, <2>4, FS_EmptySet
  <2>6. items(g) = [p \in 1..Cardinality(members(g)) |-> chosen[order(g)[p]]]
    BY <1>4, <2>4 DEF RowsAt
  <2>7. Len(items(g)) = Cardinality(members(g))
    BY <2>4, <2>6
  <2> QED
    BY <2>1, <2>2, <2>4, <2>5, <2>6, <2>7
<1>6. Len(groups) = n /\ groups = [g \in 1..Len(groups) |-> groups[g]]
  BY <1>3, <1>4
(* Each row is in one group: the one its key came up first in.             *)
<1>7. ASSUME NEW i \in 1..size PROVE \E g \in 1..n : key(lead[g]) = key(i)
  <2> DEFINE same == {j \in Nat : j \in 1..size /\ key(j) = key(i)}
  <2>1. same \in SUBSET Nat /\ same # {}
    <3>1. i \in Nat /\ key(i) = key(i)
      BY <1>7
    <3>2. i \in same
      BY <3>1
    <3> QED
      BY <3>2
  <2> HIDE DEF same
  <2>2. PICK j \in same : \A h \in same : j <= h
    BY <2>1, LeastNatural
  <2>3. j \in Nat /\ j \in 1..size /\ key(j) = key(i)
    BY DEF same
  <2>4. \A h \in 1..(j - 1) : h \in Nat /\ h \in 1..size /\ h < j
    BY <2>3
  <2>5. \A h \in 1..(j - 1) : key(h) # key(j)
    <3> SUFFICES ASSUME NEW h \in 1..(j - 1), key(h) = key(j) PROVE FALSE
      OBVIOUS
    <3>1. h \in same
      BY <2>3, <2>4 DEF same
    <3> QED
      BY <2>1, <2>2, <2>3, <2>4, <3>1
  <2>6. j \in firsts
    BY <2>3, <2>5 DEF firsts
  <2>7. PICK g \in 1..n : lead[g] = j
    BY <1>3, <2>6
  <2> QED
    BY <2>3, <2>7
<1>8. ASSUME NEW g \in 1..n, NEW h \in 1..n, g < h PROVE key(lead[g]) # key(lead[h])
  <2>1. lead[g] < lead[h] /\ lead[g] \in firsts /\ lead[h] \in firsts
    BY <1>3, <1>8
  <2>2. lead[g] \in 1..(lead[h] - 1)
    <3>1. lead[g] \in 1..size /\ lead[h] \in 1..size
      BY <1>5
    <3> QED
      BY <2>1, <3>1
  <2> QED
    BY <2>1, <2>2 DEF firsts
<1>9. \A g, h \in 1..n : key(lead[g]) = key(lead[h]) => g = h
  <2> TAKE g, h \in 1..n
  <2>1. g = h \/ g < h \/ h < g
    BY <1>3
  <2> QED
    BY <1>8, <2>1
<1>10. \A i \in 1..size : \E g \in 1..n : \E p \in 1..Len(items(g)) : items(g)[p] = chosen[i]
  <2> TAKE i \in 1..size
  <2>1. PICK g \in 1..n : key(lead[g]) = key(i)
    BY <1>7
  <2>2. i \in members(g)
    BY <2>1 DEF members
  <2>3. PICK p \in 1..Cardinality(members(g)) : order(g)[p] = i
    BY <1>5, <2>2
  <2>4. items(g)[p] = chosen[order(g)[p]] /\ Len(items(g)) = Cardinality(members(g))
    BY <1>5
  <2> QED
    BY <2>3, <2>4
<1>11. ASSUME NEW g \in 1..n PROVE PartOf(groups[g], chosen, size, d)
  <2> DEFINE count == Cardinality(members(g))
  <2>1. /\ Len(items(g)) = count /\ count \in Nat \ {0}
        /\ order(g) \in [1..count -> members(g)]
        /\ items(g) = [p \in 1..count |-> chosen[order(g)[p]]]
        /\ \A p, q \in 1..count : p < q => order(g)[p] < order(g)[q]
        /\ \A i \in members(g) : i \in 1..size /\ key(i) = key(lead[g])
    BY <1>5
  <2> HIDE DEF count
  <2>2. order(g) \in [1..count -> 1..size]
    BY <2>1
  <2>3. ASSUME NEW p \in 1..count PROVE GroupKey(items(g)[p], d) = groups[g].name
    <3>1. order(g)[p] \in members(g) /\ items(g)[p] = chosen[order(g)[p]]
      BY <2>1
    <3>2. key(order(g)[p]) = groups[g].name
      BY <1>4, <2>1, <3>1
    <3> QED
      BY <3>1, <3>2 DEF key
  <2>4. Len(groups[g].items) = count /\ groups[g].items = items(g) /\ count \in Nat /\ count # 0
    BY <2>1 DEF items
  <2>5. \A p \in 1..count : GroupKey(groups[g].items[p], d) = groups[g].name
    BY <2>3, <2>4
  <2>6. groups[g].items = [p \in 1..count |-> chosen[order(g)[p]]]
    BY <2>1, <2>4
  <2> QED
    BY <2>1, <2>2, <2>4, <2>5, <2>6 DEF PartOf
<1>12. ItemCount(groups) = size
  <2> DEFINE upTo(g) == {i \in 1..size : \E h \in 1..g : key(i) = key(lead[h])}
             total == [g \in 0..n |-> Cardinality(upTo(g))]
  <2>1. \A g : upTo(g) \in SUBSET (1..size)
    OBVIOUS
  <2>2. \A g : IsFiniteSet(upTo(g)) /\ Cardinality(upTo(g)) \in Nat
    <3> TAKE g
    <3> HIDE DEF upTo
    <3> QED
      BY <2>1, PlacesInOrder
  <2>3. upTo(0) = {} /\ upTo(n) = 1..size
    <3>1. upTo(0) = {}
      OBVIOUS
    <3>2. upTo(n) = 1..size
      BY <1>7
    <3> QED
      BY <3>1, <3>2
  <2>4. ASSUME NEW g \in 1..n
        PROVE  Cardinality(upTo(g)) = Cardinality(upTo(g - 1)) + Len(items(g))
    <3>0. g \in Nat /\ g > 0 /\ n \in Nat /\ g <= n
      BY <1>3, <2>4
    <3>1. 1..g = (1..(g - 1)) \cup {g} /\ \A h \in 1..(g - 1) : h \in 1..n /\ h # g
      BY <3>0
    <3>2. upTo(g) = upTo(g - 1) \cup members(g)
      BY <3>1 DEF members
    <3>3. upTo(g - 1) \cap members(g) = {}
      BY <1>9, <2>4, <3>1 DEF members
    <3> HIDE DEF upTo
    <3>4. /\ IsFiniteSet(members(g)) /\ Len(items(g)) = Cardinality(members(g))
          /\ Cardinality(members(g)) \in Nat
      BY <1>5
    <3>5. Cardinality(upTo(g - 1) \cup members(g))
            = Cardinality(upTo(g - 1)) + Cardinality(members(g))
                - Cardinality(upTo(g - 1) \cap members(g))
      BY <2>2, <3>4, FS_Union
    <3>6. Cardinality(upTo(g - 1)) \in Nat /\ Cardinality({}) = 0
      BY <2>2, FS_EmptySet
    <3>7. Cardinality(upTo(g)) = Cardinality(upTo(g - 1)) + Cardinality(members(g)) - 0
      BY <3>2, <3>3, <3>5, <3>6, Zenon
    <3> QED
      BY <3>4, <3>6, <3>7
  <2>5. Cardinality(1..size) = size
    BY FS_Interval
  <2> HIDE DEF upTo
  <2>6. /\ total \in [0..n -> Nat] /\ total[0] = 0 /\ total[n] = size
        /\ \A g \in 1..n : total[g] = total[g - 1] + Len(groups[g].items)
    <3>1. \A g \in 1..n : g \in 0..n /\ g - 1 \in 0..n
      BY <1>3
    <3>2. 0 \in 0..n /\ n \in 0..n
      BY <1>3
    <3>3. \A g \in 1..n : Len(groups[g].items) = Len(items(g))
      BY DEF items
    <3> QED
      BY <2>2, <2>3, <2>4, <2>5, <3>1, <3>2, <3>3, FS_EmptySet
  <2> HIDE DEF total
  <2>7. ItemCount(groups) = total[n]
    <3>1. Len(groups) = n /\ n \in Nat
      BY <1>3, <1>6
    <3> QED
      BY <2>6, <3>1, ItemCountIs
  <2> QED
    BY <2>6, <2>7
<1>13. n = Cardinality({key(i) : i \in 1..size})
  <2> DEFINE f == [g \in 1..n |-> key(lead[g])]
             keys == {key(i) : i \in 1..size}
  <2>1. \A g \in 1..n : lead[g] \in 1..size /\ f[g] = key(lead[g])
    BY <1>5
  <2>2. f \in [1..n -> keys] /\ \A v \in keys : \E g \in 1..n : f[g] = v
    BY <1>7, <2>1
  <2>3. \A g, h \in 1..n : f[g] = f[h] => g = h
    BY <1>9, <2>1
  <2>4. IsFiniteSet(1..n) /\ Cardinality(1..n) = n
    BY <1>3, FS_Interval
  <2> HIDE DEF f, keys
  <2>5. Cardinality(keys) = Cardinality(1..n)
    BY <2>2, <2>3, <2>4, CountedOnce
  <2> QED
    BY <2>4, <2>5 DEF keys
<1>14. {key(i) : i \in 1..size} = {GroupKey(chosen[i], d) : i \in 1..size}
  BY DEF key
<1>15. \A i \in 1..size : \E g \in 1..n : \E p \in 1..Len(groups[g].items) :
         groups[g].items[p] = chosen[i]
  BY <1>10 DEF items
<1>16. AreGroups(groups, chosen, size, d)
  BY <1>3, <1>6, <1>11, <1>12, <1>13, <1>14, <1>15 DEF AreGroups
<1> QED
  BY <1>16 DEF groups

(* The same of groups and of the one list an ungrouped dashboard has.      *)
LEMMA GroupsOfRows ==
  ASSUME NEW size \in Nat, NEW chosen \in [1..size -> Row], NEW d \in Dashboard
  PROVE  AreGroups(Groups(chosen, d), chosen, size, d)
<1>1. CASE d.group_by # "none"
  BY <1>1, GroupedRows
<1>2. CASE d.group_by = "none"
  <2> DEFINE groups == <<[name |-> 0, items |-> chosen]>>
             total  == [g \in 0..1 |-> IF g = 0 THEN 0 ELSE size]
             same   == [p \in 1..size |-> p]
  <2>1. Groups(chosen, d) = groups
    BY <1>2 DEF Groups
  <2>2. /\ groups = [g \in 1..1 |-> groups[g]] /\ Len(groups) = 1
        /\ groups[1].items = chosen /\ Len(chosen) = size
        /\ chosen = [p \in 1..size |-> chosen[p]]
    OBVIOUS
  <2>3. ItemCount(groups) = size
    <3>1. /\ total \in [0..1 -> Nat] /\ total[0] = 0 /\ total[1] = size
          /\ \A g \in 1..1 : total[g] = total[g - 1] + Len(groups[g].items)
      BY <2>2
    <3>2. Len(groups) = 1 /\ 1 \in Nat
      BY <2>2
    <3> HIDE DEF total, groups
    <3>3. ItemCount(groups) = total[1]
      BY <3>1, <3>2, ItemCountIs
    <3> QED
      BY <3>1, <3>3
  <2>4. /\ same \in [1..size -> 1..size]
        /\ \A p, q \in 1..size : p < q => same[p] < same[q]
        /\ chosen = [p \in 1..size |-> chosen[same[p]]]
    BY <2>2
  <2> HIDE DEF groups, same
  <2>5. PartOf(groups[1], chosen, size, d)
    BY <1>2, <2>2, <2>4 DEF PartOf
  <2>6. \A g \in 1..Len(groups) : PartOf(groups[g], chosen, size, d)
    BY <2>2, <2>5
  <2>7. \A i \in 1..size : \E g \in 1..Len(groups) : \E p \in 1..Len(groups[g].items) :
             groups[g].items[p] = chosen[i]
    BY <2>2
  <2>8. groups = [g \in 1..Len(groups) |-> groups[g]] /\ Len(groups) \in Nat
    BY <2>2
  <2> QED
    BY <1>2, <2>1, <2>3, <2>6, <2>7, <2>8 DEF AreGroups
<1> QED
  BY <1>1, <1>2
(* Whatever rows are stored, read in whatever order, the view made of them *)
(* is faithful.                                                            *)
LEMMA ViewOfRows ==
  ASSUME IsFiniteSet(Rows), Rows \subseteq Row, NEW rows \in ReadOrders, NEW d \in Dashboard
  PROVE  FaithfulView(rows, d)
<1> DEFINE n == Cardinality(Rows)
           S == Selected(rows, d, now)
           size == SizeOf(d, Cardinality(S))
           chosen == Chosen(rows, d, now)
           groups == Groups(chosen, d)
           data == DashboardData(rows, d, now)
           items(g) == data.groups[g].items
           shown == UNION {{items(g)[i] : i \in DOMAIN items(g)} : g \in DOMAIN data.groups}
           eligible == {r \in Rows : Included(r, d, now)}
           unread == {p \in 1..size : chosen[p].n.unread}
<1>1. /\ n \in Nat
      /\ rows \in [1..n -> Row] /\ rows \in [1..n -> Rows]
      /\ \A i, j \in 1..n : rows[i] = rows[j] => i = j
  BY FS_CardinalityType DEF ReadOrders
<1>2. \A r \in Rows : \E i \in 1..n : rows[i] = r
  <2>1. IsFiniteSet(1..n) /\ Cardinality(1..n) = n
    BY <1>1, FS_Interval
  <2>2. rows \in Injection(1..n, Rows)
    BY <1>1 DEF Injection, IsInjective
  <2>3. rows \in Surjection(1..n, Rows)
    BY <2>1, <2>2, FS_Injection
  <2> QED
    BY <2>3 DEF Surjection
<1>3. S \in SUBSET (1..n) /\ \A i \in 1..n : i \in S <=> Included(rows[i], d, now)
  BY <1>1 DEF Selected
<1>4. /\ IsFiniteSet(S) /\ Cardinality(S) \in Nat /\ size \in Nat
      /\ AreChosen(chosen, rows, S, size, d)
  <2> HIDE DEF n
  <2> QED
    BY <1>1, ChosenRows
<1>5. PICK place \in [1..size -> S] :
        /\ chosen = [p \in 1..size |-> rows[place[p]]]
        /\ \A p, q \in 1..size : place[p] = place[q] => p = q
        /\ \A p, q \in 1..size : p < q => ~Ahead(rows[place[q]], rows[place[p]], d)
        /\ \A i \in S, p \in 1..size :
             (\A q \in 1..size : place[q] # i) => ~Ahead(rows[i], rows[place[p]], d)
  BY <1>4 DEF AreChosen
<1>6. size = IF d.max_items = 0 \/ d.max_items > Cardinality(S) THEN Cardinality(S) ELSE d.max_items
  BY DEF SizeOf
<1>7. data = [name        |-> d.name,
              groups      |-> groups,
              total_items |-> ItemCount(groups),
              unread      |-> Cardinality({p \in DOMAIN chosen : chosen[p].n.unread}),
              read        |-> Len(chosen) - Cardinality({p \in DOMAIN chosen : chosen[p].n.unread}),
              group_count |-> Len(groups),
              repositories |-> Cardinality({chosen[p].n.repository : p \in DOMAIN chosen}),
              reasons     |-> Cardinality({chosen[p].n.reason : p \in DOMAIN chosen})]
  BY DEF DashboardData
<1> HIDE DEF n, S, size, chosen, groups, data
<1>8. DOMAIN chosen = 1..size /\ Len(chosen) = size
  BY <1>4, <1>5
<1>9. /\ data.groups = groups /\ data.total_items = ItemCount(groups)
      /\ data.unread = Cardinality(unread) /\ data.read = size - Cardinality(unread)
      /\ data.group_count = Len(groups)
  BY <1>7, <1>8
<1>10. \A p \in 1..size : /\ place[p] \in S /\ place[p] \in 1..n /\ chosen[p] = rows[place[p]]
                          /\ chosen[p] \in Row /\ chosen[p] \in eligible
  BY <1>1, <1>3, <1>5
<1>11. \A p, q \in 1..size : chosen[p] = chosen[q] => p = q
  BY <1>1, <1>5, <1>10
<1>12. chosen \in [1..size -> Row]
  BY <1>5, <1>10
<1>13. AreGroups(groups, chosen, size, d)
  BY <1>4, <1>12, GroupsOfRows DEF groups
<1>14. /\ DOMAIN groups = 1..Len(groups)
       /\ \A g \in 1..Len(groups) :
            /\ items(g) = groups[g].items
            /\ PartOf(groups[g], chosen, size, d)
            /\ DOMAIN items(g) = 1..Len(items(g))
  <2>1. DOMAIN groups = 1..Len(groups)
    BY <1>13 DEF AreGroups
  <2>2. ASSUME NEW g \in 1..Len(groups)
        PROVE  /\ items(g) = groups[g].items
               /\ PartOf(groups[g], chosen, size, d)
               /\ DOMAIN items(g) = 1..Len(items(g))
    <3>1. items(g) = groups[g].items /\ PartOf(groups[g], chosen, size, d)
      BY <1>9, <1>13 DEF AreGroups
    <3> QED
      BY <3>1 DEF PartOf
  <2> QED
    BY <2>1, <2>2
<1>15. shown = {chosen[p] : p \in 1..size}
  <2>1. ASSUME NEW r \in shown PROVE \E p \in 1..size : r = chosen[p]
    <3>1. PICK g \in 1..Len(groups) : \E i \in 1..Len(items(g)) : r = items(g)[i]
      BY <1>9, <1>14
    <3>2. PICK i \in 1..Len(items(g)) : r = items(g)[i]
      BY <3>1
    <3>3. PICK at \in [1..Len(groups[g].items) -> 1..size] :
            groups[g].items = [q \in 1..Len(groups[g].items) |-> chosen[at[q]]]
      BY <1>14 DEF PartOf
    <3>4. items(g) = groups[g].items
      BY <1>14
    <3>5. r = chosen[at[i]] /\ at[i] \in 1..size
      BY <3>2, <3>3, <3>4
    <3> QED
      BY <3>5
  <2>2. ASSUME NEW p \in 1..size PROVE chosen[p] \in shown
    <3>1. PICK g \in 1..Len(groups) : \E i \in 1..Len(groups[g].items) : groups[g].items[i] = chosen[p]
      BY <1>13 DEF AreGroups
    <3>2. PICK i \in 1..Len(items(g)) : items(g)[i] = chosen[p]
      BY <3>1, <1>14
    <3>3. g \in DOMAIN data.groups /\ i \in DOMAIN items(g)
      BY <1>9, <1>14
    <3> QED
      BY <3>2, <3>3
  <2> QED
    BY <2>1, <2>2
<1> HIDE DEF shown, items
<1>16. IsFiniteSet(1..size) /\ Cardinality(1..size) = size
  BY <1>4, FS_Interval
<1>17. IsFiniteSet(shown) /\ Cardinality(shown) = size
  <2>1. chosen \in [1..size -> shown] /\ \A r \in shown : \E p \in 1..size : chosen[p] = r
    BY <1>12, <1>15
  <2>2. IsFiniteSet(shown) /\ Cardinality(shown) = Cardinality(1..size)
    BY <1>11, <1>16, <2>1, CountedOnce
  <2> QED
    BY <1>16, <2>2
<1>18. Cardinality(eligible) = Cardinality(S)
  <2> DEFINE f == [i \in S |-> rows[i]]
  <2>1. f \in [S -> eligible] /\ \A i, j \in S : f[i] = f[j] => i = j
    BY <1>1, <1>3
  <2>2. \A r \in eligible : \E i \in S : f[i] = r
    BY <1>2, <1>3
  <2> HIDE DEF f, eligible
  <2> QED
    BY <1>4, <2>1, <2>2, CountedOnce
<1>19. shown \subseteq eligible
  BY <1>10, <1>15
<1>20. \A r \in eligible \ shown, s \in shown : ~Ahead(r, s, d)
  <2> TAKE r \in eligible \ shown, s \in shown
  <2>1. PICK i \in 1..n : rows[i] = r
    BY <1>2
  <2>2. PICK p \in 1..size : s = chosen[p]
    BY <1>15
  <2>3. i \in S /\ \A q \in 1..size : place[q] # i
    BY <1>3, <1>10, <1>15, <2>1
  <2> QED
    BY <1>5, <1>10, <2>1, <2>2, <2>3
<1>21. ASSUME NEW g \in 1..Len(groups)
       PROVE  /\ \A i, j \in DOMAIN items(g) :
                   /\ i < j => ~Ahead(items(g)[j], items(g)[i], d)
                   /\ d.group_by # "none" => GroupKey(items(g)[i], d) = data.groups[g].name
              /\ d.group_by # "none" => items(g) # <<>>
  <2> DEFINE count == Len(items(g))
  <2>1. /\ count \in Nat /\ DOMAIN items(g) = 1..count
        /\ \E at \in [1..count -> 1..size] :
             /\ items(g) = [p \in 1..count |-> chosen[at[p]]]
             /\ \A p, q \in 1..count : p < q => at[p] < at[q]
        /\ d.group_by # "none" =>
             /\ count # 0
             /\ \A p \in 1..count : GroupKey(items(g)[p], d) = groups[g].name
    BY <1>14 DEF PartOf
  <2>2. PICK at \in [1..count -> 1..size] :
             /\ items(g) = [p \in 1..count |-> chosen[at[p]]]
             /\ \A p, q \in 1..count : p < q => at[p] < at[q]
    BY <2>1
  <2>3. ASSUME NEW i \in 1..count, NEW j \in 1..count, i < j
        PROVE  ~Ahead(items(g)[j], items(g)[i], d)
    <3>1. at[i] \in 1..size /\ at[j] \in 1..size /\ at[i] < at[j]
      BY <2>2, <2>3
    <3>2. ~Ahead(chosen[at[j]], chosen[at[i]], d)
      BY <1>5, <1>10, <3>1
    <3> QED
      BY <2>2, <3>2
  <2>4. d.group_by # "none" => items(g) # <<>>
    BY <2>1
  <2> HIDE DEF count
  <2> QED
    BY <1>9, <2>1, <2>3, <2>4
<1>22. d.group_by # "none" => data.group_count = Cardinality({GroupKey(r, d) : r \in shown})
  <2>1. {GroupKey(r, d) : r \in shown} = {GroupKey(chosen[p], d) : p \in 1..size}
    BY <1>15
  <2> QED
    BY <1>9, <1>13, <2>1 DEF AreGroups
<1>23. /\ Cardinality(unread) \in Nat
       /\ data.unread = Cardinality({r \in shown : r.n.unread})
  <2> DEFINE V == {r \in shown : r.n.unread}
             f == [p \in unread |-> chosen[p]]
  <2>1. IsFiniteSet(unread) /\ Cardinality(unread) \in Nat
    <3>1. unread \in SUBSET (1..size)
      OBVIOUS
    <3> QED
      BY <1>4, <3>1, PlacesInOrder
  <2>2. f \in [unread -> V] /\ \A v \in V : \E p \in unread : f[p] = v
    BY <1>15
  <2>3. \A p, q \in unread : f[p] = f[q] => p = q
    BY <1>11
  <2> HIDE DEF V, f, unread
  <2>4. Cardinality(V) = Cardinality(unread)
    BY <2>1, <2>2, <2>3, CountedOnce
  <2> QED
    BY <1>9, <2>1, <2>4 DEF V
<1>24. data.total_items = size /\ data.unread + data.read = data.total_items
  BY <1>4, <1>9, <1>13, <1>23 DEF AreGroups
<1>25. data.total_items = IF d.max_items = 0 \/ d.max_items > Cardinality(eligible)
                          THEN Cardinality(eligible) ELSE d.max_items
  BY <1>6, <1>18, <1>24
<1> HIDE DEF eligible
<1>26. /\ shown \subseteq eligible
       /\ data.total_items = Cardinality(shown)
       /\ data.total_items =
            IF d.max_items = 0 \/ d.max_items > Cardinality(eligible)
            THEN Cardinality(eligible) ELSE d.max_items
       /\ \A r \in eligible \ shown, s \in shown : ~Ahead(r, s, d)
       /\ \A g \in DOMAIN data.groups : \A i, j \in DOMAIN items(g) :
            /\ i < j => ~Ahead(items(g)[j], items(g)[i], d)
            /\ d.group_by # "none" => GroupKey(items(g)[i], d) = data.groups[g].name
       /\ d.group_by # "none" =>
            /\ data.group_count = Cardinality({GroupKey(r, d) : r \in shown})
            /\ \A g \in DOMAIN data.groups : items(g) # <<>>
       /\ data.unread = Cardinality({r \in shown : r.n.unread})
       /\ data.unread + data.read = data.total_items
  BY <1>9, <1>14, <1>17, <1>19, <1>20, <1>21, <1>22, <1>23, <1>24, <1>25
<1> QED
  BY <1>26 DEF FaithfulView, shown, items, eligible, data

-----------------------------------------------------------------------------
(* What is pasted, and the invariant.                                      *)

(* The criteria of a snippet, from what it names.                          *)
Criterion(p) ==
  [AnyNotification EXCEPT
     !.repository_in = {p.about.repository},
     !.reason_in = {p.about.reason},
     !.subject_type_in = {p.about.subject_type},
     !.title_regex = {p.about.title},
     !.context = {[path |-> q, op |-> "in", expected |-> TRUE, values |-> {p.told[q]}] :
                    q \in DOMAIN p.told}]

(* What was pasted into a dashboard, or globally (None).                   *)
PastedIn(name) == {Criterion(p) : p \in {q \in pasted : q.where = name}}

(* Finitely many threads are known.                                        *)
FewKnown == IsFiniteSet({k \in Keys : inbox[k] # None \/ db[k] # None})

(* GitHub lists what is unread, and no activity is of a later hour.        *)
InboxInv ==
  \A k \in Keys : inbox[k] # None => inbox[k].unread /\ inbox[k].updated_at <= now

(* The file has its first rules and what was pasted, nothing else; the     *)
(* poller runs with a file of the past.                                    *)
FromPastes(rs) ==
  /\ rs.per_repository = Rules0.per_repository
  /\ rs.global \subseteq Rules0.global \cup {[match |-> c, exclude |-> TRUE] : c \in PastedIn(None)}

(* The rules of the file and of the poller came from pastes.               *)
RulesInv == FromPastes(rules) /\ FromPastes(running)

(* So did the ignore rules of each dashboard; nothing else of it changed.  *)
DashboardsInv ==
  /\ \A i \in DOMAIN dashboards :
       dashboards[i] = [Dashboards0[i] EXCEPT
                          !.ignore_rules = @ \cup PastedIn(Dashboards0[i].name)]
  /\ \A p \in pasted : p.where # None => \E i \in DOMAIN Dashboards0 : Dashboards0[i].name = p.where

(* A row that is excluded has been by the first rules or by a paste.       *)
ExcludedInv ==
  \A k \in Keys : db[k] # None /\ db[k].excluded =>
    \/ ExcludedAtSomeTime(db[k], now)
    \/ \E p \in pasted : p.where = None /\ Covers(p, db[k])

(* The inductive invariant.                                                *)
FlowInv == TypeOK /\ FewKnown /\ InboxInv /\ RulesInv /\ DashboardsInv /\ ExcludedInv

-----------------------------------------------------------------------------
(* Types.                                                                  *)

LEMMA AnyNotificationType == AnyNotification \in Criteria
BY DEF AnyNotification, Criteria

(* It is a criterion of the configuration.                                 *)
LEMMA CriterionType ==
  ASSUME NEW p \in Paste
  PROVE  Criterion(p) \in Criteria
<1>1. p.about \in Subject /\ p.told \in Context
  BY DEF Paste
<1>2. /\ p.about.repository \in Repositories /\ p.about.reason \in Reasons
      /\ p.about.subject_type \in SubjectTypes /\ p.about.title \in Titles
  BY <1>1 DEF Subject
<1>3. \A q \in DOMAIN p.told : q \in Paths /\ p.told[q] \in Values
  BY <1>1 DEF Context
<1> DEFINE cs == {[path |-> q, op |-> "in", expected |-> TRUE, values |-> {p.told[q]}] :
                    q \in DOMAIN p.told}
<1>4. cs \in SUBSET Predicate
  <2>1. ASSUME NEW q \in DOMAIN p.told
        PROVE  [path |-> q, op |-> "in", expected |-> TRUE, values |-> {p.told[q]}] \in Predicate
    <3>1. q \in Paths /\ {p.told[q]} \in SUBSET Values /\ "in" \in Ops
      BY <1>3, <2>1 DEF Ops
    <3> QED
      BY <3>1 DEF Predicate
  <2> QED
    BY <2>1
<1> DEFINE c1 == [AnyNotification EXCEPT !.repository_in = {p.about.repository}]
           c2 == [c1 EXCEPT !.reason_in = {p.about.reason}]
           c3 == [c2 EXCEPT !.subject_type_in = {p.about.subject_type}]
           c4 == [c3 EXCEPT !.title_regex = {p.about.title}]
           c5 == [c4 EXCEPT !.context = cs]
<1>5. Criterion(p) = c5
  BY DEF Criterion
<1>6. c1 \in Criteria
  BY <1>2, AnyNotificationType DEF Criteria
<1> HIDE DEF c1
<1>7. c2 \in Criteria
  BY <1>2, <1>6 DEF Criteria
<1> HIDE DEF c2
<1>8. c3 \in Criteria
  BY <1>2, <1>7 DEF Criteria
<1> HIDE DEF c3
<1>9. c4 \in Criteria
  BY <1>2, <1>8 DEF Criteria
<1> HIDE DEF c4, cs
<1>10. c5 \in Criteria
  BY <1>4, <1>9 DEF Criteria
<1> QED
  BY <1>5, <1>10

(* A pasted criterion asks for what it names, and nothing else.            *)
LEMMA CriterionMatches ==
  ASSUME NEW p \in Paste, NEW n, NEW score, NEW hour, NEW ctx
  PROVE  Matches(Criterion(p), n, score, hour, ctx)
           <=> p.about = About(n) /\ Agrees(p.told, ctx)
<1>1. p.about \in Subject
  BY DEF Paste
<1>2. p.about = About(n) <=>
        /\ p.about.repository = n.repository /\ p.about.reason = n.reason
        /\ p.about.subject_type = n.subject_type /\ p.about.title = n.title
  <2>1. p.about = [repository |-> p.about.repository, reason |-> p.about.reason,
                   subject_type |-> p.about.subject_type, title |-> p.about.title]
    BY <1>1 DEF Subject
  <2> QED
    BY <2>1 DEF About
<1> DEFINE cs == {[path |-> q, op |-> "in", expected |-> TRUE, values |-> {p.told[q]}] :
                    q \in DOMAIN p.told}
           c == Criterion(p)
<1>3. /\ c.repository_in = {p.about.repository} /\ c.repository_glob = {}
      /\ c.reason_in = {p.about.reason} /\ c.subject_type_in = {p.about.subject_type}
      /\ c.title_contains_any = {} /\ c.title_regex = {p.about.title}
      /\ c.unread = None /\ c.min_score = None /\ c.max_age = None /\ c.context = cs
  BY DEF Criterion, AnyNotification
<1>4. (\A q \in cs : PredicateHolds(q, ctx)) <=> Agrees(p.told, ctx)
  <2>1. (\A q \in cs : PredicateHolds(q, ctx)) <=>
          \A q \in DOMAIN p.told :
            PredicateHolds([path |-> q, op |-> "in", expected |-> TRUE, values |-> {p.told[q]}], ctx)
    OBVIOUS
  <2>2. \A q : PredicateHolds([path |-> q, op |-> "in", expected |-> TRUE, values |-> {p.told[q]}], ctx)
                 <=> q \in DOMAIN ctx /\ ctx[q] = p.told[q]
    BY DEF PredicateHolds
  <2> HIDE DEF cs
  <2> QED
    BY <2>1, <2>2 DEF Agrees
<1>5. c.title_regex # None
  <2>1. {p.about.title} \in SUBSET Titles
    BY <1>1 DEF Subject
  <2> QED
    BY <1>3, <2>1, RulesAssumption
<1> HIDE DEF c, cs
<1>6. Matches(c, n, score, hour, ctx) <=>
        /\ n.repository = p.about.repository /\ n.reason = p.about.reason
        /\ n.subject_type = p.about.subject_type /\ n.title = p.about.title
        /\ \A q \in cs : PredicateHolds(q, ctx)
  BY <1>3, <1>5 DEF Matches, OneOf, AnyOf
<1> QED
  BY <1>2, <1>4, <1>6 DEF c

(* A snippet is such a criterion.                                          *)
LEMMA SnippetIsCriterion ==
  ASSUME NEW n, NEW ctx, NEW withContext \in BOOLEAN, NEW where,
         NEW p, p = [where |-> where, about |-> About(n),
                     told |-> [q \in (IF withContext THEN Told(ctx) ELSE {}) |-> ctx[q]]]
  PROVE  SnippetCriteria(n, ctx, withContext) = Criterion(p)
<1>1. /\ p.about.repository = n.repository /\ p.about.reason = n.reason
      /\ p.about.subject_type = n.subject_type /\ p.about.title = n.title
  BY DEF About
<1>2. {[path |-> q, op |-> "in", expected |-> TRUE, values |-> {p.told[q]}] : q \in DOMAIN p.told}
        = IF withContext
          THEN {[path |-> q, op |-> "in", expected |-> TRUE, values |-> {ctx[q]}] : q \in Told(ctx)}
          ELSE {}
  OBVIOUS
<1> QED
  BY <1>1, <1>2, Zenon DEF SnippetCriteria, Criterion

(* An enrichment that found nothing is a context.                          *)
LEMMA NothingType == Nothing \in Context
<1>1. Nothing \in [{} -> Values]
  BY DEF Nothing
<1> QED
  BY <1>1 DEF Context

(* A score is a number.                                                    *)
LEMMA ScoreType ==
  ASSUME NEW n \in Notification, NEW hour \in Nat
  PROVE  Score(n, Scoring0, hour) \in Int
<1>1. Scoring0 \in Scoring
  BY RuleFlowAssumption
<1>2. /\ Scoring0.unread_bonus \in Int /\ Scoring0.age_decay_per_hour \in Int
      /\ Scoring0.reason_weights \in [Reasons -> Int]
      /\ Scoring0.repository_weights \in [Repositories -> Int]
      /\ Scoring0.subject_type_weights \in [SubjectTypes -> Int]
      /\ Scoring0.title_weights \in [Titles -> Int]
  BY <1>1 DEF Scoring
<1>3. /\ n.repository \in Repositories /\ n.reason \in Reasons
      /\ n.subject_type \in SubjectTypes /\ n.title \in Titles /\ n.updated_at \in Nat
  BY DEF Notification
<1>4. Age(n, hour) \in Int
  BY <1>3 DEF Age
<1>5. Age(n, hour) * Scoring0.age_decay_per_hour \in Int
  <2>1. \A a, b \in Int : a * b \in Int
    OBVIOUS
  <2> QED
    BY <1>2, <1>4, <2>1
<1> DEFINE decay == Age(n, hour) * Scoring0.age_decay_per_hour
           bonus == IF n.unread THEN Scoring0.unread_bonus ELSE 0
           reason == Scoring0.reason_weights[n.reason]
           repository == Scoring0.repository_weights[n.repository]
           kind == Scoring0.subject_type_weights[n.subject_type]
           title == Scoring0.title_weights[n.title]
<1>6. Score(n, Scoring0, hour) = bonus + reason + repository + kind + title - decay
  BY DEF Score
<1>7. /\ decay \in Int /\ bonus \in Int /\ reason \in Int
      /\ repository \in Int /\ kind \in Int /\ title \in Int
  BY <1>2, <1>3, <1>5
<1> HIDE DEF decay, bonus, reason, repository, kind, title
<1> QED
  BY <1>6, <1>7
-----------------------------------------------------------------------------
(* The invariant holds at first.                                           *)

LEMMA InitHolds == Init => FlowInv
<1> SUFFICES ASSUME Init PROVE FlowInv
  OBVIOUS
<1>1. PastedIn(None) = {} /\ \A name : PastedIn(name) = {}
  BY DEF Init, PastedIn
<1>2. TypeOK
  <2>1. inbox \in [Keys -> Notification \cup {None}] /\ now \in 1..MaxNow /\ pasted \subseteq Paste
    BY RuleFlowAssumption DEF Init
  <2>2. db \in [Keys -> Row \cup {None}] /\ \A k \in Keys : db[k] # None => db[k].key = k
    BY RuleFlowAssumption DEF Init
  <2>3. /\ rules \in RuleSet /\ running \in RuleSet
        /\ dashboards \in Seq(Dashboard) /\ Len(dashboards) = Len(Dashboards0)
    BY RuleFlowAssumption DEF Init
  <2> QED
    BY <2>1, <2>2, <2>3 DEF TypeOK
<1>3. FewKnown
  <2>1. {k \in Keys : inbox[k] # None \/ db[k] # None} = {k \in Keys : Stored0[k] # None}
    BY DEF Init
  <2> QED
    BY <2>1, RuleFlowAssumption DEF FewKnown
<1>4. InboxInv
  BY DEF Init, InboxInv
<1>5. RulesInv
  BY DEF Init, RulesInv, FromPastes
<1>6. DashboardsInv
  <2>1. dashboards = Dashboards0 /\ pasted = {} /\ Dashboards0 \in Seq(Dashboard)
    BY RuleFlowAssumption DEF Init
  <2>2. ASSUME NEW i \in DOMAIN Dashboards0
        PROVE  Dashboards0[i] = [Dashboards0[i] EXCEPT !.ignore_rules = @ \cup {}]
    <3>1. Dashboards0[i] \in Dashboard
      BY <2>1, <2>2
    <3> QED
      BY <3>1 DEF Dashboard
  <2> QED
    BY <1>1, <2>1, <2>2 DEF DashboardsInv
<1>7. ExcludedInv
  BY StoredAssumption DEF Init, ExcludedInv
<1> QED
  BY <1>2, <1>3, <1>4, <1>5, <1>6, <1>7 DEF FlowInv

-----------------------------------------------------------------------------
(* Every step keeps the types.                                             *)

LEMMA StoredType ==
  ASSUME TypeOK, NEW k \in Keys, inbox[k] # None, NEW ctx \in Context
  PROVE  Stored(k, ctx) \in Row /\ Stored(k, ctx).key = k
<1> DEFINE score == Score(inbox[k], Scoring0, now)
           verdict == Excluded(running, inbox[k], score, now, ctx)
           dismissed == db[k] # None /\ db[k].dismissed
<1>1. inbox[k] \in Notification /\ now \in Nat
  BY RuleFlowAssumption DEF TypeOK
<1>2. score \in Int
  BY <1>1, ScoreType
<1>3. verdict \in BOOLEAN
  BY DEF Excluded
<1>4. dismissed \in BOOLEAN
  <2>1. db[k] # None => db[k] \in Row
    BY DEF TypeOK
  <2> QED
    BY <2>1 DEF Row
<1>5. Stored(k, ctx) = [key |-> k, n |-> inbox[k], score |-> score, excluded |-> verdict,
                        dismissed |-> dismissed, context |-> ctx]
  BY DEF Stored
<1> HIDE DEF score, verdict, dismissed
<1> QED
  BY <1>1, <1>2, <1>3, <1>4, <1>5 DEF Row

(* What a poll finds is a context.                                         *)
LEMMA EnrichedType ==
  ASSUME NEW ctx \in Enriched, NEW k \in Keys
  PROVE  ctx[k] \in Context
<1>1. ctx[k] \in ContextsOf[k] \cup {Nothing}
  BY DEF Enriched, Truths
<1>2. ContextsOf[k] \subseteq Context
  BY RuleFlowAssumption
<1> QED
  BY <1>1, <1>2, NothingType

(* What a paste adds.                                                      *)
NewPaste(k, name, global, withContext) ==
  [where |-> IF global THEN None ELSE Select(dashboards, name).name,
   about |-> About(db[k].n),
   told  |-> [q \in (IF withContext THEN Told(db[k].context) ELSE {}) |-> db[k].context[q]]]

(* Where its criterion goes.                                               *)
GoesToRules(p) ==
  /\ p.where = None
  /\ rules' = [rules EXCEPT !.global = @ \cup {[match |-> Criterion(p), exclude |-> TRUE]}]
  /\ UNCHANGED dashboards
GoesToDashboard(p) ==
  /\ p.where # None
  /\ \E i \in DOMAIN Dashboards0 : Dashboards0[i].name = p.where
  /\ dashboards' = Add(Criterion(p), p.where)
  /\ UNCHANGED rules

(* PasteSnippet adds that, and its criterion where it says.                *)
LEMMA PasteAdds ==
  ASSUME TypeOK, DashboardsInv, NEW k \in Keys, NEW name, NEW global \in BOOLEAN,
         NEW withContext \in BOOLEAN, PasteSnippet(k, name, global, withContext),
         NEW p, p = NewPaste(k, name, global, withContext)
  PROVE  /\ p \in Paste
         /\ pasted' = pasted \cup {p}
         /\ UNCHANGED <<inbox, db, running, now>>
         /\ global  => GoesToRules(p)
         /\ ~global => GoesToDashboard(p)
<1> DEFINE where == IF global THEN None ELSE Select(dashboards, name).name
           told == IF withContext THEN Told(db[k].context) ELSE {}
           c == SnippetCriteria(db[k].n, db[k].context, withContext)
<1>1. /\ p.where = where /\ p.about = About(db[k].n)
      /\ p.told = [q \in told |-> db[k].context[q]]
      /\ p = [where |-> where, about |-> About(db[k].n), told |-> [q \in told |-> db[k].context[q]]]
  BY DEF NewPaste
<1>2. /\ db[k] # None
      /\ pasted' = pasted \cup {[where |-> where, about |-> About(db[k].n),
                                 told |-> [q \in told |-> db[k].context[q]]]}
      /\ UNCHANGED <<inbox, db, running, now>>
      /\ global => /\ rules' = [rules EXCEPT !.global = @ \cup {[match |-> c, exclude |-> TRUE]}]
                   /\ UNCHANGED dashboards
      /\ ~global => /\ \E i \in DOMAIN dashboards : dashboards[i].name = where
                    /\ dashboards' = Add(c, where)
                    /\ UNCHANGED rules
  BY DEF PasteSnippet
<1> HIDE DEF where
<1>3. c = Criterion(p)
  BY <1>1, SnippetIsCriterion
<1>4. ASSUME ~global PROVE \E i \in DOMAIN Dashboards0 : Dashboards0[i].name = where
  <2>1. PICK i \in DOMAIN dashboards : dashboards[i].name = where
    BY <1>2, <1>4
  <2>2. i \in DOMAIN Dashboards0
    BY <2>1, RuleFlowAssumption DEF TypeOK
  <2>3. dashboards[i].name = Dashboards0[i].name
    <3>1. Dashboards0[i] \in Dashboard
      BY <2>2, RuleFlowAssumption
    <3>2. dashboards[i] = [Dashboards0[i] EXCEPT
                             !.ignore_rules = @ \cup PastedIn(Dashboards0[i].name)]
      BY <2>1 DEF DashboardsInv
    <3> HIDE DEF PastedIn
    <3> QED
      BY <3>1, <3>2 DEF Dashboard
  <2> QED
    BY <2>1, <2>2, <2>3
<1>5. ~global => where \in Names
  BY <1>4, RuleFlowAssumption
<1>6. global => where = None
  BY DEF where
<1>7. where \in Names \cup {Default, None} /\ (~global => where # None)
  BY <1>5, <1>6, DashboardsAssumption
<1>8. db[k] \in Row
  BY <1>2 DEF TypeOK
<1>9. db[k].n \in Notification /\ db[k].context \in Context
  BY <1>8 DEF Row
<1>10. About(db[k].n) \in Subject
  BY <1>9 DEF About, Notification, Subject
<1>11. [q \in told |-> db[k].context[q]] \in Context
  <2>1. told \subseteq DOMAIN db[k].context
    BY DEF Told
  <2>2. PICK P \in SUBSET Paths : db[k].context \in [P -> Values]
    BY <1>9 DEF Context
  <2>3. told \in SUBSET Paths
    BY <2>1, <2>2
  <2> HIDE DEF told
  <2>4. [q \in told |-> db[k].context[q]] \in [told -> Values]
    BY <2>1, <2>2
  <2> QED
    BY <2>3, <2>4 DEF Context
<1>12. p \in Paste
  <2> HIDE DEF told
  <2> QED
    BY <1>1, <1>7, <1>10, <1>11 DEF Paste
<1>13. pasted' = pasted \cup {p}
  BY <1>1, <1>2
<1> HIDE DEF c, told
<1>14. global => GoesToRules(p)
  BY <1>1, <1>2, <1>3, <1>6 DEF GoesToRules
<1>15. ~global => GoesToDashboard(p)
  BY <1>1, <1>2, <1>3, <1>4, <1>7 DEF GoesToDashboard
<1> QED
  BY <1>2, <1>12, <1>13, <1>14, <1>15

(* Every step keeps the types.                                             *)
LEMMA TypeStep ==
  ASSUME TypeOK, DashboardsInv, [Next]_vars
  PROVE  TypeOK'
<1>1. ASSUME NEW k \in Keys, Activity(k) PROVE TypeOK'
  <2>1. PICK shape \in Shapes[k] :
          inbox' = [inbox EXCEPT ![k] =
                     [repository |-> shape.repository, reason |-> shape.reason,
                      subject_type |-> shape.subject_type, title |-> shape.title,
                      unread |-> TRUE, updated_at |-> now]]
    BY <1>1 DEF Activity
  <2>2. shape \in Subject
    BY <2>1, RuleFlowAssumption
  <2>3. now \in Nat
    BY RuleFlowAssumption DEF TypeOK
  <2>4. [repository |-> shape.repository, reason |-> shape.reason,
         subject_type |-> shape.subject_type, title |-> shape.title,
         unread |-> TRUE, updated_at |-> now] \in Notification
    BY <2>2, <2>3 DEF Subject, Notification
  <2>5. inbox' \in [Keys -> Notification \cup {None}]
    BY <2>1, <2>4 DEF TypeOK
  <2> QED
    BY <1>1, <2>5 DEF Activity, TypeOK, serverVars
<1>2. CASE Tick
  <2>1. now' \in 1..MaxNow
    BY <1>2, RuleFlowAssumption DEF Tick, TypeOK
  <2> QED
    BY <1>2, <2>1 DEF Tick, TypeOK, serverVars
<1>3. CASE Poll
  <2>1. PICK ctx \in Enriched :
          db' = [k \in Keys |-> IF inbox[k] = None THEN db[k] ELSE Stored(k, ctx[k])]
    BY <1>3 DEF Poll
  <2>2. ASSUME NEW k \in Keys
        PROVE  db'[k] \in Row \cup {None} /\ (db'[k] # None => db'[k].key = k)
    <3>1. CASE inbox[k] = None
      BY <2>1, <3>1 DEF TypeOK
    <3>2. CASE inbox[k] # None
      BY <2>1, <3>2, EnrichedType, StoredType
    <3> QED
      BY <3>1, <3>2
  <2>3. db' \in [Keys -> Row \cup {None}]
    BY <2>1, <2>2
  <2> QED
    BY <1>3, <2>2, <2>3 DEF Poll, TypeOK
<1>4. CASE RestartPoller
  BY <1>4 DEF RestartPoller, TypeOK
<1>5. ASSUME NEW k \in Keys, Dismiss(k) PROVE TypeOK'
  <2>1. /\ db[k] # None /\ db[k] \in Row
        /\ db' = [db EXCEPT ![k].dismissed = TRUE]
        /\ inbox' = [inbox EXCEPT ![k] = None]
    BY <1>5 DEF Dismiss, TypeOK
  <2>2. [db[k] EXCEPT !.dismissed = TRUE] \in Row /\ [db[k] EXCEPT !.dismissed = TRUE].key = db[k].key
    BY <2>1 DEF Row
  <2>3. db' \in [Keys -> Row \cup {None}] /\ \A j \in Keys : db'[j] # None => db'[j].key = j
    BY <2>1, <2>2 DEF TypeOK
  <2>4. inbox' \in [Keys -> Notification \cup {None}]
    BY <2>1 DEF TypeOK
  <2> QED
    BY <1>5, <2>3, <2>4 DEF Dismiss, TypeOK
<1>6. ASSUME NEW k \in Keys, MarkRead(k) PROVE TypeOK'
  <2>1. /\ db[k] # None /\ db[k] \in Row
        /\ db' = [db EXCEPT ![k].n.unread = FALSE]
        /\ inbox' = [inbox EXCEPT ![k] = None]
    BY <1>6 DEF MarkRead, TypeOK
  <2>2. [db[k].n EXCEPT !.unread = FALSE] \in Notification
    BY <2>1 DEF Row, Notification
  <2>3. /\ [db[k] EXCEPT !.n.unread = FALSE] \in Row
        /\ [db[k] EXCEPT !.n.unread = FALSE].key = db[k].key
    BY <2>1, <2>2 DEF Row
  <2>4. db' \in [Keys -> Row \cup {None}] /\ \A j \in Keys : db'[j] # None => db'[j].key = j
    BY <2>1, <2>3 DEF TypeOK
  <2>5. inbox' \in [Keys -> Notification \cup {None}]
    BY <2>1 DEF TypeOK
  <2> QED
    BY <1>6, <2>4, <2>5 DEF MarkRead, TypeOK
<1>7. ASSUME NEW k \in Keys, NEW name, NEW global \in BOOLEAN, NEW withContext \in BOOLEAN,
             PasteSnippet(k, name, global, withContext)
      PROVE  TypeOK'
  <2>1. PICK p : p = NewPaste(k, name, global, withContext)
    OBVIOUS
  <2>2. p \in Paste /\ pasted' = pasted \cup {p} /\ UNCHANGED <<inbox, db, running, now>>
    BY <1>7, <2>1, PasteAdds
  <2>3. Criterion(p) \in Criteria
    BY <2>2, CriterionType
  <2>4. CASE global
    <3>0. GoesToRules(p)
      BY <1>7, <2>1, <2>4, PasteAdds
    <3>1. /\ rules' = [rules EXCEPT !.global = @ \cup {[match |-> Criterion(p), exclude |-> TRUE]}]
          /\ UNCHANGED dashboards
      BY <3>0 DEF GoesToRules
    <3>2. [match |-> Criterion(p), exclude |-> TRUE] \in Rule
      BY <2>3 DEF Rule
    <3>3. rules' \in RuleSet
      BY <3>1, <3>2 DEF TypeOK, RuleSet
    <3> QED
      BY <2>2, <3>1, <3>3 DEF TypeOK
  <2>5. CASE ~global
    <3>0. GoesToDashboard(p)
      BY <1>7, <2>1, <2>5, PasteAdds
    <3>1. dashboards' = Add(Criterion(p), p.where) /\ UNCHANGED rules
      BY <3>0 DEF GoesToDashboard
    <3>2. ASSUME NEW d \in Dashboard PROVE [d EXCEPT !.ignore_rules = @ \cup {Criterion(p)}] \in Dashboard
      BY <2>3 DEF Dashboard
    <3>3. dashboards \in [1..Len(dashboards) -> Dashboard]
      BY DEF TypeOK
    <3>4. Add(Criterion(p), p.where) \in [1..Len(dashboards) -> Dashboard]
      BY <3>2, <3>3 DEF Add
    <3>5. Len(dashboards) \in Nat
      BY DEF TypeOK
    <3>6. dashboards' \in Seq(Dashboard) /\ Len(dashboards') = Len(dashboards)
      BY <3>1, <3>4, <3>5
    <3> QED
      BY <2>2, <3>1, <3>6 DEF TypeOK
  <2> QED
    BY <2>4, <2>5
<1>8. CASE UNCHANGED vars
  BY <1>8 DEF vars, serverVars, TypeOK
<1> QED
  BY <1>1, <1>2, <1>3, <1>4, <1>5, <1>6, <1>7, <1>8 DEF Next

(* Threads become known one at a time.                                     *)
LEMMA FewKnownStep ==
  ASSUME TypeOK, DashboardsInv, FewKnown, [Next]_vars
  PROVE  FewKnown'
<1> DEFINE known == {k \in Keys : inbox[k] # None \/ db[k] # None}
           later == {k \in Keys : inbox'[k] # None \/ db'[k] # None}
<1>1. ASSUME NEW k \in Keys, later \subseteq known \cup {k} PROVE FewKnown'
  <2>1. IsFiniteSet(known \cup {k})
    BY FS_AddElement DEF FewKnown
  <2>2. IsFiniteSet(later)
    BY <1>1, <2>1, FS_Subset
  <2> QED
    BY <2>2 DEF FewKnown
<1>2. ASSUME later \subseteq known PROVE FewKnown'
  <2>1. IsFiniteSet(later)
    BY <1>2, FS_Subset DEF FewKnown
  <2> QED
    BY <2>1 DEF FewKnown
<1>3. ASSUME NEW k \in Keys, Activity(k) PROVE FewKnown'
  <2>1. \A j \in Keys \ {k} : inbox'[j] = inbox[j] /\ db' = db
    BY <1>3 DEF Activity, TypeOK, serverVars
  <2>2. later \subseteq known \cup {k}
    BY <2>1
  <2> HIDE DEF later, known
  <2> QED
    BY <1>1, <2>2
<1>4. CASE Poll
  <2>1. \A k \in Keys : inbox[k] = None => db'[k] = db[k]
    BY <1>4 DEF Poll
  <2>2. inbox' = inbox
    BY <1>4 DEF Poll
  <2>3. later \subseteq known
    BY <2>1, <2>2
  <2> HIDE DEF later, known
  <2> QED
    BY <1>2, <2>3
<1>5. ASSUME NEW k \in Keys, Dismiss(k) \/ MarkRead(k) PROVE FewKnown'
  <2>1. db[k] # None
    BY <1>5 DEF Dismiss, MarkRead
  <2>2. \A j \in Keys \ {k} : inbox'[j] = inbox[j] /\ db'[j] = db[j]
    BY <1>5 DEF Dismiss, MarkRead, TypeOK
  <2>3. later \subseteq known
    BY <2>1, <2>2
  <2> HIDE DEF later, known
  <2> QED
    BY <1>2, <2>3
<1>6. ASSUME UNCHANGED <<inbox, db>> PROVE FewKnown'
  BY <1>6 DEF FewKnown
<1>7. ASSUME NEW k \in Keys, NEW name, NEW global \in BOOLEAN, NEW withContext \in BOOLEAN,
             PasteSnippet(k, name, global, withContext)
      PROVE  FewKnown'
  BY <1>6, <1>7 DEF PasteSnippet
<1>8. CASE Tick \/ RestartPoller \/ UNCHANGED vars
  BY <1>6, <1>8 DEF Tick, RestartPoller, vars, serverVars
<1> QED
  BY <1>3, <1>4, <1>5, <1>7, <1>8 DEF Next

(* Every step keeps what GitHub lists unread and of the past.              *)
LEMMA InboxStep ==
  ASSUME TypeOK, InboxInv, [Next]_vars
  PROVE  InboxInv'
<1>1. now \in Nat
  BY RuleFlowAssumption DEF TypeOK
<1>2. \A k \in Keys : inbox[k] # None => inbox[k].updated_at \in Nat
  BY DEF TypeOK, Notification
<1>3. ASSUME NEW k \in Keys, Activity(k) PROVE InboxInv'
  <2>1. PICK shape \in Shapes[k] :
          inbox' = [inbox EXCEPT ![k] =
                     [repository |-> shape.repository, reason |-> shape.reason,
                      subject_type |-> shape.subject_type, title |-> shape.title,
                      unread |-> TRUE, updated_at |-> now]]
    BY <1>3 DEF Activity
  <2>2. inbox'[k].unread /\ inbox'[k].updated_at = now /\ now' = now
    BY <1>3, <2>1 DEF Activity, TypeOK
  <2>3. \A j \in Keys \ {k} : inbox'[j] = inbox[j]
    BY <2>1 DEF TypeOK
  <2> QED
    BY <1>1, <2>2, <2>3 DEF InboxInv
<1>4. CASE Tick
  BY <1>1, <1>2, <1>4 DEF Tick, InboxInv
<1>5. ASSUME NEW k \in Keys, Dismiss(k) \/ MarkRead(k) PROVE InboxInv'
  <2>1. inbox'[k] = None /\ \A j \in Keys \ {k} : inbox'[j] = inbox[j]
    BY <1>5 DEF Dismiss, MarkRead, TypeOK
  <2>2. now' = now
    BY <1>5 DEF Dismiss, MarkRead
  <2> QED
    BY <2>1, <2>2 DEF InboxInv
<1>6. ASSUME UNCHANGED <<inbox, now>> PROVE InboxInv'
  BY <1>6 DEF InboxInv
<1>7. ASSUME NEW k \in Keys, NEW name, NEW global \in BOOLEAN, NEW withContext \in BOOLEAN,
             PasteSnippet(k, name, global, withContext)
      PROVE  InboxInv'
  BY <1>6, <1>7 DEF PasteSnippet
<1>8. CASE Poll \/ RestartPoller \/ UNCHANGED vars
  BY <1>6, <1>8 DEF Poll, RestartPoller, vars
<1> QED
  BY <1>3, <1>4, <1>5, <1>7, <1>8 DEF Next

(* A paste adds its criterion to one place.                                *)
LEMMA PastedGrows ==
  ASSUME NEW p, pasted' = pasted \cup {p}, NEW name
  PROVE  PastedIn(name)' = PastedIn(name) \cup (IF p.where = name THEN {Criterion(p)} ELSE {})
BY DEF PastedIn

(* Every step keeps the rules made of pastes.                              *)
LEMMA RulesStep ==
  ASSUME TypeOK, DashboardsInv, RulesInv, [Next]_vars
  PROVE  RulesInv'
<1>1. ASSUME UNCHANGED pasted, rules' = rules, running' \in {rules, running} PROVE RulesInv'
  <2>1. PastedIn(None)' = PastedIn(None)
    BY <1>1 DEF PastedIn
  <2> QED
    BY <1>1, <2>1 DEF RulesInv, FromPastes
<1>2. ASSUME NEW k \in Keys, NEW name, NEW global \in BOOLEAN, NEW withContext \in BOOLEAN,
             PasteSnippet(k, name, global, withContext)
      PROVE  RulesInv'
  <2>1. PICK p : p = NewPaste(k, name, global, withContext)
    OBVIOUS
  <2>2. pasted' = pasted \cup {p} /\ running' = running
    BY <1>2, <2>1, PasteAdds
  <2>3. PastedIn(None)' = PastedIn(None) \cup (IF p.where = None THEN {Criterion(p)} ELSE {})
    BY <2>2, PastedGrows
  <2>4. CASE global
    <3>0. GoesToRules(p)
      BY <1>2, <2>1, <2>4, PasteAdds
    <3>1. /\ p.where = None
          /\ rules' = [rules EXCEPT !.global = @ \cup {[match |-> Criterion(p), exclude |-> TRUE]}]
      BY <3>0 DEF GoesToRules
    <3>2. /\ rules'.per_repository = rules.per_repository
          /\ rules'.global = rules.global \cup {[match |-> Criterion(p), exclude |-> TRUE]}
      BY <3>1 DEF TypeOK, RuleSet
    <3>3. PastedIn(None)' = PastedIn(None) \cup {Criterion(p)}
      BY <2>3, <3>1
    <3> HIDE DEF PastedIn
    <3> QED
      BY <2>2, <3>2, <3>3 DEF RulesInv, FromPastes
  <2>5. CASE ~global
    <3>1. p.where # None /\ rules' = rules
      BY <1>2, <2>1, <2>5, PasteAdds DEF GoesToDashboard
    <3>2. PastedIn(None)' = PastedIn(None)
      BY <2>3, <3>1
    <3> HIDE DEF PastedIn
    <3> QED
      BY <2>2, <3>1, <3>2 DEF RulesInv, FromPastes
  <2> QED
    BY <2>4, <2>5
<1>3. ASSUME NEW k \in Keys, Activity(k) \/ Dismiss(k) \/ MarkRead(k) PROVE RulesInv'
  BY <1>1, <1>3 DEF Activity, Dismiss, MarkRead, serverVars
<1>4. CASE Tick \/ Poll \/ RestartPoller \/ UNCHANGED vars
  BY <1>1, <1>4 DEF Tick, Poll, RestartPoller, vars, serverVars
<1> QED
  BY <1>2, <1>3, <1>4 DEF Next

(* Every step keeps the dashboards made of pastes.                         *)
LEMMA DashboardsStep ==
  ASSUME TypeOK, DashboardsInv, [Next]_vars
  PROVE  DashboardsInv'
<1>1. ASSUME UNCHANGED <<pasted, dashboards>> PROVE DashboardsInv'
  <2>1. \A name : PastedIn(name)' = PastedIn(name)
    BY <1>1 DEF PastedIn
  <2> QED
    BY <1>1, <2>1 DEF DashboardsInv
<1>2. ASSUME NEW k \in Keys, NEW name, NEW global \in BOOLEAN, NEW withContext \in BOOLEAN,
             PasteSnippet(k, name, global, withContext)
      PROVE  DashboardsInv'
  <2>1. PICK p : p = NewPaste(k, name, global, withContext)
    OBVIOUS
  <2>2. pasted' = pasted \cup {p}
    BY <1>2, <2>1, PasteAdds
  <2>3. \A at : PastedIn(at)' = PastedIn(at) \cup (IF p.where = at THEN {Criterion(p)} ELSE {})
    BY <2>2, PastedGrows
  <2>4. p.where # None => \E i \in DOMAIN Dashboards0 : Dashboards0[i].name = p.where
    <3>1. CASE global
      <4>1. GoesToRules(p)
        BY <1>2, <2>1, <3>1, PasteAdds
      <4> QED
        BY <4>1 DEF GoesToRules
    <3>2. CASE ~global
      <4>1. GoesToDashboard(p)
        BY <1>2, <2>1, <3>2, PasteAdds
      <4> QED
        BY <4>1 DEF GoesToDashboard
    <3> QED
      BY <1>2, <3>1, <3>2
  <2>5. \A q \in pasted' : q.where # None => \E i \in DOMAIN Dashboards0 : Dashboards0[i].name = q.where
    BY <2>2, <2>4 DEF DashboardsInv
  <2>6. DOMAIN dashboards = DOMAIN Dashboards0
    BY RuleFlowAssumption DEF TypeOK
  <2>7. \A i \in DOMAIN dashboards : /\ Dashboards0[i] \in Dashboard
                                     /\ Dashboards0[i].name \in Names /\ Dashboards0[i].name # None
    BY <2>6, RuleFlowAssumption, DashboardsAssumption
  <2>8. CASE global
    <3>1. p.where = None /\ dashboards' = dashboards
      BY <1>2, <2>1, <2>8, PasteAdds DEF GoesToRules
    <3>2. \A i \in DOMAIN dashboards : PastedIn(Dashboards0[i].name)' = PastedIn(Dashboards0[i].name)
      BY <2>3, <2>7, <3>1
    <3> QED
      BY <2>5, <3>1, <3>2 DEF DashboardsInv
  <2>9. CASE ~global
    <3>1. dashboards' = Add(Criterion(p), p.where)
      BY <1>2, <2>1, <2>9, PasteAdds DEF GoesToDashboard
    <3>2. ASSUME NEW i \in DOMAIN dashboards
          PROVE  dashboards'[i] = [Dashboards0[i] EXCEPT
                                     !.ignore_rules = @ \cup PastedIn(Dashboards0[i].name)']
      <4>1. /\ dashboards[i] = [Dashboards0[i] EXCEPT
                                 !.ignore_rules = @ \cup PastedIn(Dashboards0[i].name)]
            /\ Dashboards0[i] \in Dashboard
        BY <2>7 DEF DashboardsInv
      <4>2. dashboards[i].name = Dashboards0[i].name
        <5> HIDE DEF PastedIn
        <5> QED
          BY <4>1 DEF Dashboard
      <4>3. CASE Dashboards0[i].name = p.where
        <5>1. dashboards'[i] = [dashboards[i] EXCEPT !.ignore_rules = @ \cup {Criterion(p)}]
          BY <3>1, <4>2, <4>3 DEF Add
        <5>2. PastedIn(Dashboards0[i].name)' = PastedIn(Dashboards0[i].name) \cup {Criterion(p)}
          BY <2>3, <4>3
        <5>3. \A d \in Dashboard : \A S, c :
                [[d EXCEPT !.ignore_rules = @ \cup S] EXCEPT !.ignore_rules = @ \cup {c}]
                  = [d EXCEPT !.ignore_rules = @ \cup (S \cup {c})]
          BY DEF Dashboard
        <5> QED
          BY <4>1, <5>1, <5>2, <5>3
      <4>4. CASE Dashboards0[i].name # p.where
        <5>1. dashboards'[i] = dashboards[i]
          BY <3>1, <4>2, <4>4 DEF Add
        <5>2. PastedIn(Dashboards0[i].name)' = PastedIn(Dashboards0[i].name)
          BY <2>3, <4>4
        <5> QED
          BY <4>1, <5>1, <5>2
      <4> QED
        BY <4>3, <4>4
    <3>3. DOMAIN dashboards' = DOMAIN dashboards
      BY <3>1 DEF Add
    <3> QED
      BY <2>5, <3>2, <3>3 DEF DashboardsInv
  <2> QED
    BY <2>8, <2>9
<1>3. ASSUME NEW k \in Keys, Activity(k) \/ Dismiss(k) \/ MarkRead(k) PROVE DashboardsInv'
  BY <1>1, <1>3 DEF Activity, Dismiss, MarkRead, serverVars
<1>4. CASE Tick \/ Poll \/ RestartPoller \/ UNCHANGED vars
  BY <1>1, <1>4 DEF Tick, Poll, RestartPoller, vars, serverVars
<1> QED
  BY <1>2, <1>3, <1>4 DEF Next
(* The verdict of a poll: a first rule says so now, or a paste covers it.  *)
LEMMA VerdictOfPoll ==
  ASSUME TypeOK, InboxInv, RulesInv, NEW k \in Keys, inbox[k] # None, NEW ctx \in Context,
         Stored(k, ctx).excluded
  PROVE  \/ ExcludedAtSomeTime(Stored(k, ctx), now)
         \/ \E p \in pasted : p.where = None /\ Covers(p, Stored(k, ctx))
<1> DEFINE r == Stored(k, ctx)
           n == inbox[k]
           score == Score(n, Scoring0, now)
<1>1. /\ r.n = n /\ r.score = score /\ r.context = ctx
      /\ r.excluded = Excluded(running, n, score, now, ctx)
  BY DEF Stored
<1>2. /\ n \in Notification /\ n.unread = TRUE /\ n.updated_at <= now
      /\ n.updated_at \in Nat /\ now \in Nat
  <2>1. n \in Notification /\ now \in Nat
    BY RuleFlowAssumption DEF TypeOK
  <2> QED
    BY <2>1 DEF InboxInv, Notification
<1>3. [n EXCEPT !.unread = TRUE] = n
  BY <1>2 DEF Notification
<1>4. PICK rule \in running.global \cup running.per_repository[n.repository] :
        rule.exclude /\ Matches(rule.match, n, score, now, ctx)
  BY <1>1 DEF Excluded, Matched
<1> HIDE DEF r, n, score
<1>5. CASE rule \in Rules0.global \cup Rules0.per_repository[n.repository]
  <2>1. Excluded(Rules0, n, score, now, ctx)
    BY <1>4, <1>5 DEF Excluded, Matched
  <2>2. now \in r.n.updated_at..now
    BY <1>1, <1>2
  <2>3. Excluded(Rules0, [r.n EXCEPT !.unread = TRUE], r.score, now, r.context)
    BY <1>1, <1>3, <2>1
  <2>4. ExcludedAtSomeTime(r, now)
    BY <2>2, <2>3 DEF ExcludedAtSomeTime
  <2> QED
    BY <2>4 DEF r
<1>6. CASE rule \notin Rules0.global \cup Rules0.per_repository[n.repository]
  <2>1. PICK c \in PastedIn(None) : rule = [match |-> c, exclude |-> TRUE]
    BY <1>4, <1>6 DEF RulesInv, FromPastes
  <2>2. PICK p \in pasted : p.where = None /\ c = Criterion(p)
    BY <2>1 DEF PastedIn
  <2>3. p \in Paste /\ Matches(Criterion(p), n, score, now, ctx)
    BY <1>4, <2>1, <2>2 DEF TypeOK
  <2>4. p.about = About(n) /\ Agrees(p.told, ctx)
    BY <2>3, CriterionMatches
  <2>5. Covers(p, r)
    BY <1>1, <2>4 DEF Covers
  <2> QED
    BY <2>2, <2>5 DEF r
<1> QED
  BY <1>5, <1>6

(* It is of the row's attributes and lasts, whatever is read or dismissed. *)
LEMMA ExcludedLasts ==
  ASSUME NEW r \in Row, NEW s, NEW hour \in Nat, NEW later \in Nat, hour <= later,
         ExcludedAtSomeTime(r, hour), s.score = r.score, s.context = r.context,
         s.n = r.n \/ s.n = [r.n EXCEPT !.unread = FALSE]
  PROVE  ExcludedAtSomeTime(s, later)
<1>1. r.n \in Notification
  BY DEF Row
<1>2. r.n.updated_at \in Nat /\ s.n.updated_at = r.n.updated_at
  BY <1>1 DEF Notification
<1>3. [s.n EXCEPT !.unread = TRUE] = [r.n EXCEPT !.unread = TRUE]
  BY <1>1 DEF Notification
<1>4. PICK t \in r.n.updated_at..hour :
        Excluded(Rules0, [r.n EXCEPT !.unread = TRUE], r.score, t, r.context)
  BY DEF ExcludedAtSomeTime
<1>5. t \in s.n.updated_at..later
  BY <1>2, <1>4
<1> QED
  BY <1>3, <1>4, <1>5 DEF ExcludedAtSomeTime

(* Every step keeps excluded rows explained: a poll by VerdictOfPoll, the  *)
(* others because the reasons last.                                        *)
LEMMA ExcludedStep ==
  ASSUME TypeOK, DashboardsInv, InboxInv, RulesInv, ExcludedInv, [Next]_vars
  PROVE  ExcludedInv'
<1> DEFINE Fine(r, hour, snippets) ==
             \/ ExcludedAtSomeTime(r, hour)
             \/ \E p \in snippets : p.where = None /\ Covers(p, r)
<1>1. now \in Nat /\ now' \in Nat /\ now <= now' /\ pasted \subseteq pasted'
  <2>1. now \in Nat
    BY RuleFlowAssumption DEF TypeOK
  <2>2. now' = now \/ now' = now + 1
    BY DEF Next, Activity, Dismiss, MarkRead, Tick, Poll, RestartPoller, PasteSnippet, vars
  <2>3. pasted \subseteq pasted'
    BY DEF Next, Activity, Dismiss, MarkRead, Tick, Poll, RestartPoller, PasteSnippet, vars
  <2> QED
    BY <2>1, <2>2, <2>3
(* A row that is the same but for having been read or dismissed.           *)
<1>2. ASSUME NEW k \in Keys, db[k] # None, db'[k].excluded, db'[k].excluded = db[k].excluded,
             db'[k].score = db[k].score, db'[k].context = db[k].context,
             db'[k].n = db[k].n \/ db'[k].n = [db[k].n EXCEPT !.unread = FALSE]
      PROVE  Fine(db'[k], now', pasted')
  <2>1. db[k] \in Row
    BY <1>2 DEF TypeOK
  <2>2. CASE ExcludedAtSomeTime(db[k], now)
    BY <1>1, <1>2, <2>1, <2>2, ExcludedLasts
  <2>3. ASSUME NEW p \in pasted, p.where = None, Covers(p, db[k]) PROVE Fine(db'[k], now', pasted')
    <3>1. About(db'[k].n) = About(db[k].n)
      BY <1>2, <2>1 DEF About, Row, Notification
    <3>2. Covers(p, db'[k])
      BY <1>2, <2>3, <3>1 DEF Covers
    <3> QED
      BY <1>1, <2>3, <3>2
  <2> QED
    BY <1>2, <2>2, <2>3 DEF ExcludedInv
<1>3. ASSUME \A k \in Keys : db'[k] # None /\ db'[k].excluded => Fine(db'[k], now', pasted')
      PROVE  ExcludedInv'
  BY <1>3 DEF ExcludedInv
<1>4. CASE UNCHANGED db
  <2>1. ASSUME NEW k \in Keys, db'[k] # None, db'[k].excluded PROVE Fine(db'[k], now', pasted')
    BY <1>2, <1>4, <2>1
  <2> HIDE DEF Fine
  <2> QED
    BY <1>3, <2>1
<1>5. CASE Poll
  <2>1. PICK ctx \in Enriched :
          db' = [k \in Keys |-> IF inbox[k] = None THEN db[k] ELSE Stored(k, ctx[k])]
    BY <1>5 DEF Poll
  <2>2. now' = now /\ pasted' = pasted
    BY <1>5 DEF Poll
  <2>3. ASSUME NEW k \in Keys, db'[k] # None, db'[k].excluded PROVE Fine(db'[k], now', pasted')
    <3>1. CASE inbox[k] = None
      <4>1. db'[k] = db[k]
        BY <2>1, <3>1
      <4> QED
        BY <1>2, <2>3, <4>1
    <3>2. CASE inbox[k] # None
      <4>1. db'[k] = Stored(k, ctx[k])
        BY <2>1, <3>2
      <4>2. Fine(Stored(k, ctx[k]), now, pasted)
        BY <2>3, <3>2, <4>1, EnrichedType, VerdictOfPoll
      <4> QED
        BY <2>2, <4>1, <4>2
    <3> QED
      BY <3>1, <3>2
  <2> HIDE DEF Fine
  <2> QED
    BY <1>3, <2>3
<1>6. ASSUME NEW k \in Keys, Dismiss(k) PROVE ExcludedInv'
  <2>1. db[k] # None /\ db[k] \in Row /\ db' = [db EXCEPT ![k].dismissed = TRUE]
    BY <1>6 DEF Dismiss, TypeOK
  <2>2. /\ db'[k].excluded = db[k].excluded /\ db'[k].score = db[k].score
        /\ db'[k].context = db[k].context /\ db'[k].n = db[k].n
    BY <2>1 DEF TypeOK, Row
  <2>3. \A j \in Keys \ {k} : db'[j] = db[j]
    BY <2>1 DEF TypeOK
  <2>4. ASSUME NEW j \in Keys, db'[j] # None, db'[j].excluded PROVE Fine(db'[j], now', pasted')
    <3>1. CASE j = k
      BY <1>2, <2>1, <2>2, <2>4, <3>1
    <3>2. CASE j # k
      BY <1>2, <2>3, <2>4, <3>2
    <3> QED
      BY <3>1, <3>2
  <2> HIDE DEF Fine
  <2> QED
    BY <1>3, <2>4
<1>7. ASSUME NEW k \in Keys, MarkRead(k) PROVE ExcludedInv'
  <2>1. db[k] # None /\ db[k] \in Row /\ db' = [db EXCEPT ![k].n.unread = FALSE]
    BY <1>7 DEF MarkRead, TypeOK
  <2>2. /\ db'[k].excluded = db[k].excluded /\ db'[k].score = db[k].score
        /\ db'[k].context = db[k].context /\ db'[k].n = [db[k].n EXCEPT !.unread = FALSE]
    BY <2>1 DEF TypeOK, Row
  <2>3. \A j \in Keys \ {k} : db'[j] = db[j]
    BY <2>1 DEF TypeOK
  <2>4. ASSUME NEW j \in Keys, db'[j] # None, db'[j].excluded PROVE Fine(db'[j], now', pasted')
    <3>1. CASE j = k
      BY <1>2, <2>1, <2>2, <2>4, <3>1
    <3>2. CASE j # k
      BY <1>2, <2>3, <2>4, <3>2
    <3> QED
      BY <3>1, <3>2
  <2> HIDE DEF Fine
  <2> QED
    BY <1>3, <2>4
<1>8. ASSUME NEW k \in Keys, Activity(k) PROVE ExcludedInv'
  BY <1>4, <1>8 DEF Activity, serverVars
<1>9. ASSUME NEW k \in Keys, NEW name, NEW global \in BOOLEAN, NEW withContext \in BOOLEAN,
             PasteSnippet(k, name, global, withContext)
      PROVE  ExcludedInv'
  BY <1>4, <1>9 DEF PasteSnippet
<1>10. CASE Tick \/ RestartPoller \/ UNCHANGED vars
  BY <1>4, <1>10 DEF Tick, RestartPoller, vars, serverVars
<1> QED
  BY <1>5, <1>6, <1>7, <1>8, <1>9, <1>10 DEF Next

-----------------------------------------------------------------------------
(* The theorems.                                                           *)

LEMMA InvStep == FlowInv /\ [Next]_vars => FlowInv'
BY TypeStep, FewKnownStep, InboxStep, RulesStep, DashboardsStep, ExcludedStep DEF FlowInv

(* Every state of the flow from a snippet to a view is one of these        *)
(* (rule_snippets.py, rules.py, services.py, dashboarding.py).             *)
THEOREM FlowInvariant == Spec => []FlowInv
<1>1. Init => FlowInv
  BY InitHolds
<1>2. FlowInv /\ [Next]_vars => FlowInv'
  BY InvStep
<1> QED
  BY <1>1, <1>2, PTL DEF Spec

(* Type correctness: rows stay under their keys, rules and dashboards are  *)
(* ones the configuration admits.                                          *)
THEOREM TypeCorrect == Spec => []TypeOK
<1>1. FlowInv => TypeOK
  BY DEF FlowInv
<1> QED
  BY <1>1, FlowInvariant, PTL

(* A dashboard that is shown: the built-in one, or what the file says with *)
(* the pastes, or the default one of a file without any.                   *)
LEMMA ShownDashboards ==
  ASSUME TypeOK, DashboardsInv, NEW d \in Shown
  PROVE  /\ d \in Dashboard
         /\ \/ d.name = NoFilters /\ \A p \in pasted : p.where # d.name
            \/ /\ d.name # NoFilters
               /\ d.ignore_rules = {} /\ \A p \in pasted : p.where # d.name
            \/ /\ d.name # NoFilters
               /\ \E i \in DOMAIN Dashboards0 :
                    /\ Dashboards0[i].name = d.name
                    /\ d.ignore_rules = Dashboards0[i].ignore_rules \cup PastedIn(d.name)
<1>1. DefaultDashboard \in Dashboard /\ NoFiltersDashboard \in Dashboard
  <2>1. \A name \in Names \cup {NoFilters, Default} : DashboardNamed(name) \in Dashboard
    BY AnyNotificationType DEF DashboardNamed, Dashboard, GroupKeys, SortKeys
  <2>2. DashboardNamed(Default) \in Dashboard /\ DashboardNamed(NoFilters) \in Dashboard
    BY <2>1
  <2> HIDE DEF DashboardNamed
  <2> QED
    BY <2>2 DEF DefaultDashboard, NoFiltersDashboard, Dashboard, GroupKeys
<1>2. /\ DefaultDashboard.name = Default /\ DefaultDashboard.ignore_rules = {}
      /\ NoFiltersDashboard.name = NoFilters
  BY DEF DefaultDashboard, NoFiltersDashboard, DashboardNamed
<1>3. \A p \in pasted : p.where # None => p.where \in Names
  BY RuleFlowAssumption DEF DashboardsInv
<1>4. \/ d = NoFiltersDashboard
      \/ d = DefaultDashboard /\ dashboards = <<>>
      \/ \E i \in DOMAIN dashboards : d = dashboards[i]
  <2>1. PICK i \in DOMAIN Available(dashboards) : d = Available(dashboards)[i]
    BY DEF Shown
  <2>2. dashboards \in Seq(Dashboard)
    BY DEF TypeOK
  <2>3. <<DefaultDashboard>> \in Seq(Dashboard) /\ <<NoFiltersDashboard>> \in Seq(Dashboard)
    BY <1>1
  <2> QED
    BY <2>1, <2>2, <2>3 DEF Available
<1>5. CASE d = NoFiltersDashboard
  BY <1>1, <1>2, <1>3, <1>5, DashboardsAssumption
<1>6. CASE d = DefaultDashboard /\ dashboards = <<>>
  <2>1. DOMAIN Dashboards0 = {}
    BY <1>6, RuleFlowAssumption DEF TypeOK
  <2>2. \A p \in pasted : p.where = None
    BY <2>1 DEF DashboardsInv
  <2>3. d.name = Default /\ d.ignore_rules = {}
    BY <1>2, <1>6
  <2>4. d.name # NoFilters /\ \A p \in pasted : p.where # d.name
    BY <2>2, <2>3, DashboardsAssumption
  <2>5. d \in Dashboard
    BY <1>1, <1>6
  <2> QED
    BY <2>3, <2>4, <2>5
<1>7. ASSUME NEW i \in DOMAIN dashboards, d = dashboards[i]
      PROVE  /\ d \in Dashboard /\ d.name # NoFilters
             /\ i \in DOMAIN Dashboards0 /\ Dashboards0[i].name = d.name
             /\ d.ignore_rules = Dashboards0[i].ignore_rules \cup PastedIn(d.name)
  <2>1. i \in DOMAIN Dashboards0 /\ d \in Dashboard
    BY <1>7, RuleFlowAssumption DEF TypeOK
  <2>2. Dashboards0[i] \in Dashboard /\ Dashboards0[i].name \in Names
    BY <2>1, RuleFlowAssumption
  <2>3. d = [Dashboards0[i] EXCEPT !.ignore_rules = @ \cup PastedIn(Dashboards0[i].name)]
    BY <1>7 DEF DashboardsInv
  <2> HIDE DEF PastedIn
  <2>4. /\ d.name = Dashboards0[i].name
        /\ d.ignore_rules = Dashboards0[i].ignore_rules \cup PastedIn(Dashboards0[i].name)
    BY <2>2, <2>3 DEF Dashboard
  <2> QED
    BY <2>1, <2>2, <2>4, DashboardsAssumption
<1> QED
  BY <1>4, <1>5, <1>6, <1>7

(* The table has finitely many rows.                                       *)
LEMMA RowsAreRows == TypeOK /\ FewKnown => IsFiniteSet(Rows) /\ Rows \subseteq Row
<1> SUFFICES ASSUME TypeOK, FewKnown PROVE IsFiniteSet(Rows) /\ Rows \subseteq Row
  OBVIOUS
<1> DEFINE stored == {k \in Keys : db[k] # None}
           f == [k \in stored |-> db[k]]
<1>1. IsFiniteSet(stored)
  <2>1. stored \subseteq {k \in Keys : inbox[k] # None \/ db[k] # None}
    OBVIOUS
  <2> QED
    BY <2>1, FS_Subset DEF FewKnown
<1>2. f \in [stored -> Rows] /\ \A r \in Rows : \E k \in stored : f[k] = r
  BY DEF Rows
<1>3. \A j, k \in stored : f[j] = f[k] => j = k
  BY DEF TypeOK
<1>4. Rows \subseteq Row
  BY DEF Rows, TypeOK
<1> HIDE DEF stored, f
<1> QED
  BY <1>1, <1>2, <1>3, <1>4, CountedOnce

(* So every view is faithful.                                              *)
LEMMA ViewsAreFaithful == FlowInv => ViewIsFaithful
<1> SUFFICES ASSUME FlowInv, NEW rows \in ReadOrders, NEW d \in Shown PROVE FaithfulView(rows, d)
  BY DEF ViewIsFaithful
<1>1. IsFiniteSet(Rows) /\ Rows \subseteq Row
  BY RowsAreRows DEF FlowInv
<1>2. d \in Dashboard
  BY ShownDashboards DEF FlowInv
<1> QED
  BY <1>1, <1>2, ViewOfRows

(* A paste matches what it covers (CriterionMatches), and every shown      *)
(* dashboard has its pastes.                                               *)
LEMMA PastesHide == FlowInv => PastedStaysHidden
<1> SUFFICES ASSUME FlowInv, NEW p \in pasted, NEW r \in Rows, NEW d \in Shown,
                    p.where = d.name, Covers(p, r)
             PROVE  ~Included(r, d, now)
  BY DEF PastedStaysHidden
<1>1. /\ d.name # NoFilters
      /\ \E i \in DOMAIN Dashboards0 :
           d.ignore_rules = Dashboards0[i].ignore_rules \cup PastedIn(d.name)
  BY ShownDashboards DEF FlowInv
<1>2. Criterion(p) \in d.ignore_rules
  BY <1>1 DEF PastedIn
<1>3. p \in Paste
  BY DEF FlowInv, TypeOK
<1>4. Hits(Criterion(p), r, now)
  BY <1>3, CriterionMatches DEF Hits, Covers
<1> QED
  BY <1>1, <1>2, <1>4 DEF Included

(* A row is missing because of its state, the match of the dashboard, its  *)
(* ignore rules or the verdict of a poll; pastes account for what the      *)
(* first file does not.                                                    *)
LEMMA HiddenIsExplained == FlowInv => HiddenForAReason
<1> SUFFICES ASSUME FlowInv, NEW r \in Rows, NEW d \in Shown, ~r.dismissed, ~Included(r, d, now)
             PROVE  Explained(r, d)
  BY DEF HiddenForAReason
<1>1. PICK k \in Keys : r = db[k] /\ db[k] # None
  BY DEF Rows
<1>2. /\ d.name # NoFilters
      /\ \/ d.ignore_rules = {}
         \/ \E i \in DOMAIN Dashboards0 :
              /\ Dashboards0[i].name = d.name
              /\ d.ignore_rules = Dashboards0[i].ignore_rules \cup PastedIn(d.name)
  BY ShownDashboards DEF FlowInv, Included
<1>3. \/ r.excluded
      \/ ~r.n.unread /\ ~d.include_read
      \/ ~Hits(d.match, r, now)
      \/ \E c \in d.ignore_rules : Hits(c, r, now)
  BY <1>2 DEF Included
<1>4. CASE r.excluded
  <2>1. ExcludedAtSomeTime(r, now) \/ \E p \in pasted : p.where = None /\ Covers(p, r)
    BY <1>1, <1>4 DEF FlowInv, ExcludedInv
  <2> QED
    BY <1>2, <2>1 DEF Explained
<1>5. ASSUME NEW c \in d.ignore_rules, Hits(c, r, now) PROVE Explained(r, d)
  <2>1. PICK i \in DOMAIN Dashboards0 :
          /\ Dashboards0[i].name = d.name
          /\ d.ignore_rules = Dashboards0[i].ignore_rules \cup PastedIn(d.name)
    BY <1>2, <1>5
  <2>2. CASE c \in Dashboards0[i].ignore_rules
    BY <1>2, <1>5, <2>1, <2>2 DEF Explained
  <2>3. CASE c \in PastedIn(d.name)
    <3>1. PICK p \in pasted : p.where = d.name /\ c = Criterion(p)
      BY <2>3 DEF PastedIn
    <3>2. p \in Paste
      BY DEF FlowInv, TypeOK
    <3>3. Covers(p, r)
      BY <1>5, <3>1, <3>2, CriterionMatches DEF Hits, Covers
    <3> QED
      BY <1>2, <3>1, <3>3 DEF Explained
  <2> QED
    BY <1>5, <2>1, <2>2, <2>3
<1> QED
  BY <1>2, <1>3, <1>4, <1>5 DEF Explained

(* A row that is not dismissed is missing from a dashboard only for a      *)
(* reason, for every configuration, every set of rules and every sequence  *)
(* of polls and pastes (evaluate_rules, _filter_records,                   *)
(* _notification_rule_snippets_impl).                                      *)
THEOREM HiddenForAReasonHolds == Spec => []HiddenForAReason
BY FlowInvariant, HiddenIsExplained, PTL

(* What a dashboard snippet was made for stays hidden there, whatever      *)
(* happens afterwards (_notification_rule_snippets_impl, _is_ignored).     *)
THEOREM PastedStaysHiddenHolds == Spec => []PastedStaysHidden
BY FlowInvariant, PastesHide, PTL

(* Every dashboard view is faithful to the rows, for every table, order of *)
(* reading, sort, cut and grouping (build_dashboard_data).                 *)
THEOREM ViewIsFaithfulHolds == Spec => []ViewIsFaithful
BY FlowInvariant, ViewsAreFaithful, PTL

-----------------------------------------------------------------------------
(* The cached config, for any number of worker threads, edits of any kind  *)
(* and SIGHUPs between any two of their steps.                             *)

(* The cached fields, whichever of them SIGHUP has cleared and whichever   *)
(* thread wrote each last: neither is newer than the newest content stored.*)
FieldsAgree ==
  /\ cache.config # Unset => cache.config <= newest
  /\ cache.mtime # Unset => cache.mtime <= newest

(* What a thread holds: the file, which only changes forward, was asked    *)
(* for its mtime before it was parsed, and a hit in the cache means that   *)
(* something as new as the mtime has been stored.                          *)
ThreadAgrees(t) ==
  /\ seen[t] <= file.mtime
  /\ pc[t] \in {"setConfig", "setPath", "setMtime"} => seen[t] <= parsed[t]
  /\ pc[t] \in {"setPath", "setMtime"} => parsed[t] <= newest
  /\ pc[t] = "cached" => seen[t] <= newest
  /\ pc[t] \in {"path", "mtime", "cached"} /\ cache.config = Unset => t \in cleared
  /\ pc[t] = "done" /\ result[t] = Unset => t \in cleared
  /\ pc[t] = "done" /\ result[t] # Unset => result[t] >= seen[t] \/ t \in misled

CacheIInv == CacheTypeOK /\ FieldsAgree /\ \A t \in Threads : ThreadAgrees(t)

LEMMA CacheInitOK == CacheInit => CacheIInv
BY CacheAssumption DEF CacheInit, CacheIInv, CacheTypeOK, Version, Places, FieldsAgree, ThreadAgrees

(* A step of one thread, under the eyes of the others.                     *)
LEMMA CallKeeps ==
  ASSUME CacheIInv, NEW t \in Threads, Call(t)
  PROVE  CacheIInv'
<1> USE CacheAssumption DEF CacheIInv, CacheTypeOK, Version, Places, Goto, history
<1>1. CASE Stat(t)
  <2>1. CacheTypeOK'
    BY <1>1 DEF Stat
  <2>2. FieldsAgree'
    BY <1>1 DEF Stat, FieldsAgree, ThreadAgrees
  <2>3. ASSUME NEW s \in Threads PROVE ThreadAgrees(s)'
    <3>1. CASE s = t
      BY <1>1, <3>1 DEF Stat, FieldsAgree, ThreadAgrees
    <3>2. CASE s # t
      BY <1>1, <3>2 DEF Stat, ThreadAgrees
    <3> QED
      BY <3>1, <3>2
  <2> QED
    BY <2>1, <2>2, <2>3
<1>2. CASE CheckConfig(t)
  <2>1. CacheTypeOK'
    BY <1>2 DEF CheckConfig, Compare
  <2>2. FieldsAgree'
    BY <1>2 DEF CheckConfig, Compare, FieldsAgree, ThreadAgrees
  <2>3. ASSUME NEW s \in Threads PROVE ThreadAgrees(s)'
    <3>1. CASE s = t
      BY <1>2, <3>1 DEF CheckConfig, Compare, FieldsAgree, ThreadAgrees
    <3>2. CASE s # t
      BY <1>2, <3>2 DEF CheckConfig, Compare, ThreadAgrees
    <3> QED
      BY <3>1, <3>2
  <2> QED
    BY <2>1, <2>2, <2>3
<1>3. CASE CheckPath(t)
  <2>1. CacheTypeOK'
    BY <1>3 DEF CheckPath, Compare
  <2>2. FieldsAgree'
    BY <1>3 DEF CheckPath, Compare, FieldsAgree, ThreadAgrees
  <2>3. ASSUME NEW s \in Threads PROVE ThreadAgrees(s)'
    <3>1. CASE s = t
      BY <1>3, <3>1 DEF CheckPath, Compare, FieldsAgree, ThreadAgrees
    <3>2. CASE s # t
      BY <1>3, <3>2 DEF CheckPath, Compare, ThreadAgrees
    <3> QED
      BY <3>1, <3>2
  <2> QED
    BY <2>1, <2>2, <2>3
<1>4. CASE CheckMtime(t)
  <2>1. CacheTypeOK'
    BY <1>4 DEF CheckMtime, Compare
  <2>2. FieldsAgree'
    BY <1>4 DEF CheckMtime, Compare, FieldsAgree, ThreadAgrees
  <2>3. ASSUME NEW s \in Threads PROVE ThreadAgrees(s)'
    <3>1. CASE s = t
      BY <1>4, <3>1 DEF CheckMtime, Compare, FieldsAgree, ThreadAgrees
    <3>2. CASE s # t
      BY <1>4, <3>2 DEF CheckMtime, Compare, ThreadAgrees
    <3> QED
      BY <3>1, <3>2
  <2> QED
    BY <2>1, <2>2, <2>3
<1>5. CASE ReturnCached(t)
  <2>1. CacheTypeOK'
    BY <1>5 DEF ReturnCached
  <2>2. FieldsAgree'
    BY <1>5 DEF ReturnCached, FieldsAgree, ThreadAgrees
  <2>3. ASSUME NEW s \in Threads PROVE ThreadAgrees(s)'
    <3>1. CASE s = t
      BY <1>5, <3>1 DEF ReturnCached, FieldsAgree, ThreadAgrees
    <3>2. CASE s # t
      BY <1>5, <3>2 DEF ReturnCached, ThreadAgrees
    <3> QED
      BY <3>1, <3>2
  <2> QED
    BY <2>1, <2>2, <2>3
<1>6. CASE Load(t)
  <2>1. CacheTypeOK'
    BY <1>6 DEF Load
  <2>2. FieldsAgree'
    BY <1>6 DEF Load, FieldsAgree, ThreadAgrees
  <2>3. ASSUME NEW s \in Threads PROVE ThreadAgrees(s)'
    <3>1. CASE s = t
      BY <1>6, <3>1 DEF Load, FieldsAgree, ThreadAgrees
    <3>2. CASE s # t
      BY <1>6, <3>2 DEF Load, ThreadAgrees
    <3> QED
      BY <3>1, <3>2
  <2> QED
    BY <2>1, <2>2, <2>3
<1>7. CASE SetConfig(t)
  <2>1. CacheTypeOK'
    BY <1>7 DEF SetConfig
  <2>2. FieldsAgree'
    BY <1>7 DEF SetConfig, FieldsAgree, ThreadAgrees
  <2>3. ASSUME NEW s \in Threads PROVE ThreadAgrees(s)'
    <3>1. CASE s = t
      BY <1>7, <3>1 DEF SetConfig, FieldsAgree, ThreadAgrees
    <3>2. CASE s # t
      BY <1>7, <3>2 DEF SetConfig, ThreadAgrees
    <3> QED
      BY <3>1, <3>2
  <2> QED
    BY <2>1, <2>2, <2>3
<1>8. CASE SetPath(t)
  <2>1. CacheTypeOK'
    BY <1>8 DEF SetPath
  <2>2. FieldsAgree'
    BY <1>8 DEF SetPath, FieldsAgree, ThreadAgrees
  <2>3. ASSUME NEW s \in Threads PROVE ThreadAgrees(s)'
    <3>1. CASE s = t
      BY <1>8, <3>1 DEF SetPath, FieldsAgree, ThreadAgrees
    <3>2. CASE s # t
      BY <1>8, <3>2 DEF SetPath, ThreadAgrees
    <3> QED
      BY <3>1, <3>2
  <2> QED
    BY <2>1, <2>2, <2>3
<1>9. CASE SetMtime(t)
  <2>1. CacheTypeOK'
    BY <1>9 DEF SetMtime
  <2>2. FieldsAgree'
    BY <1>9 DEF SetMtime, FieldsAgree, ThreadAgrees
  <2>3. ASSUME NEW s \in Threads PROVE ThreadAgrees(s)'
    <3>1. CASE s = t
      BY <1>9, <3>1 DEF SetMtime, FieldsAgree, ThreadAgrees
    <3>2. CASE s # t
      BY <1>9, <3>2 DEF SetMtime, ThreadAgrees
    <3> QED
      BY <3>1, <3>2
  <2> QED
    BY <2>1, <2>2, <2>3
<1> QED
  BY <1>1, <1>2, <1>3, <1>4, <1>5, <1>6, <1>7, <1>8, <1>9 DEF Call

(* A step of the signal handler or of the operator.                        *)
LEMMA OutsideKeeps ==
  ASSUME CacheIInv, Clear \/ Edit
  PROVE  CacheIInv'
<1> USE CacheAssumption DEF CacheIInv, CacheTypeOK, Version, Places, history
<1>1. CASE ClearConfig
  BY <1>1 DEF ClearConfig, FieldsAgree, ThreadAgrees
<1>2. CASE ClearPath
  BY <1>2 DEF ClearPath, FieldsAgree, ThreadAgrees
<1>3. CASE ClearMtime
  BY <1>3 DEF ClearMtime, FieldsAgree, ThreadAgrees
<1>4. CASE Edit
  <2>1. PICK state \in {"valid", "invalid", "missing"} :
          file' = [mtime |-> file.mtime + 1, state |-> state]
    BY <1>4 DEF Edit
  <2>2. CacheTypeOK'
    BY <1>4, <2>1 DEF Edit
  <2> QED
    BY <1>4, <2>1, <2>2 DEF Edit, FieldsAgree, ThreadAgrees
<1> QED
  BY <1>1, <1>2, <1>3, <1>4 DEF Clear

(* The fields and the locals of all threads agree.                         *)
THEOREM CacheInvariance == CacheSpec => []CacheIInv
<1>1. CacheIInv /\ [CacheNext]_cacheVars => CacheIInv'
  <2>1. CacheIInv /\ UNCHANGED cacheVars => CacheIInv'
    BY DEF CacheIInv, CacheTypeOK, FieldsAgree, ThreadAgrees, cacheVars, history
  <2> QED
    BY <2>1, CallKeeps, OutsideKeeps DEF CacheNext
<1> QED
  BY CacheInitOK, <1>1, PTL DEF CacheSpec

-----------------------------------------------------------------------------
(* "The file's mtime is checked on every call": no call returns content    *)
(* older than the file was when the call began, unless a slower thread has *)
(* stored that content over a newer one, and none returns None unless      *)
(* SIGHUP came in mid-call; for any number of threads, edits and signals.  *)
THEOREM StaleOnlyByRace == CacheSpec => []NeverStale
<1>1. CacheIInv => NeverStale
  BY DEF CacheIInv, ThreadAgrees, NeverStale
<1> QED
  BY CacheInvariance, <1>1, PTL
=============================================================================
