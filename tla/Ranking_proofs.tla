--------------------------- MODULE Ranking_proofs ---------------------------
(***************************************************************************)
(* What the proofs of several components need of numbers and orders: a set *)
(* of naturals has a least element, which is how those proofs argue by     *)
(* induction; and the ranking of a finite ordered set lists each of its    *)
(* elements once, in the order.                                            *)
(***************************************************************************)
EXTENDS Ranking, FiniteSetTheorems, WellFoundedInduction, TLAPS

(* A non-empty set of naturals has a least element: what holds of no least *)
(* counterexample holds of every natural.                                  *)
LEMMA LeastNatural ==
  ASSUME NEW T \in SUBSET Nat, T # {}
  PROVE  \E n \in T : \A m \in T : n <= m
<1>1. PICK n \in T : \A k \in T : <<k, n>> \notin OpToRel(<, Nat)
  BY WFMin, NatLessThanWellFounded, Zenon
<1>2. \A k \in T : ~(k < n)
  BY <1>1, Zenon DEF OpToRel
<1> QED
  BY <1>2

(* How many elements come before one: fewer than the set has.              *)
LEMMA PrecedingBound ==
  ASSUME NEW S, IsFiniteSet(S), NEW R, Orders(R, S), NEW x \in S
  PROVE  /\ IsFiniteSet(Preceding(S, R, x))
         /\ Cardinality(Preceding(S, R, x)) \in 0..(Cardinality(S) - 1)
<1>1. Preceding(S, R, x) \in SUBSET (S \ {x})
  BY DEF Preceding, Orders
<1>2. IsFiniteSet(S \ {x}) /\ Cardinality(S \ {x}) = Cardinality(S) - 1
  BY FS_RemoveElement
<1>3. IsFiniteSet(Preceding(S, R, x)) /\ Cardinality(Preceding(S, R, x)) <= Cardinality(S) - 1
  BY <1>1, <1>2, FS_Subset
<1> QED
  BY <1>3, FS_CardinalityType

(* More of them come before a later element.                               *)
LEMMA PrecedingGrows ==
  ASSUME NEW S, IsFiniteSet(S), NEW R, Orders(R, S),
         NEW x \in S, NEW y \in S, <<x, y>> \in R
  PROVE  Cardinality(Preceding(S, R, x)) < Cardinality(Preceding(S, R, y))
<1>1. Preceding(S, R, x) \in SUBSET Preceding(S, R, y)
  BY DEF Preceding, Orders
<1>2. Preceding(S, R, x) # Preceding(S, R, y)
  BY DEF Preceding, Orders
<1>3. IsFiniteSet(Preceding(S, R, y))
  BY PrecedingBound
<1>4. /\ IsFiniteSet(Preceding(S, R, x))
      /\ Cardinality(Preceding(S, R, x)) <= Cardinality(Preceding(S, R, y))
      /\ Cardinality(Preceding(S, R, y)) = Cardinality(Preceding(S, R, x))
           => Preceding(S, R, y) = Preceding(S, R, x)
  BY <1>1, <1>3, FS_Subset
<1> QED
  BY <1>2, <1>3, <1>4, FS_CardinalityType

(* So the number tells the elements apart, and by counting, every place    *)
(* has its element.                                                        *)
LEMMA EveryPlaceIsTaken ==
  ASSUME NEW S, IsFiniteSet(S), NEW R, Orders(R, S), NEW p \in 1..Cardinality(S)
  PROVE  \E x \in S : Cardinality(Preceding(S, R, x)) = p - 1
<1> DEFINE n == Cardinality(S)
           f == [x \in S |-> Cardinality(Preceding(S, R, x))]
<1>1. n \in Nat
  BY FS_CardinalityType
<1>2. f \in [S -> 0..(n - 1)]
  BY PrecedingBound
<1>3. ASSUME NEW x \in S, NEW y \in S, f[x] = f[y] PROVE x = y
  <2>1. f[x] \in Nat /\ f[y] \in Nat
    BY <1>1, <1>2
  <2>2. CASE <<x, y>> \in R
    BY <2>1, <2>2, <1>3, PrecedingGrows
  <2>3. CASE <<y, x>> \in R
    BY <2>1, <2>3, <1>3, PrecedingGrows
  <2> QED
    BY <2>2, <2>3 DEF Orders
<1>4. f \in Injection(S, 0..(n - 1))
  BY <1>2, <1>3 DEF Injection, IsInjective
<1>5. IsFiniteSet(0..(n - 1)) /\ Cardinality(0..(n - 1)) = n
  <2> HIDE DEF n
  <2>1. 0 \in Int /\ n - 1 \in Int /\ (0 > n - 1 <=> n = 0)
    BY <1>1
  <2> QED
    BY <1>1, <2>1, FS_Interval
<1>6. f \in Surjection(S, 0..(n - 1))
  BY <1>4, <1>5, FS_Injection
<1>7. p - 1 \in 0..(n - 1)
  BY <1>1
<1>8. \E x \in S : f[x] = p - 1
  BY <1>6, <1>7 DEF Surjection
<1> QED
  BY <1>8

(* The ranking of a finite ordered set: a sequence of its elements, each   *)
(* at the place its predecessors leave free, an earlier one before a later *)
(* one.                                                                    *)
LEMMA RankedInOrder ==
  ASSUME NEW S, IsFiniteSet(S), NEW R, Orders(R, S)
  PROVE  /\ Ranked(S, R) \in [1..Cardinality(S) -> S]
         /\ \A i \in 1..Cardinality(S) :
              Cardinality(Preceding(S, R, Ranked(S, R)[i])) = i - 1
         /\ \A x \in S : Ranked(S, R)[Cardinality(Preceding(S, R, x)) + 1] = x
         /\ \A i, j \in 1..Cardinality(S) : i < j => <<Ranked(S, R)[i], Ranked(S, R)[j]>> \in R
<1> DEFINE n == Cardinality(S)
           s == Ranked(S, R)
<1>1. n \in Nat
  BY FS_CardinalityType
<1>2. ASSUME NEW i \in 1..n
      PROVE  s[i] \in S /\ Cardinality(Preceding(S, R, s[i])) = i - 1
  BY EveryPlaceIsTaken DEF Ranked
<1>3. ASSUME NEW x \in S, NEW y \in S,
             Cardinality(Preceding(S, R, x)) = Cardinality(Preceding(S, R, y))
      PROVE  x = y
  <2>1. Cardinality(Preceding(S, R, x)) \in Nat
    BY PrecedingBound
  <2>2. CASE <<x, y>> \in R
    BY <2>1, <2>2, <1>3, PrecedingGrows
  <2>3. CASE <<y, x>> \in R
    BY <2>1, <2>3, <1>3, PrecedingGrows
  <2> QED
    BY <2>2, <2>3 DEF Orders
<1>4. ASSUME NEW x \in S PROVE s[Cardinality(Preceding(S, R, x)) + 1] = x
  <2> DEFINE c == Cardinality(Preceding(S, R, x))
  <2>1. c \in 0..(n - 1)
    BY PrecedingBound
  <2>2. c + 1 \in 1..n
    BY <2>1, <1>1
  <2>3. s[c + 1] \in S /\ Cardinality(Preceding(S, R, s[c + 1])) = c
    BY <2>1, <2>2, <1>2
  <2> QED
    BY <2>3, <1>3
<1>5. ASSUME NEW i \in 1..n, NEW j \in 1..n, i < j PROVE <<s[i], s[j]>> \in R
  <2>1. s[i] \in S /\ s[j] \in S /\ s[i] # s[j]
    BY <1>2, <1>5, <1>1
  <2>2. CASE <<s[j], s[i]>> \in R
    <3>1. j - 1 < i - 1
      BY <2>1, <2>2, <1>2, PrecedingGrows
    <3> QED
      BY <3>1, <1>5, <1>1
  <2> QED
    BY <2>1, <2>2 DEF Orders
<1>6. s \in [1..n -> S]
  BY <1>2 DEF Ranked
<1> QED
  BY <1>2, <1>4, <1>5, <1>6
(* The order of places is an order, so a set of places can be written down *)
(* in it: each once, the smaller first.                                    *)
LEMMA PlacesInOrder ==
  ASSUME NEW m \in Nat, NEW places \in SUBSET (1..m)
  PROVE  /\ IsFiniteSet(places) /\ Cardinality(places) \in Nat
         /\ InOrder(places) \in [1..Cardinality(places) -> places]
         /\ \A x \in places : \E p \in 1..Cardinality(places) : InOrder(places)[p] = x
         /\ \A p, q \in 1..Cardinality(places) : p < q => InOrder(places)[p] < InOrder(places)[q]
<1> DEFINE R == {q \in places \X places : q[1] < q[2]}
<1>1. IsFiniteSet(places) /\ Cardinality(places) \in Nat
  <2>1. IsFiniteSet(1..m)
    BY FS_Interval
  <2> QED
    BY <2>1, FS_Subset, FS_CardinalityType
<1>2. \A x, y \in places : <<x, y>> \in R <=> x < y
  OBVIOUS
<1>3. \A x \in places : x \in Int
  OBVIOUS
<1>4. Orders(R, places)
  <2> HIDE DEF R
  <2> QED
    BY <1>2, <1>3 DEF Orders
<1>5. InOrder(places) = Ranked(places, R)
  BY DEF InOrder
<1> HIDE DEF R
<1>6. /\ Ranked(places, R) \in [1..Cardinality(places) -> places]
      /\ \A x \in places : Ranked(places, R)[Cardinality(Preceding(places, R, x)) + 1] = x
      /\ \A p, q \in 1..Cardinality(places) :
           p < q => <<Ranked(places, R)[p], Ranked(places, R)[q]>> \in R
  BY <1>1, <1>4, RankedInOrder
<1>7. \A x \in places : Cardinality(Preceding(places, R, x)) + 1 \in 1..Cardinality(places)
  <2> TAKE x \in places
  <2>1. Cardinality(Preceding(places, R, x)) \in 0..(Cardinality(places) - 1)
    BY <1>1, <1>4, PrecedingBound
  <2> QED
    BY <1>1, <2>1
<1>8. \A p, q \in 1..Cardinality(places) : p < q => InOrder(places)[p] < InOrder(places)[q]
  BY <1>2, <1>5, <1>6
<1> QED
  BY <1>1, <1>5, <1>6, <1>7, <1>8

(* An injective function has as many values as arguments.                  *)
LEMMA CountedOnce ==
  ASSUME NEW S, IsFiniteSet(S), NEW V, NEW f \in [S -> V],
         \A x, y \in S : f[x] = f[y] => x = y,
         \A v \in V : \E x \in S : f[x] = v
  PROVE  IsFiniteSet(V) /\ Cardinality(V) = Cardinality(S)
<1>1. f \in Bijection(S, V)
  BY DEF Bijection, Injection, Surjection, IsInjective
<1>2. ExistsBijection(S, V)
  BY <1>1 DEF ExistsBijection
<1> QED
  BY <1>2, FS_Bijection
=============================================================================
