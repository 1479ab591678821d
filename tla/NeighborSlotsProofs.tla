------------------------- MODULE NeighborSlotsProofs -------------------------
(***************************************************************************)
(* Theorems about NeighborSlots, for lists of any size and any points: the *)
(* slots of a list stay packed and hold each point once per zone, nothing  *)
(* is written past them as long as the list has a slot more than its first *)
(* zone, the binary search finds its place in a sorted zone, and the slots *)
(* implement the list of two zones that PathSeerBuild is made of.          *)
(***************************************************************************)
EXTENDS NeighborSlots, FiniteSetTheorems, FunctionTheorems, SequenceTheorems, TLAPS

-----------------------------------------------------------------------------
(* Induction over numbers, as a least element of a set of counterexamples    *)

\* A set of natural numbers that has members has a least one.
LEMMA LeastNumber ==
  ASSUME NEW T \in SUBSET Nat, T # {}
  PROVE  \E x \in T : \A y \in T : x <= y
<1>1. IsWellFoundedOn(OpToRel(<, Nat), Nat)
  BY NatLessThanWellFounded
<1>2. PICK x \in T : \A y \in T : ~(<<y, x>> \in OpToRel(<, Nat))
  BY <1>1, WFMin
<1>3. ASSUME NEW y \in T PROVE x <= y
  <2>1. x \in Nat /\ y \in Nat
    OBVIOUS
  <2>2. ~ (y < x)
    BY <1>2, <2>1 DEF OpToRel
  <2> QED BY <2>1, <2>2
<1> QED BY <1>3

\* The end of a zone is where its last empty slots begin.
LEMMA TrueEndFacts ==
  ASSUME NEW a, NEW b \in 0 .. Total
  PROVE  /\ TrueEnd(a, b) \in b .. Total
         /\ TrueEnd(a, b) = b \/ a[TrueEnd(a, b) - 1] # NoPoint
         /\ \A i \in TrueEnd(a, b) .. Total - 1 : a[i] = NoPoint
<1> DEFINE T == {k \in b .. Total : \A i \in k .. Total - 1 : a[i] = NoPoint}
<1>1. T \in SUBSET Nat /\ Total \in T
  BY SlotsAssumption
<1>2. PICK e \in T : \A k \in T : e <= k
  BY <1>1, LeastNumber
<1>3. e = b \/ a[e - 1] # NoPoint
  <2> SUFFICES ASSUME e # b, a[e - 1] = NoPoint PROVE FALSE
    OBVIOUS
  <2>1. e \in b + 1 .. Total /\ \A i \in e .. Total - 1 : a[i] = NoPoint
    BY SlotsAssumption
  <2>2. \A i \in e - 1 .. Total - 1 : i = e - 1 \/ i \in e .. Total - 1
    BY <2>1, SlotsAssumption
  <2>3. e - 1 \in T
    BY <2>1, <2>2, SlotsAssumption
  <2>4. ~(e <= e - 1)
    BY <2>1, SlotsAssumption
  <2> QED BY <1>2, <2>3, <2>4
<1> QED BY <1>2, <1>3 DEF TrueEnd

-----------------------------------------------------------------------------
(* The binary search of add_link_extending_fast                             *)

\* one round of the search in the slots r[1] .. r[2] - 1, with f for the rest
Halve(a, p, f, r) ==
  LET left == r[1]
      right == r[2]
      mid == (left + right) \div 2
  IN IF left >= right THEN left
     ELSE IF Dist[Owner][a[mid]] < Dist[Owner][p]
     THEN f[<<mid + 1, right>>] ELSE f[<<left, mid>>]

IsSearch(a, p, f) == f = [r \in Slots \X Slots |-> Halve(a, p, f, r)]

\* The middle of a range that is not empty is in it.
LEMMA Middle ==
  ASSUME NEW l \in Int, NEW r \in Int, l < r
  PROVE  (l + r) \div 2 \in l .. r - 1
OBVIOUS

\* A round goes on with a shorter range, so its result depends only on those.
LEMMA HalveLocal ==
  ASSUME NEW a, NEW p, NEW f, NEW g, NEW n \in Nat, NEW r \in Slots \X Slots,
         r[2] - r[1] <= n,
         \A q \in Slots \X Slots : q[2] - q[1] < n => f[q] = g[q]
  PROVE  Halve(a, p, f, r) = Halve(a, p, g, r)
<1> DEFINE mid == (r[1] + r[2]) \div 2
<1>1. r[1] \in 0 .. Total /\ r[2] \in 0 .. Total /\ r = <<r[1], r[2]>>
  BY DEF Slots
<1>2. CASE r[1] >= r[2]
  BY <1>2 DEF Halve
<1>3. CASE r[1] < r[2]
  <2>1. mid \in r[1] .. r[2] - 1
    BY <1>1, <1>3, Middle
  <2>2. <<mid + 1, r[2]>> \in Slots \X Slots /\ <<r[1], mid>> \in Slots \X Slots
    BY <1>1, <2>1, SlotsAssumption DEF Slots
  <2> DEFINE up == <<mid + 1, r[2]>>
             low == <<r[1], mid>>
  <2>3. up[2] - up[1] < n /\ low[2] - low[1] < n
    BY <1>1, <2>1
  <2>4. f[up] = g[up] /\ f[low] = g[low]
    BY <2>2, <2>3
  <2> QED BY <2>4 DEF Halve
<1> QED BY <1>1, <1>2, <1>3

\* The recursion of the search ends: there is a function that it describes.
LEMMA SearchExists == ASSUME NEW a, NEW p PROVE \E f : IsSearch(a, p, f)
<1> DEFINE R == Slots \X Slots
           Solves(f, n) == \A r \in R : r[2] - r[1] <= n => f[r] = Halve(a, p, f, r)
           T == {n \in Nat : ~ \E f : Solves(f, n)}
<1>1. ASSUME T # {} PROVE FALSE
  <2>1. PICK n \in T : \A k \in T : n <= k
    BY <1>1, LeastNumber
  <2>2. PICK g : \A r \in R : r[2] - r[1] < n => g[r] = Halve(a, p, g, r)
    <3>1. CASE n = 0
      <4> DEFINE h == [r \in R |-> r[1]]
      <4>1. \A r \in R : r[2] - r[1] < 0 => h[r] = Halve(a, p, h, r)
        BY DEF Halve, Slots
      <4> QED BY <3>1, <4>1
    <3>2. CASE n # 0
      <4>1. n - 1 \in Nat /\ ~(n <= n - 1)
        BY <3>2
      <4>2. n - 1 \notin T
        BY <2>1, <4>1
      <4>3. PICK g : Solves(g, n - 1)
        BY <4>1, <4>2
      <4>4. \A r \in R : r[2] - r[1] < n => r[2] - r[1] <= n - 1
        BY <2>1 DEF Slots
      <4> QED BY <4>3, <4>4
    <3> QED BY <3>1, <3>2
  <2> DEFINE h == [r \in R |-> Halve(a, p, g, r)]
  <2>3. \A r \in R : r[2] - r[1] < n => h[r] = g[r]
    BY <2>2
  <2> HIDE DEF h
  <2>4. \A r \in R : r[2] - r[1] <= n => Halve(a, p, h, r) = Halve(a, p, g, r)
    BY <2>1, <2>3, HalveLocal
  <2>5. Solves(h, n)
    BY <2>4 DEF h
  <2> QED BY <2>1, <2>5
<1>2. Total \in Nat
  BY SlotsAssumption
<1>3. PICK f : Solves(f, Total)
  BY <1>1, <1>2
<1>4. \A r \in R : r[2] - r[1] <= Total
  BY SlotsAssumption DEF Slots
<1> DEFINE h == [r \in R |-> f[r]]
<1>5. \A r \in R : h[r] = Halve(a, p, f, r)
  BY <1>3, <1>4
<1>6. \A r \in R : Halve(a, p, f, r) = Halve(a, p, h, r)
  <2> SUFFICES ASSUME NEW r \in R PROVE Halve(a, p, f, r) = Halve(a, p, h, r)
    OBVIOUS
  <2> HIDE DEF h
  <2>1. \A q \in Slots \X Slots : f[q] = h[q]
    BY DEF h
  <2> QED BY <1>2, <1>4, <2>1, HalveLocal
<1>7. h = [r \in R |-> Halve(a, p, h, r)]
  BY <1>5, <1>6
<1> QED BY <1>7 DEF IsSearch

\* What the search returns is what this function returns.
LEMMA PositionIsSearch ==
  ASSUME NEW a, NEW p, NEW from \in Slots, NEW to \in Slots
  PROVE  \E f : /\ \A r \in Slots \X Slots : f[r] = Halve(a, p, f, r)
               /\ Position(a, p, from, to) = f[<<from, to>>]
<1> DEFINE g == CHOOSE f : IsSearch(a, p, f)
<1>1. IsSearch(a, p, g)
  BY SearchExists
<1>2. Position(a, p, from, to) = g[<<from, to>>]
  BY DEF Position, IsSearch, Halve
<1> HIDE DEF g
<1>3. \A r \in Slots \X Slots : g[r] = Halve(a, p, g, r)
  BY <1>1 DEF IsSearch
<1> QED BY <1>2, <1>3

Before(a, p, i) == Dist[Owner][a[i]] < Dist[Owner][p]

\* x divides the slots l .. r - 1 into those before p and the others
Divides(a, p, l, x, r) ==
  /\ \A i \in l .. x - 1 : Before(a, p, i)
  /\ \A i \in x .. r - 1 : ~Before(a, p, i)

\* the slots from .. to - 1 are in an order that the search may rely on
Monotone(a, p, from, to) ==
  \A i, j \in from .. to - 1 : i < j /\ Before(a, p, j) => Before(a, p, i)

\* Whatever is in the slots, the search stays in its range; if they are in
\* order, it finds the place of p.
LEMMA SearchResult ==
  ASSUME NEW a, NEW p, NEW from \in Slots, NEW to \in Slots, NEW f,
         \A r \in Slots \X Slots : f[r] = Halve(a, p, f, r)
  PROVE  \A l, r \in from .. to : l <= r =>
           /\ f[<<l, r>>] \in l .. r
           /\ Monotone(a, p, from, to) => Divides(a, p, l, f[<<l, r>>], r)
<1> DEFINE Good(l, r) == /\ f[<<l, r>>] \in l .. r
                         /\ Monotone(a, p, from, to) => Divides(a, p, l, f[<<l, r>>], r)
           T == {n \in Nat : \E l, r \in from .. to : l <= r /\ r - l = n /\ ~Good(l, r)}
<1>0. from \in Nat /\ to \in Nat /\ from .. to \subseteq Slots
  BY SlotsAssumption DEF Slots
<1>1. ASSUME T # {} PROVE FALSE
  <2>1. PICK n \in T : \A k \in T : n <= k
    BY <1>1, LeastNumber
  <2>2. PICK l \in from .. to, r \in from .. to : l <= r /\ r - l = n /\ ~Good(l, r)
    BY <2>1
  <2>3. \A k, m \in from .. to : k <= m /\ m - k < n => Good(k, m)
    <3> SUFFICES ASSUME NEW k \in from .. to, NEW m \in from .. to, k <= m, m - k < n,
                        ~Good(k, m)
                 PROVE  FALSE
      OBVIOUS
    <3>1. m - k \in Nat /\ ~(n <= m - k)
      BY <1>0, <2>1
    <3> HIDE DEF Good
    <3>2. m - k \in T
      BY <3>1
    <3> QED BY <2>1, <3>1, <3>2
  <2>4. <<l, r>> \in Slots \X Slots
    BY <1>0
  <2>5. f[<<l, r>>] = Halve(a, p, f, <<l, r>>)
    BY <2>4
  <2>6. CASE l = r
    <3>1. f[<<l, r>>] = l
      BY <2>5, <2>6, <1>0 DEF Halve
    <3>2. Good(l, r)
      BY <3>1, <2>6, <1>0 DEF Divides
    <3> QED BY <2>2, <3>2
  <2>7. CASE l # r
    <3> DEFINE mid == (l + r) \div 2
    <3>1. l < r /\ mid \in l .. r - 1
      BY <1>0, <2>2, <2>7, Middle
    <3> HIDE DEF mid
    <3>2. /\ mid \in from .. to - 1 /\ mid + 1 \in from .. to /\ mid + 1 <= r /\ r - (mid + 1) < n
          /\ mid \in from .. to /\ mid - l < n /\ l <= mid
      BY <1>0, <2>2, <3>1
    <3>3. CASE Before(a, p, mid)
      <4>1. f[<<l, r>>] = f[<<mid + 1, r>>]
        BY <2>5, <3>1, <3>3, <1>0 DEF Halve, Before, mid
      <4>2. Good(mid + 1, r)
        BY <2>3, <3>2
      <4>3. f[<<l, r>>] \in l .. r
        BY <4>1, <4>2, <3>1, <1>0
      <4>4. ASSUME Monotone(a, p, from, to) PROVE Divides(a, p, l, f[<<l, r>>], r)
        <5>1. \A i \in l .. mid : Before(a, p, i)
          BY <3>2, <3>3, <4>4, <1>0 DEF Monotone
        <5>2. Divides(a, p, mid + 1, f[<<l, r>>], r)
          BY <4>1, <4>2, <4>4
        <5>3. \A i \in l .. f[<<l, r>>] - 1 : i \in l .. mid \/ i \in mid + 1 .. f[<<l, r>>] - 1
          BY <3>1, <4>3, <1>0
        <5> QED BY <5>1, <5>2, <5>3 DEF Divides
      <4> QED BY <2>2, <4>3, <4>4
    <3>4. CASE ~Before(a, p, mid)
      <4>1. f[<<l, r>>] = f[<<l, mid>>]
        BY <2>5, <3>1, <3>4, <1>0 DEF Halve, Before, mid
      <4>2. Good(l, mid)
        BY <2>3, <3>2
      <4>3. f[<<l, r>>] \in l .. mid /\ f[<<l, r>>] \in l .. r
        BY <4>1, <4>2, <3>1, <1>0
      <4>4. ASSUME Monotone(a, p, from, to) PROVE Divides(a, p, l, f[<<l, r>>], r)
        <5>1. \A i \in mid .. r - 1 : ~Before(a, p, i)
          BY <2>2, <3>2, <3>4, <4>4, <1>0 DEF Monotone
        <5>2. Divides(a, p, l, f[<<l, r>>], mid)
          BY <4>1, <4>2, <4>4
        <5>3. \A i \in f[<<l, r>>] .. r - 1 : i \in mid .. r - 1 \/ i \in f[<<l, r>>] .. mid - 1
          BY <3>1, <4>3, <1>0
        <5> QED BY <5>1, <5>2, <5>3 DEF Divides
      <4> QED BY <2>2, <4>3, <4>4
    <3> QED BY <3>3, <3>4
  <2> QED BY <2>6, <2>7
<1>2. ASSUME NEW l \in from .. to, NEW r \in from .. to, l <= r, ~Good(l, r) PROVE FALSE
  <2>1. r - l \in Nat
    BY <1>0, <1>2
  <2> HIDE DEF Good
  <2>2. r - l \in T
    BY <1>2, <2>1
  <2> QED BY <1>1, <2>2
<1> QED BY <1>2

\* So does add_link_extending_fast.
LEMMA PositionFound ==
  ASSUME NEW a, NEW p, NEW from \in Slots, NEW to \in from .. Total
  PROVE  /\ Position(a, p, from, to) \in from .. to
         /\ Monotone(a, p, from, to) =>
              Divides(a, p, from, Position(a, p, from, to), to)
<1>1. from \in Nat /\ to \in Slots /\ from \in from .. to /\ to \in from .. to /\ from <= to
  BY SlotsAssumption DEF Slots
<1>2. PICK f : /\ \A r \in Slots \X Slots : f[r] = Halve(a, p, f, r)
               /\ Position(a, p, from, to) = f[<<from, to>>]
  BY <1>1, PositionIsSearch
<1>3. \A l, r \in from .. to : l <= r =>
         /\ f[<<l, r>>] \in l .. r
         /\ Monotone(a, p, from, to) => Divides(a, p, l, f[<<l, r>>], r)
  BY <1>1, <1>2, SearchResult
<1> QED BY <1>1, <1>2, <1>3

-----------------------------------------------------------------------------
(* Sizes and orders                                                         *)

\* Slots that hold no point twice hold as many points as they are.
LEMMA InSize ==
  ASSUME NEW a, NEW lo \in Nat, NEW hi \in Nat, lo <= hi,
         \A i, j \in lo .. hi - 1 : i # j => a[i] # a[j]
  PROVE  IsFiniteSet(In(a, lo, hi)) /\ Cardinality(In(a, lo, hi)) = hi - lo
<1> DEFINE S == lo .. hi - 1
           f == [i \in S |-> a[i]]
<1>1. IsFiniteSet(S) /\ Cardinality(S) = hi - lo
  BY FS_Interval
<1>2. f \in [S -> In(a, lo, hi)] /\ \A v \in In(a, lo, hi) : \E i \in S : f[i] = v
  BY DEF In
<1>3. \A i, j \in S : f[i] = f[j] => i = j
  OBVIOUS
<1> HIDE DEF f
<1>4. f \in Bijection(S, In(a, lo, hi))
  BY <1>2, <1>3, Fun_IsBij
<1>5. ExistsBijection(S, In(a, lo, hi))
  BY <1>4, Fun_ExistsBij
<1> QED BY <1>1, <1>5, FS_Bijection

\* s lists the points of S, nearest first, each once
Popped(S, s) ==
  /\ Len(s) = Cardinality(S) /\ Len(s) \in Nat /\ DOMAIN s = 1 .. Len(s)
  /\ \A i \in 1 .. Len(s) : s[i] \in S
  /\ \A i, j \in 1 .. Len(s) : i # j => s[i] # s[j]
  /\ \A i, j \in 1 .. Len(s) : i < j => Dist[Owner][s[i]] <= Dist[Owner][s[j]]
  /\ {s[i] : i \in 1 .. Len(s)} = S

\* A queue of points is popped into as many slots as it has points, nearest
\* first, each once.
LEMMA NearestFirstFacts ==
  ASSUME NEW S \in SUBSET Points, NEW s \in NearestFirst(S)
  PROVE  Popped(S, s)
<1> DEFINE n == Cardinality(S)
<1>1. IsFiniteSet(S) /\ n \in Nat
  BY PointsAssumption, FS_Subset, FS_CardinalityType
<1>2. /\ s \in [1 .. n -> S]
      /\ \A i, j \in 1 .. n : i < j => s[i] # s[j] /\ Dist[Owner][s[i]] <= Dist[Owner][s[j]]
  BY DEF NearestFirst
<1> HIDE DEF n
<1>3. s \in Seq(S)
  BY <1>1, <1>2, SeqDef
<1>4. Len(s) = n /\ DOMAIN s = 1 .. n
  BY <1>1, <1>2, <1>3, LenProperties
<1>5. \A i, j \in 1 .. n : i # j => s[i] # s[j]
  BY <1>1, <1>2
<1>6. 1 \in Nat /\ n + 1 \in Nat /\ 1 <= n + 1 /\ 1 .. (n + 1) - 1 = 1 .. n
  BY <1>1
<1>7. Cardinality(In(s, 1, n + 1)) = (n + 1) - 1
  BY <1>5, <1>6, InSize
<1>8. In(s, 1, n + 1) = {s[i] : i \in 1 .. n}
  BY <1>6 DEF In
<1>9. {s[i] : i \in 1 .. n} \in SUBSET S
  BY <1>2
<1>10. Cardinality({s[i] : i \in 1 .. n}) = Cardinality(S)
  BY <1>1, <1>7, <1>8 DEF n
<1>11. {s[i] : i \in 1 .. n} = S
  BY <1>1, <1>9, <1>10, FS_Subset
<1> QED BY <1>1, <1>2, <1>4, <1>5, <1>11 DEF n, Popped

-----------------------------------------------------------------------------
(* The shape of a list                                                      *)

\* The slots before e hold points of S, the others none, and neither the zone
\* before b nor the one from b on holds a point twice.
Shape(a, b, e, S) ==
  /\ a \in [Slots -> Points \cup {NoPoint, Foreign}]
  /\ b \in 0 .. Cap /\ e \in b .. Total
  /\ \A i \in 0 .. e - 1 : a[i] \in S
  /\ \A i \in e .. Total - 1 : a[i] = NoPoint
  /\ \A i, j \in 0 .. b - 1 : i # j => a[i] # a[j]
  /\ \A i, j \in b .. e - 1 : i # j => a[i] # a[j]

\* What the code reads of a list that has this shape.
LEMMA ShapeFacts ==
  ASSUME NEW S \in SUBSET Points, NEW a, NEW b, NEW e, Shape(a, b, e, S)
  PROVE  /\ b \in Nat /\ e \in Nat /\ b <= e /\ e <= Total /\ b <= Cap
         /\ TrueEnd(a, b) = e
         /\ In(a, b, Total) \ {NoPoint} = In(a, b, e)
         /\ In(a, 0, b) \in SUBSET S /\ In(a, b, e) \in SUBSET S
<1>1. b \in Nat /\ e \in Nat /\ b <= e /\ e <= Total /\ b <= Cap /\ Total \in Nat
  BY SlotsAssumption DEF Shape
<1>2. \A i \in 0 .. e - 1 : a[i] # NoPoint
  BY SlotsAssumption DEF Shape
<1>3. TrueEnd(a, b) = e
  <2> DEFINE t == TrueEnd(a, b)
  <2>1. b \in 0 .. Total
    BY <1>1
  <2>2. /\ t \in b .. Total
        /\ t = b \/ a[t - 1] # NoPoint
        /\ \A i \in t .. Total - 1 : a[i] = NoPoint
    BY <2>1, TrueEndFacts
  <2> HIDE DEF t
  <2>3. ASSUME t < e PROVE FALSE
    <3>1. t \in t .. Total - 1 /\ t \in 0 .. e - 1
      BY <1>1, <2>2, <2>3
    <3> QED BY <1>2, <2>2, <3>1
  <2>4. ASSUME e < t PROVE FALSE
    <3>1. t - 1 \in e .. Total - 1 /\ t # b
      BY <1>1, <2>2, <2>4
    <3> QED BY <2>2, <3>1 DEF Shape
  <2>5. t = e
    BY <1>1, <2>2, <2>3, <2>4
  <2> QED BY <2>5 DEF t
<1>4. In(a, b, Total) \ {NoPoint} = In(a, b, e)
  <2>1. \A i \in b .. Total - 1 : i \in b .. e - 1 \/ a[i] = NoPoint
    BY <1>1 DEF Shape
  <2>2. \A i \in b .. e - 1 : i \in b .. Total - 1 /\ a[i] # NoPoint
    BY <1>1, <1>2
  <2> QED BY <2>1, <2>2 DEF In
<1>5. In(a, 0, b) \in SUBSET S /\ In(a, b, e) \in SUBSET S
  <2>1. \A i \in 0 .. b - 1 : a[i] \in S
    BY <1>1 DEF Shape
  <2>2. \A i \in b .. e - 1 : a[i] \in S
    BY <1>1 DEF Shape
  <2> QED BY <2>1, <2>2 DEF In
<1> QED BY <1>1, <1>3, <1>4, <1>5

\* A zone holds as many points as it has slots in use.
LEMMA ShapeSizes ==
  ASSUME NEW S \in SUBSET Points, NEW a, NEW b, NEW e, Shape(a, b, e, S)
  PROVE  /\ IsFiniteSet(In(a, 0, b)) /\ Cardinality(In(a, 0, b)) = b
         /\ IsFiniteSet(In(a, b, e)) /\ Cardinality(In(a, b, e)) = e - b
<1>1. b \in Nat /\ e \in Nat /\ b <= e
  BY ShapeFacts
<1>2. IsFiniteSet(In(a, 0, b)) /\ Cardinality(In(a, 0, b)) = b - 0
  BY <1>1, InSize DEF Shape
<1>3. IsFiniteSet(In(a, b, e)) /\ Cardinality(In(a, b, e)) = e - b
  BY <1>1, InSize DEF Shape
<1> QED BY <1>1, <1>2, <1>3

-----------------------------------------------------------------------------
(* Writing the dist-oriented zone                                           *)

\* where the extending zone ends, and how far it has moved, when its start
\* goes from b to c
EndAfter(b, e, c) == IF e = b THEN IF c < b THEN b ELSE c
                     ELSE IF e + (c - b) < Total THEN e + (c - b) ELSE Total
Offset(b, e, c) == IF e = b THEN 0 ELSE c - b

\* the slots lo .. hi - 1 of g hold what was d slots before them in a
Follows(g, a, lo, hi, d) == \A i \in lo .. hi - 1 : g[i] = a[i - d]

\* g is a with its extending zone, b .. e - 1, moved to where c is its start
Shifted(g, a, b, e, c) ==
  /\ g \in [Slots -> Points \cup {NoPoint, Foreign}] /\ g[Total] = a[Total]
  /\ \A i \in 0 .. b - 1 : i < c => g[i] = a[i]
  /\ Follows(g, a, c, EndAfter(b, e, c), Offset(b, e, c))
  /\ \A i \in EndAfter(b, e, c) .. Total - 1 : g[i] = NoPoint

\* Where move_the_extending_zone puts what it moves.
LEMMA ShiftFacts ==
  ASSUME NEW S \in SUBSET Points, NEW a, NEW b, NEW e, Shape(a, b, e, S), NEW c \in 0 .. Cap
  PROVE  Shifted(Shift(a, b, c - b), a, b, e, c)
<1> DEFINE x == c - b
           g == Shift(a, b, x)
           A == Points \cup {NoPoint, Foreign}
<1>1. /\ b \in Nat /\ e \in Nat /\ b <= e /\ e <= Total /\ TrueEnd(a, b) = e
      /\ c \in Nat /\ c <= Total /\ Total \in Nat
  <2>1. c \in Nat /\ c <= Total /\ Total \in Nat
    BY SlotsAssumption
  <2>2. b \in Nat /\ e \in Nat /\ b <= e /\ e <= Total /\ TrueEnd(a, b) = e
    BY ShapeFacts
  <2> QED BY <2>1, <2>2
<1>2. a \in [Slots -> A] /\ \A i \in e .. Total - 1 : a[i] = NoPoint
  BY DEF Shape
<1>3. CASE e = b \/ x = 0
  <2>1. g = a
    BY <1>1, <1>3 DEF Shift
  <2>2. /\ EndAfter(b, e, c) = IF e = b THEN IF c < b THEN b ELSE c ELSE e
        /\ Offset(b, e, c) = 0
    BY <1>1, <1>3 DEF EndAfter, Offset
  <2> HIDE DEF g
  <2>3. \A i \in c .. EndAfter(b, e, c) - 1 : i - Offset(b, e, c) = i
    BY <1>1, <2>2
  <2>4. \A i \in EndAfter(b, e, c) .. Total - 1 : i \in e .. Total - 1
    BY <1>1, <1>3, <2>2
  <2>5. /\ g \in [Slots -> A] /\ g[Total] = a[Total]
        /\ \A i \in 0 .. b - 1 : i < c => g[i] = a[i]
        /\ \A i \in c .. EndAfter(b, e, c) - 1 : g[i] = a[i - Offset(b, e, c)]
        /\ \A i \in EndAfter(b, e, c) .. Total - 1 : g[i] = NoPoint
    BY <1>2, <2>1, <2>3, <2>4
  <2> QED BY <2>5 DEF g, Shifted, Follows
<1>4. CASE e # b /\ x > 0
  <2> DEFINE m == EndAfter(b, e, c)
             n == IF e - b + x > Total - b THEN Total - b - x ELSE e - b
  <2>1. g = Move(a, b, b + x, n)
    BY <1>1, <1>4 DEF Shift
  <2>2. /\ m = c + n /\ b + x = c /\ e <= m /\ m <= Total /\ Offset(b, e, c) = x
        /\ n \in 0 .. e - b
    BY <1>1, <1>4 DEF EndAfter, Offset
  <2> HIDE DEF m, n, g
  <2>3. g = [i \in Slots |-> IF c <= i /\ i < m THEN a[i - c + b] ELSE a[i]]
    BY <2>1, <2>2 DEF Move
  <2>4. \A i \in c .. m - 1 : i \in Slots /\ i - c + b = i - x /\ i - c + b \in Slots
    BY <1>1, <1>4, <2>2 DEF Slots
  <2>5. g \in [Slots -> A]
    <3>1. \A i \in Slots : c <= i /\ i < m => i \in c .. m - 1
      BY <1>1, <2>2 DEF Slots
    <3> QED BY <1>2, <2>3, <2>4, <3>1
  <2>6. g[Total] = a[Total]
    BY <1>1, <2>2, <2>3 DEF Slots
  <2>7. \A i \in 0 .. b - 1 : i < c => g[i] = a[i]
    BY <1>1, <2>3 DEF Slots
  <2>8. \A i \in c .. m - 1 : g[i] = a[i - Offset(b, e, c)]
    BY <2>2, <2>3, <2>4
  <2>9. \A i \in m .. Total - 1 : g[i] = NoPoint
    BY <1>1, <1>2, <2>2, <2>3 DEF Slots
  <2> QED BY <2>5, <2>6, <2>7, <2>8, <2>9 DEF m, g, Shifted, Follows
<1>5. CASE e # b /\ x < 0
  <2> DEFINE m == EndAfter(b, e, c)
  <2>1. g = [i \in Slots |-> IF e + x <= i /\ i < e THEN NoPoint
                              ELSE Move(a, b, b + x, e - b)[i]]
    BY <1>1, <1>5 DEF Shift
  <2>2. m = e + x /\ b + x = c /\ m < e /\ c < m /\ m <= Total /\ Offset(b, e, c) = x
    BY <1>1, <1>5 DEF EndAfter, Offset
  <2> HIDE DEF m, g
  <2>3. g = [i \in Slots |-> IF m <= i /\ i < e THEN NoPoint
                              ELSE IF c <= i /\ i < m THEN a[i - c + b] ELSE a[i]]
    <3>1. c + (e - b) = m
      BY <1>1, <2>2
    <3> QED BY <2>1, <2>2, <3>1 DEF Move
  <2>4. \A i \in c .. m - 1 : i \in Slots /\ i - c + b = i - x /\ i - c + b \in Slots
    BY <1>1, <1>5, <2>2 DEF Slots
  <2>5. g \in [Slots -> A]
    <3>1. \A i \in Slots : c <= i /\ i < m => i \in c .. m - 1
      BY <1>1, <2>2 DEF Slots
    <3> QED BY <1>2, <2>3, <2>4, <3>1
  <2>6. g[Total] = a[Total]
    BY <1>1, <2>2, <2>3 DEF Slots
  <2>7. \A i \in 0 .. b - 1 : i < c => g[i] = a[i]
    BY <1>1, <2>2, <2>3 DEF Slots
  <2>8. \A i \in c .. m - 1 : g[i] = a[i - Offset(b, e, c)]
    BY <1>1, <2>2, <2>3, <2>4
  <2>9. \A i \in m .. Total - 1 : g[i] = NoPoint
    BY <1>1, <1>2, <2>2, <2>3 DEF Slots
  <2> QED BY <2>5, <2>6, <2>7, <2>8, <2>9 DEF m, g, Shifted, Follows
<1> QED BY <1>1, <1>3, <1>4, <1>5

\* As many of S as fit in n slots are what FirstOf may keep.
LEMMA FirstOfKept ==
  ASSUME NEW S, IsFiniteSet(S), NEW n \in Nat, NEW K \in SUBSET S,
         Cardinality(K) = IF Cardinality(S) <= n THEN Cardinality(S) ELSE n
  PROVE  K \in FirstOf(S, n)
BY FS_Subset DEF FirstOf

\* Slots that were moved up or down hold what they held.
LEMMA MovedIn ==
  ASSUME NEW a, NEW g, NEW lo \in Int, NEW hi \in Int, NEW d \in Int,
         Follows(g, a, lo, hi, d)
  PROVE  In(g, lo, hi) = In(a, lo - d, hi - d)
<1>1. ASSUME NEW i \in lo .. hi - 1 PROVE i - d \in lo - d .. (hi - d) - 1
  OBVIOUS
<1>2. ASSUME NEW j \in lo - d .. (hi - d) - 1 PROVE g[j + d] = a[j] /\ j + d \in lo .. hi - 1
  <2>1. j + d \in lo .. hi - 1 /\ (j + d) - d = j
    OBVIOUS
  <2> QED BY <2>1 DEF Follows
<1>3. In(g, lo, hi) \subseteq In(a, lo - d, hi - d)
  BY <1>1 DEF In, Follows
<1>4. In(a, lo - d, hi - d) \subseteq In(g, lo, hi)
  BY <1>2 DEF In
<1> QED BY <1>3, <1>4

\* the slots lo .. hi - 1 hold nearer points before farther ones
Sorted(a, lo, hi) ==
  \A i, j \in lo .. hi - 1 : i < j => Dist[Owner][a[i]] <= Dist[Owner][a[j]]

\* G is a with D as its dist-oriented zone, in the slots before c, and with as
\* much of its extending zone as there is room for after them; that zone stays
\* sorted unless it was empty and takes over slots that the other gives up
DistWritten(G, a, b, e, c, R, D) ==
  LET m == EndAfter(b, e, c) IN
  /\ Shape(G, c, m, R) /\ G[Total] = a[Total]
  /\ In(G, 0, c) = D
  /\ In(G, c, m) \in Moved(In(a, 0, b), In(a, b, e), D, Total)
  /\ Sorted(a, b, e) /\ (e # b \/ c >= b) => Sorted(G, c, m)

\* The links s are written from slot `from` on, at the start of the zone or at
\* its end, and the extending zone makes room for them or follows them.
LEMMA SetDistShape ==
  ASSUME NEW S \in SUBSET Points, NEW R \in SUBSET Points, S \subseteq R,
         NEW a, NEW b, NEW e, Shape(a, b, e, S),
         NEW K \in SUBSET R, NEW s, Popped(K, s), NEW from \in {0, b},
         NEW c, c = from + Len(s), c <= Cap,
         from = 0 \/ K \cap In(a, 0, b) = {}
  PROVE  DistWritten(Put(Shift(a, b, c - b), from, s), a, b, e, c, R,
                     (IF from = 0 THEN {} ELSE In(a, 0, b)) \cup K)
<1> DEFINE h == Shift(a, b, c - b)
           G == Put(h, from, s)
           m == EndAfter(b, e, c)
           d == Offset(b, e, c)
           A == Points \cup {NoPoint, Foreign}
           D == (IF from = 0 THEN {} ELSE In(a, 0, b)) \cup {s[i] : i \in 1 .. Len(s)}
<1>a. Len(s) \in Nat /\ DOMAIN s = 1 .. Len(s) /\ {s[i] : i \in 1 .. Len(s)} = K
  BY DEF Popped
<1>b. \A i \in 1 .. Len(s) : s[i] \in R
  BY DEF Popped
<1>c. \A i, j \in 1 .. Len(s) : i # j => s[i] # s[j]
  BY DEF Popped
<1>d. from = 0 \/ \A i \in 1 .. Len(s) : s[i] \notin In(a, 0, b)
  BY <1>a
<1> USE <1>a, <1>b, <1>c, <1>d
<1>0. b \in Nat /\ e \in Nat /\ b <= e /\ e <= Total /\ b <= Cap
  BY ShapeFacts
<1>1. /\ b \in Nat /\ e \in Nat /\ b <= e /\ e <= Total /\ b <= Cap
      /\ In(a, 0, b) \in SUBSET S /\ In(a, b, e) \in SUBSET S
      /\ Cardinality(In(a, 0, b)) = b /\ Cardinality(In(a, b, e)) = e - b
      /\ IsFiniteSet(In(a, 0, b)) /\ IsFiniteSet(In(a, b, e))
  <2>1. In(a, 0, b) \in SUBSET S /\ In(a, b, e) \in SUBSET S
    BY ShapeFacts
  <2>2. /\ IsFiniteSet(In(a, 0, b)) /\ Cardinality(In(a, 0, b)) = b
        /\ IsFiniteSet(In(a, b, e)) /\ Cardinality(In(a, b, e)) = e - b
    BY ShapeSizes
  <2> QED BY <1>0, <2>1, <2>2
<1>2. /\ from \in Nat /\ from <= b /\ c \in 0 .. Cap /\ c \in Nat
      /\ Total \in Nat /\ Cap \in Nat /\ Cap <= Total
  <2>1. b \in Nat /\ (from = 0 \/ from = b)
    BY <1>0
  <2>2. from \in Nat /\ from <= b
    BY <2>1
  <2>3. c \in Nat /\ c <= Cap
    BY <2>2
  <2>4. Total \in Nat /\ Cap \in Nat /\ Cap <= Total
    BY SlotsAssumption
  <2> QED BY <2>2, <2>3, <2>4
<1> HIDE DEF h
<1>3. Shifted(h, a, b, e, c)
  BY <1>2, ShiftFacts DEF h
<1> HIDE DEF m, d
<1>4. h \in [Slots -> A] /\ h[Total] = a[Total]
  BY <1>3 DEF Shifted
<1>5. \A i \in 0 .. b - 1 : i < c => h[i] = a[i]
  BY <1>3 DEF Shifted
<1>6. \A i \in c .. m - 1 : h[i] = a[i - d]
  BY <1>3 DEF Shifted, Follows, m, d
<1>7. \A i \in m .. Total - 1 : h[i] = NoPoint
  BY <1>3 DEF Shifted, m
<1>8. /\ m \in c .. Total /\ d \in Int /\ c - d >= 0
      /\ m - c = IF e = b THEN (IF b > c THEN b - c ELSE 0)
                 ELSE IF e - b <= Total - c THEN e - b ELSE Total - c
      /\ e # b => c - d = b /\ m - d <= e
      /\ e = b => d = 0 /\ (m > c => m = b)
  <2>1. b \in Nat /\ e \in Nat /\ b <= e /\ e <= Total /\ c \in Nat /\ c <= Total /\ Total \in Nat
    BY <1>1, <1>2
  <2> QED BY ONLY <2>1 DEF m, d, EndAfter, Offset
<1>9. /\ \A i \in from .. c - 1 : i \in Slots /\ i - from + 1 \in 1 .. Len(s)
      /\ \A i \in 0 .. Total : i \notin from .. c - 1 => i - from + 1 \notin 1 .. Len(s)
  BY <1>2 DEF Slots
<1>10. /\ \A i \in from .. c - 1 : G[i] = s[i - from + 1]
      /\ \A i \in 0 .. Total : i \notin from .. c - 1 => G[i] = h[i]
  BY <1>9 DEF Put, Slots
<1>11. G = [i \in Slots |-> G[i]]
  BY DEF Put
<1> HIDE DEF G
<1>12. \A i \in c .. Total - 1 : G[i] = h[i]
  <2>1. \A i \in c .. Total - 1 : i \in 0 .. Total /\ i \notin from .. c - 1
    BY <1>2
  <2> QED BY <1>10, <2>1
<1>13. G[Total] = a[Total]
  <2>1. Total \in 0 .. Total /\ Total \notin from .. c - 1
    BY <1>2
  <2> QED BY <1>4, <1>10, <2>1
<1>14. \A i \in 0 .. from - 1 : G[i] = a[i]
  <2>1. \A i \in 0 .. from - 1 :
           i \in 0 .. Total /\ i \notin from .. c - 1 /\ i \in 0 .. b - 1 /\ i < c
    BY <1>1, <1>2
  <2> QED BY <1>5, <1>10, <2>1
<1>15. \A i \in c .. m - 1 : G[i] = a[i - d]
  <2> SUFFICES ASSUME NEW i \in c .. m - 1 PROVE G[i] = a[i - d]
    OBVIOUS
  <2>1. i \in c .. Total - 1
    BY <1>2, <1>8
  <2>2. G[i] = h[i]
    BY <1>12, <2>1
  <2>3. h[i] = a[i - d]
    BY <1>6
  <2> QED BY <2>2, <2>3
<1>16. \A i \in m .. Total - 1 : G[i] = NoPoint
  <2> SUFFICES ASSUME NEW i \in m .. Total - 1 PROVE G[i] = NoPoint
    OBVIOUS
  <2>1. i \in c .. Total - 1
    BY <1>2, <1>8
  <2>2. G[i] = h[i]
    BY <1>12, <2>1
  <2>3. h[i] = NoPoint
    BY <1>7
  <2> QED BY <2>2, <2>3
<1>17. \A i \in c .. m - 1 : i - d \in 0 .. e - 1 /\ (e # b => i - d \in b .. e - 1)
                           /\ (e = b => i - d \in 0 .. b - 1)
  BY <1>1, <1>2, <1>8
<1>18. Shape(G, c, m, R)
  <2>1. \A i \in 0 .. from - 1 : G[i] \in R
    <3>1. \A i \in 0 .. from - 1 : i \in 0 .. e - 1
      BY <1>1, <1>2
    <3> QED BY <1>14, <3>1 DEF Shape
  <2>2. \A i \in from .. c - 1 : G[i] \in R
    BY <1>9, <1>10
  <2>3. \A i \in c .. m - 1 : G[i] \in R
    BY <1>15, <1>17 DEF Shape
  <2>4. \A i \in 0 .. m - 1 : i \in 0 .. from - 1 \/ i \in from .. c - 1 \/ i \in c .. m - 1
    BY <1>2, <1>8, SMTT(30)
  <2>5. \A i \in 0 .. m - 1 : G[i] \in R
    BY <2>1, <2>2, <2>3, <2>4
  <2>6. G \in [Slots -> A]
    <3>1. \A i \in Slots : i \in 0 .. m - 1 \/ i \in m .. Total - 1 \/ i = Total
      BY <1>2, <1>8 DEF Slots
    <3>2. a[Total] \in A
      BY <1>2 DEF Shape, Slots
    <3>3. \A i \in Slots : G[i] \in A
      BY <1>16, <1>13, <2>5, <3>1, <3>2
    <3> QED BY <1>11, <3>3
  <2>7. \A i, j \in 0 .. c - 1 : i # j => G[i] # G[j]
    <3>1. \A i, j \in from .. c - 1 : i # j => G[i] # G[j]
      <4> SUFFICES ASSUME NEW i \in from .. c - 1, NEW j \in from .. c - 1, i # j
                   PROVE  G[i] # G[j]
        OBVIOUS
      <4>1. i - from + 1 # j - from + 1
        BY <1>2
      <4>2. i - from + 1 \in 1 .. Len(s) /\ j - from + 1 \in 1 .. Len(s)
        BY <1>9
      <4>3. s[i - from + 1] # s[j - from + 1]
        BY <4>1, <4>2
      <4> QED BY <1>10, <4>3
    <3>2. \A i, j \in 0 .. from - 1 : i # j => G[i] # G[j]
      <4>1. \A i \in 0 .. from - 1 : i \in 0 .. b - 1
        BY <1>1, <1>2
      <4> QED BY <1>14, <4>1 DEF Shape
    <3>3. \A i \in 0 .. from - 1, j \in from .. c - 1 : G[i] # G[j]
      <4> SUFFICES ASSUME NEW i \in 0 .. from - 1, NEW j \in from .. c - 1 PROVE G[i] # G[j]
        OBVIOUS
      <4>1. from # 0 /\ from = b /\ i \in 0 .. b - 1
        BY <1>1, <1>2
      <4>2. G[i] \in In(a, 0, b)
        BY <1>14, <4>1 DEF In
      <4>3. G[j] \notin In(a, 0, b)
        BY <1>9, <1>10, <4>1
      <4> QED BY <4>2, <4>3
    <3>4. \A i \in 0 .. c - 1 : i \in 0 .. from - 1 \/ i \in from .. c - 1
      BY <1>2
    <3> QED BY <3>1, <3>2, <3>3, <3>4
  <2>8. \A i, j \in c .. m - 1 : i # j => G[i] # G[j]
    <3> SUFFICES ASSUME NEW i \in c .. m - 1, NEW j \in c .. m - 1, i # j PROVE G[i] # G[j]
      OBVIOUS
    <3>1. i - d # j - d
      BY <1>2, <1>8
    <3>2. a[i - d] # a[j - d]
      BY <1>17, <3>1 DEF Shape
    <3> QED BY <1>15, <3>2
  <2> QED BY <1>2, <1>8, <1>16, <2>5, <2>6, <2>7, <2>8 DEF Shape
<1>19. In(G, 0, c) = D
  <2>1. \A i \in 0 .. c - 1 : i \in 0 .. from - 1 \/ i \in from .. c - 1
    BY <1>2
  <2>2. \A i \in 0 .. from - 1 : i \in 0 .. c - 1 /\ from = b /\ from # 0
    BY <1>2
  <2>3. \A i \in from .. c - 1 : i \in 0 .. c - 1
    BY <1>2
  <2>4. {G[i] : i \in 0 .. c - 1}
          = {G[i] : i \in 0 .. from - 1} \cup {G[i] : i \in from .. c - 1}
    BY <2>1, <2>2, <2>3
  <2>5. {G[i] : i \in 0 .. from - 1} = IF from = 0 THEN {} ELSE In(a, 0, b)
    <3>1. CASE from = 0
      BY <3>1
    <3>2. CASE from # 0
      <4>1. from = b
        BY <3>2
      <4> QED BY <1>14, <3>2, <4>1 DEF In
    <3> QED BY <3>1, <3>2
  <2>6. {G[i] : i \in from .. c - 1} = {s[i] : i \in 1 .. Len(s)}
    <3>1. \A k \in 1 .. Len(s) : k + from - 1 \in from .. c - 1 /\ (k + from - 1) - from + 1 = k
      BY <1>2
    <3>2. \A k \in 1 .. Len(s) : \E i \in from .. c - 1 : G[i] = s[k]
      BY <1>10, <3>1
    <3>3. {s[i] : i \in 1 .. Len(s)} \subseteq {G[i] : i \in from .. c - 1}
      <4> SUFFICES ASSUME NEW k \in 1 .. Len(s) PROVE s[k] \in {G[i] : i \in from .. c - 1}
        OBVIOUS
      <4> QED BY ONLY <3>2
    <3>4. {G[i] : i \in from .. c - 1} \subseteq {s[i] : i \in 1 .. Len(s)}
      <4>1. \A i \in from .. c - 1 : \E k \in 1 .. Len(s) : G[i] = s[k]
        BY <1>9, <1>10
      <4> QED BY <4>1
    <3> QED BY <3>3, <3>4
  <2> QED BY <2>4, <2>5, <2>6 DEF In
<1>20. In(G, c, m) = In(a, c - d, m - d)
  <2>1. c \in Int /\ m \in Int
    BY <1>2, <1>8
  <2>2. Follows(G, a, c, m, d)
    BY <1>15 DEF Follows
  <2> QED BY <1>8, <2>1, <2>2, MovedIn
<1>21. /\ Cardinality(In(G, 0, c)) = c
       /\ Cardinality(In(G, c, m)) = m - c
  <2>1. m \in Nat
    BY <1>2, <1>8
  <2> QED BY <1>2, <1>18, <2>1, ShapeSizes
<1>22. In(G, c, m) \in Moved(In(a, 0, b), In(a, b, e), D, Total)
  <2>1. CASE e = b
    <3>1. In(a, b, e) = {}
      BY <1>1, <2>1 DEF In
    <3>2. In(G, c, m) \in SUBSET In(a, 0, b)
      BY <1>17, <1>15, <2>1 DEF In
    <3>3. m - c = IF b > c THEN b - c ELSE 0
      BY <1>8, <2>1
    <3> QED BY <1>1, <1>19, <1>21, <3>1, <3>2, <3>3 DEF Moved, LeftBehind
  <2>2. CASE e # b
    <3>1. In(a, b, e) # {}
      <4>1. b \in b .. e - 1
        BY <1>0, <2>2
      <4> QED BY <4>1 DEF In
    <3>2. In(G, c, m) \in SUBSET In(a, b, e)
      BY <1>17, <1>15, <2>2 DEF In
    <3>3. Total - c \in Nat /\ m - c = IF e - b <= Total - c THEN e - b ELSE Total - c
      BY <1>2, <1>8, <2>2
    <3>4. In(G, c, m) \in FirstOf(In(a, b, e), Total - c)
      BY <1>1, <1>21, <3>2, <3>3, FirstOfKept
    <3> QED BY <1>19, <1>21, <3>1, <3>4 DEF Moved
  <2> QED BY <2>1, <2>2
<1>23. ASSUME Sorted(a, b, e), e # b \/ c >= b PROVE Sorted(G, c, m)
  <2>1. CASE e = b
    <3>1. m = c
      BY <1>2, <1>8, <1>23, <2>1
    <3> QED BY <1>2, <3>1 DEF Sorted
  <2>2. CASE e # b
    <3> SUFFICES ASSUME NEW i \in c .. m - 1, NEW j \in c .. m - 1, i < j
                 PROVE  Dist[Owner][G[i]] <= Dist[Owner][G[j]]
      BY DEF Sorted
    <3>1. i - d \in b .. e - 1 /\ j - d \in b .. e - 1
      BY <1>17, <2>2
    <3>2. i - d < j - d
      BY <1>2, <1>8
    <3>3. Dist[Owner][a[i - d]] <= Dist[Owner][a[j - d]]
      BY <1>23, <3>1, <3>2 DEF Sorted
    <3>4. G[i] = a[i - d] /\ G[j] = a[j - d]
      BY <1>15
    <3> QED BY <3>3, <3>4
  <2> QED BY <2>1, <2>2
<1> QED BY <1>13, <1>18, <1>19, <1>22, <1>23 DEF G, m, h, DistWritten

-----------------------------------------------------------------------------
(* Writing the extending zone                                               *)

\* G is a with `zone` as its extending zone, in the slots b .. m - 1
ExtWritten(G, a, b, m, R, zone) ==
  /\ Shape(G, b, m, R) /\ G[Total] = a[Total]
  /\ In(G, 0, b) = In(a, 0, b) /\ In(G, b, m) = zone

\* A list whose slots are filled up to e, but for the extending zone.
LEMMA ExtShape ==
  ASSUME NEW S \in SUBSET Points, NEW R \in SUBSET Points, S \subseteq R,
         NEW a, NEW b, NEW e, Shape(a, b, e, S),
         NEW G, G = [i \in Slots |-> G[i]], NEW m \in b .. Total,
         \A i \in 0 .. b - 1 : G[i] = a[i],
         \A i \in b .. m - 1 : G[i] \in R,
         \A i, j \in b .. m - 1 : i # j => G[i] # G[j],
         \A i \in m .. Total - 1 : G[i] = NoPoint,
         G[Total] = a[Total]
  PROVE  ExtWritten(G, a, b, m, R, In(G, b, m))
<1> DEFINE A == Points \cup {NoPoint, Foreign}
<1>1. b \in Nat /\ m \in Nat /\ Total \in Nat /\ b <= m /\ m <= Total /\ e \in Nat /\ b <= e
  <2>1. b \in Nat /\ e \in Nat /\ b <= e
    BY ShapeFacts
  <2>2. Total \in Nat
    BY SlotsAssumption
  <2> QED BY <2>1, <2>2
<1>2. a[Total] \in A
  BY <1>1 DEF Shape, Slots
<1>3. \A i \in 0 .. b - 1 : i \in 0 .. e - 1
  BY <1>1
<1>4. \A i \in 0 .. b - 1 : G[i] \in R
  BY <1>3 DEF Shape
<1>5. \A i \in 0 .. m - 1 : i \in 0 .. b - 1 \/ i \in b .. m - 1
  BY <1>1
<1>6. \A i \in 0 .. m - 1 : G[i] \in R
  BY <1>4, <1>5
<1>7. \A i \in Slots : i \in 0 .. m - 1 \/ i \in m .. Total - 1 \/ i = Total
  BY <1>1 DEF Slots
<1>8. \A i \in Slots : G[i] \in A
  BY <1>2, <1>6, <1>7
<1>9. G \in [Slots -> A]
  BY <1>8
<1>10. \A i, j \in 0 .. b - 1 : i # j => G[i] # G[j]
  BY DEF Shape
<1>11. b \in 0 .. Cap
  BY DEF Shape
<1>12. Shape(G, b, m, R)
  BY <1>6, <1>9, <1>10, <1>11 DEF Shape
<1>13. In(G, 0, b) = In(a, 0, b)
  BY DEF In
<1> QED BY <1>12, <1>13 DEF ExtWritten

\* the slots of the zone are written anew, and emptied from there on
Rewritten(a, b, s) ==
  [i \in Slots |-> IF b + Len(s) <= i /\ i < Total THEN NoPoint ELSE Put(a, b, s)[i]]

\* add_link_extending_batched, and add_link_extending into a full zone.
LEMMA RewrittenShape ==
  ASSUME NEW S \in SUBSET Points, NEW R \in SUBSET Points, S \subseteq R,
         NEW a, NEW b, NEW e, Shape(a, b, e, S),
         NEW E \in SUBSET R, Cardinality(E) <= Total - b, NEW s \in NearestFirst(E)
  PROVE  /\ ExtWritten(Rewritten(a, b, s), a, b, b + Len(s), R, E)
         /\ Sorted(Rewritten(a, b, s), b, b + Len(s))
<1>0. Popped(E, s)
  BY NearestFirstFacts
<1> DEFINE n == Len(s)
           m == b + n
           G == Rewritten(a, b, s)
<1>1. /\ n = Cardinality(E) /\ n \in Nat /\ DOMAIN s = 1 .. n
      /\ {s[i] : i \in 1 .. n} = E
  BY <1>0 DEF Popped
<1>2. \A i, j \in 1 .. n : i # j => s[i] # s[j]
  BY <1>0 DEF Popped
<1>3. \A i, j \in 1 .. n : i < j => Dist[Owner][s[i]] <= Dist[Owner][s[j]]
  BY <1>0 DEF Popped
<1>4. b \in Nat /\ Total \in Nat /\ b <= Total
  <2>1. b \in Nat /\ e \in Nat /\ b <= e /\ e <= Total
    BY ShapeFacts
  <2>2. Total \in Nat
    BY SlotsAssumption
  <2> QED BY <2>1, <2>2
<1> HIDE DEF n
<1>5. m \in b .. Total /\ m \in Nat
  BY <1>1, <1>4
<1>6. /\ \A i \in b .. m - 1 : i - b + 1 \in 1 .. n
      /\ \A i \in Slots : i \notin b .. m - 1 => i - b + 1 \notin 1 .. n
  BY <1>1, <1>4 DEF Slots
<1>7. G = [i \in Slots |-> G[i]]
  BY DEF Rewritten
<1>8. \A i \in Slots : G[i] = IF i \in b .. m - 1 THEN s[i - b + 1]
                              ELSE IF i \in m .. Total - 1 THEN NoPoint ELSE a[i]
  BY <1>1, <1>4, <1>6 DEF Rewritten, Put, Slots, n
<1> HIDE DEF G
<1>9. \A i \in b .. m - 1 : G[i] = s[i - b + 1]
  <2>1. \A i \in b .. m - 1 : i \in Slots
    BY <1>4, <1>5 DEF Slots
  <2> QED BY <1>8, <2>1
<1>10. \A i \in m .. Total - 1 : G[i] = NoPoint
  <2>1. \A i \in m .. Total - 1 : i \in Slots /\ i \notin b .. m - 1
    BY <1>4, <1>5 DEF Slots
  <2> QED BY <1>8, <2>1
<1>11. \A i \in 0 .. b - 1 : G[i] = a[i]
  <2>1. \A i \in 0 .. b - 1 : i \in Slots /\ i \notin b .. m - 1 /\ i \notin m .. Total - 1
    BY <1>4, <1>5 DEF Slots
  <2> QED BY <1>8, <2>1
<1>12. G[Total] = a[Total]
  <2>1. Total \in Slots /\ Total \notin b .. m - 1 /\ Total \notin m .. Total - 1
    BY <1>4, <1>5 DEF Slots
  <2> QED BY <1>8, <2>1
<1>13. \A i, j \in b .. m - 1 : i # j => G[i] # G[j]
  <2> SUFFICES ASSUME NEW i \in b .. m - 1, NEW j \in b .. m - 1, i # j
               PROVE  G[i] # G[j]
    OBVIOUS
  <2>1. i - b + 1 \in 1 .. n /\ j - b + 1 \in 1 .. n
    BY <1>6
  <2>2. i - b + 1 # j - b + 1
    BY <1>4, <1>5
  <2>3. s[i - b + 1] # s[j - b + 1]
    BY <1>2, <2>1, <2>2
  <2> QED BY <1>9, <2>3
<1>14. Sorted(G, b, m)
  <2> SUFFICES ASSUME NEW i \in b .. m - 1, NEW j \in b .. m - 1, i < j
               PROVE  Dist[Owner][G[i]] <= Dist[Owner][G[j]]
    BY DEF Sorted
  <2>1. i - b + 1 \in 1 .. n /\ j - b + 1 \in 1 .. n
    BY <1>6
  <2>2. i - b + 1 < j - b + 1
    BY <1>4, <1>5
  <2>3. Dist[Owner][s[i - b + 1]] <= Dist[Owner][s[j - b + 1]]
    BY <1>3, <2>1, <2>2
  <2> QED BY <1>9, <2>3
<1>15. In(G, b, m) = E
  <2>1. \A i \in b .. m - 1 : G[i] \in E
    BY <1>1, <1>6, <1>9
  <2>2. ASSUME NEW k \in 1 .. n PROVE s[k] \in In(G, b, m)
    <3>1. k + b - 1 \in b .. m - 1 /\ (k + b - 1) - b + 1 = k
      BY <1>1, <1>4
    <3>2. G[k + b - 1] = s[k]
      BY <1>9, <3>1
    <3> QED BY <3>1, <3>2 DEF In
  <2>3. E \subseteq In(G, b, m)
    BY <1>1, <2>2
  <2>4. In(G, b, m) \subseteq E
    BY <2>1 DEF In
  <2> QED BY <2>3, <2>4
<1>16. \A i \in b .. m - 1 : G[i] \in R
  BY <1>15 DEF In
<1> HIDE DEF m
<1>17. ExtWritten(G, a, b, m, R, In(G, b, m))
  BY <1>5, <1>7, <1>10, <1>11, <1>12, <1>13, <1>16, ExtShape
<1> QED BY <1>14, <1>15, <1>17 DEF G, m, n

\* p is inserted at slot `at`, and what was there up to `last` moves on
Inserting(a, at, p, last) == [Move(a, at, at + 1, last - at) EXCEPT ![at] = p]

InsertedIn(G, a, at, p, last) ==
  /\ G = [i \in Slots |-> G[i]] /\ G[at] = p
  /\ \A i \in Slots : i < at \/ i > last => G[i] = a[i]
  /\ \A i \in at + 1 .. last : G[i] = a[i - 1]

\* The slots after such an insertion.
LEMMA InsertingSlots ==
  ASSUME NEW a, NEW p, NEW at \in Nat, NEW last \in Nat, at <= last, last < Total, Total \in Nat
  PROVE  InsertedIn(Inserting(a, at, p, last), a, at, p, last)
<1> DEFINE G == Inserting(a, at, p, last)
<1>1. G = [i \in Slots |-> IF i = at THEN p ELSE Move(a, at, at + 1, last - at)[i]]
  BY DEF Inserting, Move
<1>2. \A i \in Slots : Move(a, at, at + 1, last - at)[i]
                         = IF at + 1 <= i /\ i < at + 1 + (last - at) THEN a[i - (at + 1) + at]
                           ELSE a[i]
  BY DEF Move
<1>3. \A i \in Slots : i - (at + 1) + at = i - 1 /\ (i < at + 1 + (last - at) <=> i <= last)
  BY DEF Slots
<1>4. \A i \in Slots : G[i] = IF i = at THEN p ELSE IF at + 1 <= i /\ i <= last THEN a[i - 1]
                              ELSE a[i]
  BY <1>1, <1>2, <1>3
<1>5. G = [i \in Slots |-> G[i]]
  BY <1>1
<1> HIDE DEF G
<1>6. G[at] = p
  <2>1. at \in Slots
    BY DEF Slots
  <2> QED BY <1>4, <2>1
<1>7. \A i \in Slots : i < at \/ i > last => G[i] = a[i]
  <2>1. \A i \in Slots : i < at \/ i > last => i # at /\ ~(at + 1 <= i /\ i <= last)
    BY DEF Slots
  <2> QED BY <1>4, <2>1
<1>8. \A i \in at + 1 .. last : G[i] = a[i - 1]
  <2>1. \A i \in at + 1 .. last : i \in Slots /\ i # at /\ at + 1 <= i /\ i <= last
    BY DEF Slots
  <2> QED BY <1>4, <2>1
<1>9. InsertedIn(G, a, at, p, last)
  BY <1>5, <1>6, <1>7, <1>8 DEF InsertedIn
<1> QED BY <1>9 DEF G

\* add_link_extending_fast, and add_link_extending into a free slot: one more
\* point in the zone, or one for another in a full zone; and the zone stays
\* sorted if the search found the place of p.
LEMMA InsertingShape ==
  ASSUME NEW S \in SUBSET Points, NEW R \in SUBSET Points, S \subseteq R,
         NEW a, NEW b, NEW e, Shape(a, b, e, S), NEW p \in R, p \notin In(a, b, e),
         NEW last, last = IF e = Total THEN e - 1 ELSE e, NEW at \in b .. last
  PROVE  /\ ExtWritten(Inserting(a, at, p, last), a, b, last + 1, R, In(a, b, last) \cup {p})
         /\ Sorted(a, b, e) /\ Divides(a, p, b, at, e)
              => Sorted(Inserting(a, at, p, last), b, last + 1)
<1> DEFINE G == Inserting(a, at, p, last)
           m == last + 1
<1>1. b \in Nat /\ e \in Nat /\ b <= e /\ e <= Total /\ Total \in Nat
  <2>1. b \in Nat /\ e \in Nat /\ b <= e /\ e <= Total
    BY ShapeFacts
  <2>2. Total \in Nat
    BY SlotsAssumption
  <2> QED BY <2>1, <2>2
<1>2. /\ last \in Nat /\ at \in Nat /\ b <= at /\ at <= last /\ last <= e /\ last < Total
      /\ m \in b .. Total /\ m \in Nat
  <2>1. last \in Int
    BY <1>1
  <2> QED BY <1>1, <2>1
<1> HIDE DEF G
<1>0. InsertedIn(G, a, at, p, last)
  BY <1>1, <1>2, InsertingSlots DEF G
<1>3. G = [i \in Slots |-> G[i]]
  BY <1>0 DEF InsertedIn
<1>4. G[at] = p
  BY <1>0 DEF InsertedIn
<1>5. \A i \in Slots : i < at \/ i > last => G[i] = a[i]
  BY <1>0 DEF InsertedIn
<1>6. \A i \in at + 1 .. last : G[i] = a[i - 1]
  BY <1>0 DEF InsertedIn
<1>7. \A i \in b .. at - 1 : G[i] = a[i] /\ i \in b .. last - 1
  <2>1. \A i \in b .. at - 1 : i \in Slots /\ i < at /\ i \in b .. last - 1
    BY <1>1, <1>2 DEF Slots
  <2> QED BY <1>5, <2>1
<1>8. \A i \in at + 1 .. last : i - 1 \in b .. last - 1
  BY <1>1, <1>2
<1>9. \A i \in b .. m - 1 : i \in b .. at - 1 \/ i = at \/ i \in at + 1 .. last
  BY <1>1, <1>2
<1>10. \A i \in b .. last - 1 : i \in b .. e - 1 /\ a[i] \in S
  <2>1. \A i \in b .. last - 1 : i \in b .. e - 1 /\ i \in 0 .. e - 1
    BY <1>1, <1>2
  <2> QED BY <2>1 DEF Shape
<1>11. \A i \in b .. last - 1 : a[i] # p
  BY <1>10 DEF In
<1>12. \A i, j \in b .. last - 1 : i # j => a[i] # a[j]
  BY <1>10 DEF Shape
<1>13. \A i \in b .. m - 1 : G[i] \in R
  BY <1>4, <1>6, <1>7, <1>8, <1>9, <1>10
<1>14. \A i, j \in b .. m - 1 : i # j => G[i] # G[j]
  <2> SUFFICES ASSUME NEW i \in b .. m - 1, NEW j \in b .. m - 1, i < j PROVE G[i] # G[j]
    BY <1>2
  <2>1. CASE j \in b .. at - 1
    <3>1. i \in b .. at - 1 /\ i # j
      BY <1>2, <2>1
    <3> QED BY <1>7, <1>12, <2>1, <3>1
  <2>2. CASE j = at
    <3>1. i \in b .. at - 1
      BY <1>2, <2>2
    <3> QED BY <1>4, <1>7, <1>11, <2>2, <3>1
  <2>3. CASE j \in at + 1 .. last
    <3>1. G[j] = a[j - 1] /\ j - 1 \in b .. last - 1
      BY <1>6, <1>8, <2>3
    <3>2. CASE i \in b .. at - 1
      <4>1. i # j - 1
        BY <1>2, <2>3, <3>2
      <4> QED BY <1>7, <1>12, <3>1, <3>2, <4>1
    <3>3. CASE i = at
      BY <1>4, <1>11, <3>1, <3>3
    <3>4. CASE i \in at + 1 .. last
      <4>1. i - 1 # j - 1
        BY <1>2, <2>3, <3>4
      <4> QED BY <1>6, <1>8, <1>12, <3>1, <3>4, <4>1
    <3> QED BY <1>9, <3>2, <3>3, <3>4
  <2> QED BY <1>9, <2>1, <2>2, <2>3
<1>15. \A i \in 0 .. b - 1 : G[i] = a[i]
  <2>1. \A i \in 0 .. b - 1 : i \in Slots /\ i < at
    BY <1>1, <1>2 DEF Slots
  <2> QED BY <1>5, <2>1
<1>16. \A i \in m .. Total - 1 : G[i] = NoPoint
  <2>1. \A i \in m .. Total - 1 : i \in Slots /\ i > last /\ i \in e .. Total - 1
    BY <1>1, <1>2 DEF Slots
  <2> QED BY <1>5, <2>1 DEF Shape
<1>17. G[Total] = a[Total]
  <2>1. Total \in Slots /\ Total > last
    BY <1>1, <1>2 DEF Slots
  <2> QED BY <1>5, <2>1
<1>18. In(G, b, m) = In(a, b, last) \cup {p}
  <2>1. In(G, b, m) \subseteq In(a, b, last) \cup {p}
    <3>1. \A i \in b .. m - 1 : G[i] = p \/ \E k \in b .. last - 1 : G[i] = a[k]
      BY <1>4, <1>6, <1>7, <1>8, <1>9
    <3> QED BY <3>1 DEF In
  <2>2. p \in In(G, b, m)
    <3>1. at \in b .. m - 1
      BY <1>1, <1>2
    <3> QED BY <1>4, <3>1 DEF In
  <2>3. ASSUME NEW i \in b .. last - 1 PROVE a[i] \in In(G, b, m)
    <3>1. CASE i < at
      <4>1. i \in b .. at - 1 /\ i \in b .. m - 1
        BY <1>1, <1>2, <3>1
      <4> QED BY <1>7, <4>1 DEF In
    <3>2. CASE i >= at
      <4>1. i + 1 \in at + 1 .. last /\ i + 1 \in b .. m - 1 /\ (i + 1) - 1 = i
        BY <1>1, <1>2, <3>2
      <4>2. G[i + 1] = a[i]
        BY <1>6, <4>1
      <4> QED BY <4>1, <4>2 DEF In
    <3> QED BY <1>1, <1>2, <3>1, <3>2
  <2>4. In(a, b, last) \subseteq In(G, b, m)
    BY <2>3 DEF In
  <2> QED BY <2>1, <2>2, <2>4
<1> HIDE DEF m
<1>19. ExtWritten(G, a, b, m, R, In(G, b, m))
  BY <1>2, <1>3, <1>13, <1>14, <1>15, <1>16, <1>17, ExtShape
<1>20. ASSUME Sorted(a, b, e), Divides(a, p, b, at, e) PROVE Sorted(G, b, m)
  <2> SUFFICES ASSUME NEW i \in b .. m - 1, NEW j \in b .. m - 1, i < j
               PROVE  Dist[Owner][G[i]] <= Dist[Owner][G[j]]
    BY DEF Sorted
  <2>1. \A k, l \in b .. last - 1 : k < l => Dist[Owner][a[k]] <= Dist[Owner][a[l]]
    BY <1>10, <1>20 DEF Sorted
  <2>2. \A k \in b .. at - 1 : Dist[Owner][a[k]] <= Dist[Owner][p]
    <3> SUFFICES ASSUME NEW k \in b .. at - 1 PROVE Dist[Owner][a[k]] <= Dist[Owner][p]
      OBVIOUS
    <3>1. Dist[Owner][a[k]] < Dist[Owner][p]
      BY <1>20 DEF Divides, Before
    <3>2. a[k] \in Points /\ p \in Points /\ Owner \in Points
      BY <1>7, <1>10, SlotsAssumption
    <3>3. Dist[Owner][a[k]] \in Int /\ Dist[Owner][p] \in Int
      BY <3>2, DistAssumption
    <3> QED BY <3>1, <3>3
  <2>3. \A k \in at .. last - 1 : Dist[Owner][p] <= Dist[Owner][a[k]]
    <3> SUFFICES ASSUME NEW k \in at .. last - 1 PROVE Dist[Owner][p] <= Dist[Owner][a[k]]
      OBVIOUS
    <3>1. k \in at .. e - 1 /\ k \in b .. last - 1
      BY <1>1, <1>2
    <3>2. ~(Dist[Owner][a[k]] < Dist[Owner][p])
      BY <1>20, <3>1 DEF Divides, Before
    <3>3. a[k] \in Points /\ p \in Points /\ Owner \in Points
      BY <1>10, <3>1, SlotsAssumption
    <3>4. Dist[Owner][a[k]] \in Int /\ Dist[Owner][p] \in Int
      BY <3>3, DistAssumption
    <3> QED BY <3>2, <3>4
  <2>4. CASE j \in b .. at - 1
    <3>1. i \in b .. at - 1
      BY <1>2, <2>4
    <3> QED BY <1>7, <2>1, <2>4, <3>1
  <2>5. CASE j = at
    <3>1. i \in b .. at - 1
      BY <1>2, <2>5
    <3> QED BY <1>4, <1>7, <2>2, <2>5, <3>1
  <2>6. CASE j \in at + 1 .. last
    <3>1. G[j] = a[j - 1] /\ j - 1 \in b .. last - 1 /\ j - 1 \in at .. last - 1
      BY <1>2, <1>6, <1>8, <2>6
    <3>2. CASE i \in b .. at - 1
      <4>1. i < j - 1
        BY <1>2, <2>6, <3>2
      <4> QED BY <1>7, <2>1, <3>1, <3>2, <4>1
    <3>3. CASE i = at
      BY <1>4, <2>3, <3>1, <3>3
    <3>4. CASE i \in at + 1 .. last
      <4>1. i - 1 < j - 1
        BY <1>2, <2>6, <3>4
      <4>2. G[i] = a[i - 1] /\ i - 1 \in b .. last - 1
        BY <1>6, <1>8, <3>4
      <4> QED BY <2>1, <3>1, <4>1, <4>2
    <3>5. i \in b .. at - 1 \/ i = at \/ i \in at + 1 .. last
      BY <1>9 DEF m
    <3> QED BY <3>2, <3>3, <3>4, <3>5
  <2>7. j \in b .. at - 1 \/ j = at \/ j \in at + 1 .. last
    BY <1>9 DEF m
  <2> QED BY <2>4, <2>5, <2>6, <2>7
<1> QED BY <1>18, <1>19, <1>20 DEF G, m
-----------------------------------------------------------------------------
(* The invariant, and what the steps do to the slots                        *)

SlotsInv ==
  /\ use_optimized_building \in BOOLEAN
  /\ phase \in {"new", "open", "complete", "aborted"}
  /\ offered \in SUBSET (Points \ {Owner}) /\ pending \in SUBSET offered
  /\ \E e \in Slots : Shape(neighbors, boundary, e, offered)
  /\ phase = "new" => offered = {}

\* the order that the binary search relies on
Ordered(a, b) ==
  \A i, j \in b .. Total - 1 :
    i < j /\ a[j] # NoPoint => Dist[Owner][a[i]] <= Dist[Owner][a[j]]

\* A step keeps that order, unless the extending zone is empty and the
\* dist-oriented zone gives up slots.
OrderStep ==
  ExtendingOrder /\ (Zone2 # {} \/ boundary' >= boundary) => ExtendingOrder'

\* The slots in use are in order if all of the range is.
LEMMA OrderedIsSorted ==
  ASSUME NEW S \in SUBSET Points, NEW a, NEW b, NEW e, Shape(a, b, e, S)
  PROVE  Ordered(a, b) <=> Sorted(a, b, e)
<1>1. b \in Nat /\ e \in Nat /\ b <= e /\ e <= Total /\ Total \in Nat
  <2>1. b \in Nat /\ e \in Nat /\ b <= e /\ e <= Total
    BY ShapeFacts
  <2>2. Total \in Nat
    BY SlotsAssumption
  <2> QED BY <2>1, <2>2
<1>2. \A i \in b .. e - 1 : i \in b .. Total - 1 /\ a[i] # NoPoint
  <2>1. \A i \in b .. e - 1 : i \in b .. Total - 1 /\ i \in 0 .. e - 1
    BY <1>1
  <2> QED BY <2>1, SlotsAssumption DEF Shape
<1>3. \A i, j \in b .. Total - 1 : i < j /\ a[j] # NoPoint => i \in b .. e - 1 /\ j \in b .. e - 1
  <2> SUFFICES ASSUME NEW i \in b .. Total - 1, NEW j \in b .. Total - 1, i < j, a[j] # NoPoint
               PROVE  i \in b .. e - 1 /\ j \in b .. e - 1
    OBVIOUS
  <2>1. j \notin e .. Total - 1
    BY DEF Shape
  <2> QED BY <1>1, <2>1
<1>4. Sorted(a, b, e) => Ordered(a, b)
  BY <1>3 DEF Ordered, Sorted
<1>5. Ordered(a, b) => Sorted(a, b, e)
  BY <1>2 DEF Ordered, Sorted
<1> QED BY <1>4, <1>5

\* The dist-oriented zone becomes D.
DistStep(D) ==
  /\ \E m \in Slots : Shape(neighbors', boundary', m, offered')
  /\ neighbors'[Total] = neighbors[Total]
  /\ Zone1' = D /\ Zone2' \in Moved(Zone1, Zone2, D, Total)
  /\ OrderStep

\* The extending zone becomes E.
ExtStep(E) ==
  /\ \E m \in Slots : Shape(neighbors', boundary', m, offered')
  /\ neighbors'[Total] = neighbors[Total]
  /\ Zone1' = Zone1 /\ Zone2' = E
  /\ OrderStep

\* What a list of the invariant's shape looks like to its readers.
LEMMA ZoneFacts ==
  ASSUME offered \in SUBSET Points, NEW e, Shape(neighbors, boundary, e, offered)
  PROVE  /\ boundary \in Nat /\ e \in Nat /\ boundary <= e /\ e <= Total /\ boundary <= Cap
         /\ Total \in Nat /\ Cap \in Nat /\ Cap <= Total
         /\ TrueEnd(neighbors, boundary) = e
         /\ Zone1 \in SUBSET offered /\ IsFiniteSet(Zone1) /\ Cardinality(Zone1) = boundary
         /\ Zone2 = In(neighbors, boundary, e) /\ Zone2 \in SUBSET offered
         /\ IsFiniteSet(Zone2) /\ Cardinality(Zone2) = e - boundary
         /\ e # boundary => Zone2 # {}
<1>1. Total \in Nat /\ Cap \in Nat /\ Cap <= Total
  BY SlotsAssumption
<1>2. boundary \in Nat /\ e \in Nat /\ boundary <= e /\ e <= Total /\ boundary <= Cap
  BY ShapeFacts
<1>3. TrueEnd(neighbors, boundary) = e
  BY ShapeFacts
<1>4. Zone2 = In(neighbors, boundary, e)
  BY ShapeFacts DEF Zone2
<1>5. Zone1 \in SUBSET offered /\ In(neighbors, boundary, e) \in SUBSET offered
  BY ShapeFacts DEF Zone1
<1>6. IsFiniteSet(Zone1) /\ Cardinality(Zone1) = boundary
  BY ShapeSizes DEF Zone1
<1>7. IsFiniteSet(In(neighbors, boundary, e))
      /\ Cardinality(In(neighbors, boundary, e)) = e - boundary
  BY ShapeSizes
<1>8. e # boundary => In(neighbors, boundary, e) # {}
  <2>1. e # boundary => boundary \in boundary .. e - 1
    BY <1>2
  <2> QED BY <2>1 DEF In
<1> QED BY <1>1, <1>2, <1>3, <1>4, <1>5, <1>6, <1>7, <1>8

\* So does it after a step.
LEMMA ZonesAfter ==
  ASSUME offered' \in SUBSET Points, NEW m, Shape(neighbors', boundary', m, offered')
  PROVE  /\ Zone1' = In(neighbors', 0, boundary')
         /\ Zone2' = In(neighbors', boundary', m)
<1>1. In(neighbors', boundary', Total) \ {NoPoint} = In(neighbors', boundary', m)
  BY ShapeFacts
<1> QED BY <1>1 DEF Zone1, Zone2

\* Links are written at the start or at the end of the dist-oriented zone.
LEMMA SetDistStep ==
  ASSUME offered \in SUBSET Points, offered' \in SUBSET Points, offered \subseteq offered',
         NEW e, Shape(neighbors, boundary, e, offered),
         NEW D \in SUBSET offered', NEW s, Popped(D, s),
         NEW from \in {0, boundary}, from + Cardinality(D) <= Cap,
         from = 0 \/ D \cap Zone1 = {},
         SetDist(from, s), UNCHANGED use_optimized_building
  PROVE  DistStep((IF from = 0 THEN {} ELSE Zone1) \cup D)
<1> DEFINE c == from + Len(s)
           Z == (IF from = 0 THEN {} ELSE Zone1) \cup D
           m == EndAfter(boundary, e, c)
<1>1. neighbors' = Put(Shift(neighbors, boundary, c - boundary), from, s) /\ boundary' = c
  BY DEF SetDist
<1>2. Len(s) = Cardinality(D) /\ Len(s) \in Nat /\ DOMAIN s = 1 .. Len(s)
      /\ {s[i] : i \in 1 .. Len(s)} = D
  BY DEF Popped
<1>5. from = 0 \/ D \cap In(neighbors, 0, boundary) = {}
  BY DEF Zone1
<1>6. c <= Cap
  BY <1>2
<1> HIDE DEF c
<1>7. c = from + Len(s)
  BY DEF c
<1>8. DistWritten(neighbors', neighbors, boundary, e, c, offered', Z)
  <2>1. DistWritten(Put(Shift(neighbors, boundary, c - boundary), from, s), neighbors,
                    boundary, e, c, offered',
                    (IF from = 0 THEN {} ELSE In(neighbors, 0, boundary)) \cup D)
    BY <1>5, <1>6, <1>7, SetDistShape
  <2> QED BY <1>1, <1>2, <2>1 DEF Zone1
<1> HIDE DEF Z, m
<1>9. Shape(neighbors', boundary', m, offered') /\ neighbors'[Total] = neighbors[Total]
  BY <1>1, <1>8 DEF DistWritten, m
<1>10. m \in Slots
  <2>1. m \in Nat /\ m <= Total
    BY <1>9, ShapeFacts
  <2> QED BY <2>1, SlotsAssumption DEF Slots
<1>11. Zone1' = Z /\ Zone2' = In(neighbors', boundary', m)
  BY <1>1, <1>8, <1>9, ZonesAfter DEF DistWritten
<1>12. Zone2 = In(neighbors, boundary, e)
  BY ZoneFacts
<1>13. Zone2' \in Moved(Zone1, Zone2, Z, Total)
  BY <1>1, <1>8, <1>11, <1>12 DEF DistWritten, Zone1, m
<1>14. OrderStep
  <2>1. ExtendingOrder = (use_optimized_building => Ordered(neighbors, boundary))
    BY DEF ExtendingOrder, Ordered
  <2>2. ExtendingOrder' = (use_optimized_building => Ordered(neighbors', boundary'))
    BY DEF ExtendingOrder, Ordered
  <2>3. CASE ~use_optimized_building
    BY <2>1, <2>2, <2>3 DEF OrderStep
  <2>4. CASE use_optimized_building
    <3> SUFFICES ASSUME Ordered(neighbors, boundary), Zone2 # {} \/ boundary' >= boundary
                 PROVE  Ordered(neighbors', boundary')
      BY <2>1, <2>2, <2>4 DEF OrderStep
    <3>1. Sorted(neighbors, boundary, e)
      BY OrderedIsSorted
    <3>2. e # boundary \/ c >= boundary
      <4>1. CASE e = boundary
        <5>1. boundary \in Nat
          BY ZoneFacts
        <5>2. \A i \in boundary .. e - 1 : FALSE
          BY <4>1, <5>1
        <5> QED BY <1>1, <1>12, <5>2 DEF In
      <4> QED BY <4>1
    <3>3. Sorted(neighbors', boundary', m)
      BY <1>1, <1>8, <3>1, <3>2 DEF DistWritten, m
    <3> QED BY <1>9, <3>3, OrderedIsSorted
  <2> QED BY <2>3, <2>4
<1> QED BY <1>9, <1>10, <1>11, <1>13, <1>14 DEF DistStep, Z

\* One link is a queue of one.
LEMMA OneLink == ASSUME NEW p PROVE Popped({p}, <<p>>)
<1>1. Len(<<p>>) = 1 /\ Cardinality({p}) = 1 /\ DOMAIN <<p>> = 1 .. 1
  BY FS_Singleton
<1>2. <<p>>[1] = p /\ 1 .. 1 = {1}
  OBVIOUS
<1> HIDE <1>1
<1> DEFINE s == <<p>>
<1>3. Len(s) = 1 /\ Cardinality({p}) = 1 /\ DOMAIN s = 1 .. 1 /\ s[1] = p
  BY <1>1, <1>2
<1> HIDE DEF s
<1>4. Popped({p}, s)
  BY <1>2, <1>3 DEF Popped
<1> QED BY <1>4 DEF s

\* The extending zone is written.
LEMMA SetExtStep ==
  ASSUME offered \in SUBSET Points, offered' \in SUBSET Points,
         NEW e, Shape(neighbors, boundary, e, offered), NEW m, NEW E,
         ExtWritten(neighbors', neighbors, boundary, m, offered', E),
         boundary' = boundary, UNCHANGED use_optimized_building,
         use_optimized_building =>
           (Ordered(neighbors, boundary) => Sorted(neighbors', boundary, m))
  PROVE  ExtStep(E)
<1>1. Shape(neighbors', boundary', m, offered') /\ neighbors'[Total] = neighbors[Total]
  BY DEF ExtWritten
<1>2. m \in Slots
  <2>1. m \in Nat /\ m <= Total
    BY <1>1, ShapeFacts
  <2> QED BY <2>1, SlotsAssumption DEF Slots
<1>3. Zone1' = Zone1 /\ Zone2' = E
  <2>1. Zone1' = In(neighbors', 0, boundary') /\ Zone2' = In(neighbors', boundary', m)
    BY <1>1, ZonesAfter
  <2> QED BY <2>1 DEF ExtWritten, Zone1
<1>4. OrderStep
  <2>1. ExtendingOrder = (use_optimized_building => Ordered(neighbors, boundary))
    BY DEF ExtendingOrder, Ordered
  <2>2. ExtendingOrder' = (use_optimized_building => Ordered(neighbors', boundary'))
    BY DEF ExtendingOrder, Ordered
  <2>3. Sorted(neighbors', boundary', m) => Ordered(neighbors', boundary')
    BY <1>1, OrderedIsSorted
  <2>4. boundary' = boundary /\ use_optimized_building' = use_optimized_building
    OBVIOUS
  <2> QED BY <2>1, <2>2, <2>3, <2>4 DEF OrderStep
<1> QED BY <1>1, <1>2, <1>3, <1>4 DEF ExtStep

-----------------------------------------------------------------------------
(* NeighborList is made of the same operators.                              *)

\* NeighborList counts as FiniteSets does,
LEMMA ListSize == \A S : List!Cardinality(S) = Cardinality(S)
BY DEF List!Cardinality, Cardinality

\* prunes as NeighborSlots does,
LEMMA ListShrunk == \A q, S, n : List!Shrunk(q, S, n) = Shrunk(q, S, n)
<1> SUFFICES ASSUME NEW q, NEW S, NEW n PROVE List!Shrunk(q, S, n) = Shrunk(q, S, n)
  OBVIOUS
<1> DEFINE May(K) ==
      /\ Cardinality(K) <= n
      /\ \A u, v \in K : u # v /\ Dist[q][u] <= Dist[q][v] => ~Shadows(q, u, v)
      /\ \A v \in S \ K :
           \/ \E u \in K : Dist[q][u] <= Dist[q][v] /\ Shadows(q, u, v)
           \/ Cardinality(K) = n /\ \A u \in K : Dist[q][u] <= Dist[q][v]
<1>1. CASE Cardinality(S) < n
  BY <1>1, ListSize DEF Shrunk, List!Shrunk
<1>2. CASE ~(Cardinality(S) < n)
  <2>1. Shrunk(q, S, n) = {K \in SUBSET S : May(K)}
    BY <1>2 DEF Shrunk
  <2> HIDE DEF May
  <2>2. List!Shrunk(q, S, n) = {K \in SUBSET S : May(K)}
    <3> DEFINE ListMay(K) ==
          /\ List!Cardinality(K) <= n
          /\ \A u, v \in K : u # v /\ Dist[q][u] <= Dist[q][v] => ~List!Shadows(q, u, v)
          /\ \A v \in S \ K :
               \/ \E u \in K : Dist[q][u] <= Dist[q][v] /\ List!Shadows(q, u, v)
               \/ List!Cardinality(K) = n /\ \A u \in K : Dist[q][u] <= Dist[q][v]
    <3>1. List!Shrunk(q, S, n) = {K \in SUBSET S : ListMay(K)}
      BY <1>2, ListSize DEF List!Shrunk
    <3>2. \A u, v : List!Shadows(q, u, v) = Shadows(q, u, v)
      BY DEF List!Shadows, Shadows
    <3>3. ASSUME NEW K PROVE ListMay(K) = May(K)
      BY <3>2, ListSize DEF May
    <3> QED BY <3>1, <3>3
  <2> QED BY <2>1, <2>2
<1> QED BY <1>1, <1>2

\* keeps the nearest
LEMMA ListKeepNearest == \A q, S, n : List!KeepNearest(q, S, n) = KeepNearest(q, S, n)
BY ListSize DEF List!KeepNearest, KeepNearest

\* or those in the first slots,
LEMMA ListFirstOf == \A S, n : List!FirstOf(S, n) = FirstOf(S, n)
BY ListSize DEF List!FirstOf, FirstOf

\* moves the extending zone,
LEMMA ListMoved == \A D0, E0, D, n : List!Moved(D0, E0, D, n) = Moved(D0, E0, D, n)
<1>1. \A D0, D : List!LeftBehind(D0, D) = LeftBehind(D0, D)
  BY ListSize DEF List!LeftBehind, LeftBehind
<1> QED BY <1>1, ListSize, ListFirstOf DEF List!Moved, Moved

\* takes a point's own links,
LEMMA ListBatched == \A q, D0, S, n : List!Batched(q, D0, S, n) = Batched(q, D0, S, n)
BY ListSize, ListShrunk DEF List!Batched, Batched

\* a reverse link in the dist-oriented zone,
LEMMA ListAdded == \A q, D0, p, n : List!Added(q, D0, p, n) = Added(q, D0, p, n)
BY ListSize, ListShrunk DEF List!Added, Added

\* and one in the extending zone.
LEMMA ListInserted ==
  \A q, E0, p, n, fast : List!Inserted(q, E0, p, n, fast) = Inserted(q, E0, p, n, fast)
BY ListFirstOf, ListKeepNearest DEF List!Inserted, Inserted
-----------------------------------------------------------------------------
(* The steps of Next                                                        *)

\* Pruning keeps no more than it may.
LEMMA ShrunkSize ==
  ASSUME NEW q, NEW S \in SUBSET Points, NEW n \in Nat, NEW K \in Shrunk(q, S, n)
  PROVE  K \in SUBSET S /\ Cardinality(K) \in Nat /\ Cardinality(K) <= n
<1>1. Cardinality(S) \in Nat
  BY PointsAssumption, FS_Subset, FS_CardinalityType
<1>2. K \in SUBSET S /\ Cardinality(K) <= n
  BY <1>1 DEF Shrunk
<1>3. Cardinality(K) \in Nat
  BY <1>2, PointsAssumption, FS_Subset, FS_CardinalityType
<1> QED BY <1>2, <1>3

\* So does popping the farthest.
LEMMA KeptSize ==
  ASSUME NEW q, NEW S \in SUBSET Points, NEW n \in Nat, NEW K \in KeepNearest(q, S, n)
  PROVE  K \in SUBSET S /\ Cardinality(K) \in Nat /\ Cardinality(K) <= n
<1>1. K \in SUBSET S /\ Cardinality(K) <= n
  BY DEF KeepNearest
<1>2. Cardinality(K) \in Nat
  BY <1>1, PointsAssumption, FS_Subset, FS_CardinalityType
<1> QED BY <1>1, <1>2

\* add_link_dist_oriented_batched
LEMMA LinkBatchedStep ==
  ASSUME SlotsInv, LinkBatched
  PROVE  SlotsInv' /\ OrderStep /\ List!LinkBatched /\ neighbors'[Total] = neighbors[Total]
<1>1. phase = "new" /\ offered = {} /\ pending = {} /\ use_optimized_building \in BOOLEAN
  BY DEF SlotsInv, LinkBatched
<1>2. PICK e \in Slots : Shape(neighbors, boundary, e, offered)
  BY DEF SlotsInv
<1>3. boundary = 0 /\ Zone1 = {} /\ In(neighbors, 0, boundary) = {}
  <2>1. Zone1 \in SUBSET offered /\ Cardinality(Zone1) = boundary
    BY <1>1, <1>2, ZoneFacts
  <2> QED BY <1>1, <2>1, FS_EmptySet DEF Zone1
<1>4. PICK F \in SUBSET (Points \ {Owner}), O \in SUBSET (Points \ {Owner}) :
        /\ F # {} /\ Cardinality(F) <= MaxFound /\ F \cap O = {}
        /\ \E links \in Shrunk(Owner, F, Cap) :
             LET old == In(neighbors, 0, boundary)
             IN \/ /\ boundary + Cardinality(links) < Cap
                   /\ \E s \in NearestFirst(links) : SetDist(boundary, s)
                   /\ pending' = O \cup (F \ links)
                \/ /\ boundary + Cardinality(links) >= Cap
                   /\ \E D \in Shrunk(Owner, links \cup old, Cap) :
                        /\ \E s \in NearestFirst(D) : SetDist(0, s)
                        /\ pending' = O \cup ((F \cup old) \ D)
        /\ offered' = F \cup O
  BY DEF LinkBatched
<1>a. \E links \in Shrunk(Owner, F, Cap) : \E D \in SUBSET links :
        /\ \/ Cardinality(links) < Cap /\ D = links
           \/ Cardinality(links) >= Cap /\ D \in Shrunk(Owner, links, Cap)
        /\ \E s \in NearestFirst(D) : SetDist(0, s)
        /\ pending' = O \cup (F \ D)
  <2>1. PICK links \in Shrunk(Owner, F, Cap) :
          \/ /\ 0 + Cardinality(links) < Cap
             /\ \E s \in NearestFirst(links) : SetDist(0, s)
             /\ pending' = O \cup (F \ links)
          \/ /\ 0 + Cardinality(links) >= Cap
             /\ \E D \in Shrunk(Owner, links \cup {}, Cap) :
                  /\ \E s \in NearestFirst(D) : SetDist(0, s)
                  /\ pending' = O \cup ((F \cup {}) \ D)
    BY <1>3, <1>4
  <2>2. Cap \in Nat /\ F \in SUBSET Points
    BY SlotsAssumption
  <2>3. 0 + Cardinality(links) = Cardinality(links) /\ links \cup {} = links /\ F \cup {} = F
    BY <2>2, ShrunkSize
  <2>4. CASE Cardinality(links) < Cap
    <3>1. ~(Cardinality(links) >= Cap)
      BY <2>2, <2>4, ShrunkSize
    <3>2. /\ \E s \in NearestFirst(links) : SetDist(0, s)
          /\ pending' = O \cup (F \ links)
      BY <2>1, <2>3, <3>1
    <3>3. links \in SUBSET links
      OBVIOUS
    <3> QED BY <2>4, <3>2, <3>3
  <2>5. CASE ~(Cardinality(links) < Cap)
    <3>1. /\ Cardinality(links) >= Cap
          /\ \E D \in Shrunk(Owner, links, Cap) :
               /\ \E s \in NearestFirst(D) : SetDist(0, s)
               /\ pending' = O \cup (F \ D)
      BY <2>1, <2>3, <2>5
    <3>2. \A D \in Shrunk(Owner, links, Cap) : D \in SUBSET links
      BY DEF Shrunk
    <3> QED BY <3>1, <3>2
  <2> QED BY <2>4, <2>5
<1>b. PICK links \in Shrunk(Owner, F, Cap) : \E D \in SUBSET links :
        /\ \/ Cardinality(links) < Cap /\ D = links
           \/ Cardinality(links) >= Cap /\ D \in Shrunk(Owner, links, Cap)
        /\ \E s \in NearestFirst(D) : SetDist(0, s)
        /\ pending' = O \cup (F \ D)
  BY <1>a
<1>5. PICK D \in SUBSET links :
        /\ \/ Cardinality(links) < Cap /\ D = links
           \/ Cardinality(links) >= Cap /\ D \in Shrunk(Owner, links, Cap)
        /\ \E s \in NearestFirst(D) : SetDist(0, s)
        /\ pending' = O \cup (F \ D)
  BY <1>b
<1>6. PICK s \in NearestFirst(D) : SetDist(0, s)
  BY <1>5
<1>7. links \in SUBSET F /\ D \in SUBSET links /\ Cardinality(D) <= Cap
  <2>1. Cap \in Nat /\ F \in SUBSET Points
    BY SlotsAssumption
  <2>2. links \in SUBSET F /\ links \in SUBSET Points /\ Cardinality(links) <= Cap
    BY <2>1, ShrunkSize
  <2>3. CASE D = links
    BY <2>2, <2>3
  <2>4. CASE D \in Shrunk(Owner, links, Cap)
    BY <2>1, <2>2, <2>4, ShrunkSize
  <2> QED BY <1>5, <2>3, <2>4
<1>8. offered' = F \cup O /\ phase' = "open" /\ use_optimized_building' = use_optimized_building
  BY <1>4 DEF LinkBatched
<1>9. DistStep(D)
  <2>1. Popped(D, s)
    <3>1. D \in SUBSET Points
      BY <1>7
    <3> QED BY <3>1, NearestFirstFacts
  <2>2. offered \in SUBSET Points /\ offered' \in SUBSET Points /\ offered \subseteq offered'
    BY <1>1, <1>8
  <2>3. D \in SUBSET offered' /\ 0 + Cardinality(D) <= Cap /\ 0 \in {0, boundary}
    <3>1. D \in SUBSET Points /\ Cardinality(D) \in Nat
      BY <1>7, PointsAssumption, FS_Subset, FS_CardinalityType
    <3> QED BY <1>7, <1>8, <3>1
  <2>4. DistStep((IF 0 = 0 THEN {} ELSE Zone1) \cup D)
    BY <1>2, <1>6, <1>8, <2>1, <2>2, <2>3, SetDistStep
  <2> QED BY <2>4
<1>10. SlotsInv'
  BY <1>1, <1>5, <1>7, <1>8, <1>9 DEF SlotsInv, DistStep
<1>11. List!LinkBatched
  <2>1. D \in List!Batched(Owner, Zone1, links, Cap)
    <3>1. Cardinality({}) = 0 /\ 0 + Cardinality(links) = Cardinality(links) /\ Cap \in Nat
          /\ Cardinality(links) \in Nat /\ links \cup {} = links
      <4>1. links \in SUBSET Points
        BY <1>7
      <4> QED BY <4>1, PointsAssumption, FS_Subset, FS_CardinalityType, FS_EmptySet, SlotsAssumption
    <3>2. D \in Batched(Owner, {}, links, Cap)
      BY <1>5, <3>1 DEF Batched
    <3> QED BY <1>3, <3>2, ListBatched
  <2>2. Zone1' = D /\ Zone2' \in List!Moved(Zone1, Zone2, D, Total)
    BY <1>9, ListMoved DEF DistStep
  <2>3. links \in List!Shrunk(Owner, F, Cap) /\ List!Cardinality(F) <= MaxFound
    BY <1>4, ListShrunk, ListSize
  <2> QED BY <1>1, <1>4, <1>5, <1>8, <2>1, <2>2, <2>3 DEF List!LinkBatched
<1> QED BY <1>9, <1>10, <1>11 DEF DistStep

\* add_link_dist_oriented_opt
LEMMA ReverseDistStep ==
  ASSUME SlotsInv, NEW p \in Points, ReverseDist(p)
  PROVE  SlotsInv' /\ OrderStep /\ List!ReverseDist(p) /\ neighbors'[Total] = neighbors[Total]
<1>1. /\ phase \in {"open", "complete"} /\ p \notin offered \cup {Owner}
      /\ offered' = offered \cup {p} /\ phase' = phase /\ pending' = pending
      /\ use_optimized_building' = use_optimized_building
  BY DEF ReverseDist
<1>2. /\ offered \in SUBSET (Points \ {Owner}) /\ pending \in SUBSET offered
      /\ use_optimized_building \in BOOLEAN
  BY DEF SlotsInv
<1>3. PICK e \in Slots : Shape(neighbors, boundary, e, offered)
  BY DEF SlotsInv
<1>4. offered \in SUBSET Points /\ offered' \in SUBSET Points /\ offered \subseteq offered'
  BY <1>1, <1>2
<1>5. /\ boundary \in Nat /\ boundary <= Cap /\ Cap \in Nat
      /\ Zone1 \in SUBSET offered /\ Cardinality(Zone1) = boundary
  BY <1>3, <1>4, ZoneFacts
<1>6. PICK D : DistStep(D) /\ D \in Added(Owner, Zone1, p, Cap)
  <2>1. CASE boundary < Cap
    <3>1. SetDist(boundary, <<p>>)
      BY <1>5, <2>1 DEF ReverseDist
    <3>2. Popped({p}, <<p>>) /\ Cardinality({p}) = 1
      BY OneLink, FS_Singleton
    <3>3. {p} \in SUBSET offered' /\ boundary + Cardinality({p}) <= Cap /\ {p} \cap Zone1 = {}
      BY <1>1, <1>5, <2>1, <3>2
    <3>4. DistStep((IF boundary = 0 THEN {} ELSE Zone1) \cup {p})
      BY <1>1, <1>3, <1>4, <3>1, <3>2, <3>3, SetDistStep
    <3>5. (IF boundary = 0 THEN {} ELSE Zone1) = Zone1
      <4>1. Zone1 \in SUBSET Points
        BY <1>4, <1>5
      <4>2. boundary = 0 => Zone1 = {}
        BY <1>5, <4>1, PointsAssumption, FS_Subset, FS_EmptySet
      <4> QED BY <4>2
    <3>6. Zone1 \cup {p} \in Added(Owner, Zone1, p, Cap)
      BY <1>5, <2>1 DEF Added
    <3> QED BY <3>4, <3>5, <3>6
  <2>2. CASE ~(boundary < Cap)
    <3>1. PICK D \in Shrunk(Owner, Zone1 \cup {p}, Cap) :
            \E s \in NearestFirst(D) : SetDist(0, s)
      BY <1>5, <2>2 DEF ReverseDist, Zone1
    <3>2. PICK s \in NearestFirst(D) : SetDist(0, s)
      BY <3>1
    <3>3. Zone1 \cup {p} \in SUBSET Points
      BY <1>4, <1>5
    <3>4. D \in SUBSET (Zone1 \cup {p}) /\ Cardinality(D) \in Nat /\ Cardinality(D) <= Cap
      BY <1>5, <3>1, <3>3, ShrunkSize
    <3>5. Popped(D, s)
      <4>1. D \in SUBSET Points
        BY <3>3, <3>4
      <4> QED BY <3>2, <4>1, NearestFirstFacts
    <3>6. D \in SUBSET offered' /\ 0 + Cardinality(D) <= Cap /\ 0 \in {0, boundary}
      BY <1>1, <1>5, <3>4
    <3>7. DistStep((IF 0 = 0 THEN {} ELSE Zone1) \cup D)
      BY <1>1, <1>3, <1>4, <3>2, <3>5, <3>6, SetDistStep
    <3>8. D \in Added(Owner, Zone1, p, Cap)
      BY <1>5, <2>2, <3>1 DEF Added
    <3> QED BY <3>7, <3>8
  <2> QED BY <2>1, <2>2
<1>7. SlotsInv'
  BY <1>1, <1>2, <1>6 DEF SlotsInv, DistStep
<1>8. List!ReverseDist(p)
  <2>1. D \in List!Added(Owner, Zone1, p, Cap)
    BY <1>6, ListAdded
  <2>2. Zone1' = D /\ Zone2' \in List!Moved(Zone1, Zone2, D, Total)
    BY <1>6, ListMoved DEF DistStep
  <2> QED BY <1>1, <2>1, <2>2 DEF List!ReverseDist
<1> QED BY <1>6, <1>7, <1>8 DEF DistStep

\* add_link_extending_batched
LEMMA LinkExtStep ==
  ASSUME SlotsInv, LinkExt
  PROVE  SlotsInv' /\ OrderStep /\ List!LinkExt /\ neighbors'[Total] = neighbors[Total]
<1>1. /\ phase = "open" /\ phase' = "complete" /\ pending' = {}
      /\ use_optimized_building' = use_optimized_building
      /\ boundary' = boundary /\ offered' = offered
  BY DEF LinkExt
<1>2. /\ offered \in SUBSET (Points \ {Owner}) /\ pending \in SUBSET offered
      /\ use_optimized_building \in BOOLEAN
  BY DEF SlotsInv
<1>3. PICK e \in Slots : Shape(neighbors, boundary, e, offered)
  BY DEF SlotsInv
<1>4. offered \in SUBSET Points /\ offered' \in SUBSET Points /\ offered \subseteq offered'
  BY <1>1, <1>2
<1>5. /\ boundary \in Nat /\ boundary <= Cap /\ Cap \in Nat /\ Cap <= Total /\ Total \in Nat
      /\ TrueEnd(neighbors, boundary) = e /\ Zone2 = In(neighbors, boundary, e)
      /\ Zone2 \in SUBSET offered /\ Cardinality(Zone1) = boundary
  BY <1>3, <1>4, ZoneFacts
<1>6. PICK E \in KeepNearest(Owner, Zone2 \cup pending, Total - boundary) :
        \E s \in NearestFirst(E) : neighbors' = Rewritten(neighbors, boundary, s)
  BY <1>5 DEF LinkExt, Rewritten
<1>7. PICK s \in NearestFirst(E) : neighbors' = Rewritten(neighbors, boundary, s)
  BY <1>6
<1>8. E \in SUBSET offered' /\ Cardinality(E) <= Total - boundary
  <2>1. Zone2 \cup pending \in SUBSET Points /\ Total - boundary \in Nat
    BY <1>2, <1>5
  <2>2. E \in SUBSET (Zone2 \cup pending) /\ Cardinality(E) <= Total - boundary
    BY <1>6, <2>1, KeptSize
  <2> QED BY <1>1, <1>2, <1>5, <2>2
<1>9. /\ ExtWritten(neighbors', neighbors, boundary, boundary + Len(s), offered', E)
      /\ Sorted(neighbors', boundary, boundary + Len(s))
  BY <1>3, <1>4, <1>7, <1>8, RewrittenShape
<1>10. ExtStep(E)
  BY <1>1, <1>3, <1>4, <1>9, SetExtStep
<1>11. SlotsInv'
  BY <1>1, <1>2, <1>10 DEF SlotsInv, ExtStep
<1>12. List!LinkExt
  <2>1. E \in List!KeepNearest(Owner, Zone2 \cup pending, Total - List!Cardinality(Zone1))
    BY <1>5, <1>6, ListKeepNearest, ListSize
  <2>2. Zone1' = Zone1 /\ Zone2' = E
    BY <1>10 DEF ExtStep
  <2> QED BY <1>1, <2>1, <2>2 DEF List!LinkExt
<1> QED BY <1>10, <1>11, <1>12 DEF ExtStep

\* More points may be offered than are in the list.
LEMMA ShapeMono ==
  ASSUME NEW S, NEW R, S \subseteq R, NEW a, NEW b, NEW e, Shape(a, b, e, S)
  PROVE  Shape(a, b, e, R)
BY DEF Shape

\* Writing one slot is inserting where nothing moves on.
LEMMA PutOne ==
  ASSUME NEW A, NEW a \in [Slots -> A], NEW e \in Nat, NEW p
  PROVE  [a EXCEPT ![e] = p] = Inserting(a, e, p, e)
<1>1. \A i \in Slots : ~(e + 1 <= i /\ i < e + 1 + (e - e))
  BY SlotsAssumption DEF Slots
<1>2. Move(a, e, e + 1, e - e) = [i \in Slots |-> a[i]]
  BY <1>1 DEF Move
<1>3. [i \in Slots |-> a[i]] = a
  OBVIOUS
<1> QED BY <1>2, <1>3 DEF Inserting

\* What both forms of the reverse link start from.
ReverseExtStart(p, e) ==
  /\ phase \in {"open", "complete"} /\ p \in offered' /\ p \notin Zone2
  /\ offered' = offered \cup {p} /\ pending' = pending
  /\ boundary' = boundary /\ use_optimized_building' = use_optimized_building
  /\ use_optimized_building \in BOOLEAN
  /\ offered \in SUBSET Points /\ offered' \in SUBSET (Points \ {Owner})
  /\ offered' \in SUBSET Points /\ pending \in SUBSET offered /\ p \notin offered \cup {Owner}
  /\ e \in Slots /\ Shape(neighbors, boundary, e, offered)
  /\ boundary \in Nat /\ e \in Nat /\ boundary <= e /\ e <= Total /\ boundary <= Cap
  /\ Total \in Nat /\ Cap \in Nat /\ Cap <= Total /\ 0 < Cap
  /\ TrueEnd(neighbors, boundary) = e /\ Zone2 = In(neighbors, boundary, e)
  /\ Cardinality(Zone1) = boundary /\ Cardinality(Zone2) = e - boundary /\ IsFiniteSet(Zone2)
  /\ Cardinality(Zone2 \cup {p}) = e - boundary + 1 /\ IsFiniteSet(Zone2 \cup {p})

\* A reverse link starts so.
LEMMA ReverseExtStarts ==
  ASSUME SlotsInv, NEW p \in Points, ReverseExt(p)
  PROVE  \E e : ReverseExtStart(p, e)
<1>1. /\ phase \in {"open", "complete"} /\ p \notin offered \cup {Owner}
      /\ offered' = offered \cup {p} /\ pending' = pending
      /\ boundary' = boundary /\ use_optimized_building' = use_optimized_building
  BY DEF ReverseExt
<1>2. /\ offered \in SUBSET (Points \ {Owner}) /\ pending \in SUBSET offered
      /\ use_optimized_building \in BOOLEAN
  BY DEF SlotsInv
<1>3. PICK e \in Slots : Shape(neighbors, boundary, e, offered)
  BY DEF SlotsInv
<1>4. /\ offered \in SUBSET Points /\ offered' \in SUBSET Points /\ p \in offered'
      /\ offered' \in SUBSET (Points \ {Owner})
  BY <1>1, <1>2
<1>5. /\ boundary \in Nat /\ e \in Nat /\ boundary <= e /\ e <= Total /\ boundary <= Cap
      /\ Total \in Nat /\ Cap \in Nat /\ Cap <= Total
      /\ TrueEnd(neighbors, boundary) = e /\ Zone2 = In(neighbors, boundary, e)
      /\ Cardinality(Zone1) = boundary /\ Cardinality(Zone2) = e - boundary /\ IsFiniteSet(Zone2)
      /\ Zone2 \in SUBSET offered
  BY <1>3, <1>4, ZoneFacts
<1>6. p \notin Zone2 /\ 0 < Cap
  BY <1>1, <1>5, SlotsAssumption
<1>7. Cardinality(Zone2 \cup {p}) = e - boundary + 1 /\ IsFiniteSet(Zone2 \cup {p})
  BY <1>5, <1>6, FS_AddElement
<1>8. ReverseExtStart(p, e)
  BY <1>1, <1>2, <1>3, <1>4, <1>5, <1>6, <1>7 DEF ReverseExtStart
<1> QED BY <1>8

\* The zone becomes E, and no assertion fails.
LEMMA ReverseExtDone ==
  ASSUME NEW p, NEW e, ReverseExtStart(p, e), phase' = phase, NEW m, NEW E,
         ExtWritten(neighbors', neighbors, boundary, m, offered', E),
         use_optimized_building =>
           (Ordered(neighbors, boundary) => Sorted(neighbors', boundary, m)),
         E \in Inserted(Owner, Zone2, p, Total - boundary, use_optimized_building)
  PROVE  /\ SlotsInv' /\ OrderStep /\ List!ReverseExt(p)
         /\ phase' # "aborted" /\ neighbors'[Total] = neighbors[Total]
<1>1. ExtStep(E)
  BY SetExtStep DEF ReverseExtStart
<1>2. SlotsInv'
  BY <1>1 DEF ReverseExtStart, ExtStep, SlotsInv
<1>3. E \in List!Inserted(Owner, Zone2, p, Total - List!Cardinality(Zone1), use_optimized_building)
  BY ListInserted, ListSize DEF ReverseExtStart
<1>4. Zone1' = Zone1 /\ Zone2' = E /\ OrderStep /\ neighbors'[Total] = neighbors[Total]
  BY <1>1 DEF ExtStep
<1>5. List!ReverseExt(p)
  BY <1>3, <1>4 DEF List!ReverseExt, ReverseExtStart
<1> QED BY <1>2, <1>4, <1>5 DEF ReverseExtStart

\* add_link_extending: into a free slot, or all of the zone anew.
LEMMA ReverseExtSlowStep ==
  ASSUME NEW p, NEW e, ReverseExtStart(p, e), ReverseExtSlow(p)
  PROVE  /\ SlotsInv' /\ OrderStep /\ List!ReverseExt(p)
         /\ phase' # "aborted" /\ neighbors'[Total] = neighbors[Total]
<1> USE DEF ReverseExtStart
<1>1. ~use_optimized_building /\ phase' = phase
  BY DEF ReverseExtSlow
<1>2. CASE neighbors[Total - 1] = NoPoint
  <2>1. e < Total
    <3>1. e = Total => Total - 1 \in 0 .. e - 1
      OBVIOUS
    <3>2. neighbors[Total - 1] \notin offered
      BY <1>2, SlotsAssumption
    <3>3. e # Total
      BY <3>1, <3>2 DEF Shape
    <3> QED BY <3>3
  <2>2. neighbors' = [neighbors EXCEPT ![e] = p]
    BY <1>2 DEF ReverseExtSlow, PutLast
  <2>3. neighbors' = Inserting(neighbors, e, p, e)
    <3>1. neighbors \in [Slots -> Points \cup {NoPoint, Foreign}]
      BY DEF Shape
    <3> QED BY <2>2, <3>1, PutOne
  <2>4. ExtWritten(neighbors', neighbors, boundary, e + 1, offered', Zone2 \cup {p})
    <3>1. e = (IF e = Total THEN e - 1 ELSE e) /\ e \in boundary .. e
      BY <2>1
    <3> QED BY <2>3, <3>1, InsertingShape
  <2>5. Zone2 \cup {p} \in Inserted(Owner, Zone2, p, Total - boundary, use_optimized_building)
    BY <1>1, <2>1 DEF Inserted, KeepNearest
  <2> QED BY <1>1, <2>4, <2>5, ReverseExtDone
<1>3. CASE neighbors[Total - 1] # NoPoint
  <2>1. e = Total
    <3>1. e # Total => Total - 1 \in e .. Total - 1
      OBVIOUS
    <3>2. e # Total => neighbors[Total - 1] = NoPoint
      BY <3>1 DEF Shape
    <3> QED BY <1>3, <3>2
  <2>2. PICK E \in KeepNearest(Owner, Zone2 \cup {p}, Total - boundary) :
          \E s \in NearestFirst(E) : neighbors' = Put(neighbors, boundary, s)
    BY <1>3, <2>1 DEF ReverseExtSlow
  <2>3. PICK s \in NearestFirst(E) : neighbors' = Put(neighbors, boundary, s)
    BY <2>2
  <2>4. E \in SUBSET (Zone2 \cup {p}) /\ Cardinality(E) = Total - boundary
    BY <2>1, <2>2 DEF KeepNearest
  <2>5. E \in SUBSET offered' /\ E \in SUBSET Points
    <3>1. Zone2 \in SUBSET offered
      BY ZoneFacts
    <3> QED BY <2>4, <3>1
  <2>6. Len(s) = Total - boundary
    BY <2>4, <2>5, NearestFirstFacts DEF Popped
  <2>7. neighbors' = Rewritten(neighbors, boundary, s)
    <3>1. \A i \in Slots : ~(boundary + Len(s) <= i /\ i < Total)
      BY <2>6 DEF Slots
    <3>2. Rewritten(neighbors, boundary, s) = [i \in Slots |-> Put(neighbors, boundary, s)[i]]
      BY <3>1 DEF Rewritten
    <3>3. Put(neighbors, boundary, s) = [i \in Slots |-> Put(neighbors, boundary, s)[i]]
      BY DEF Put
    <3> QED BY <2>3, <3>2, <3>3
  <2>8. ExtWritten(neighbors', neighbors, boundary, boundary + Len(s), offered', E)
    <3>1. /\ offered \in SUBSET Points /\ offered' \in SUBSET Points /\ offered \subseteq offered'
          /\ Shape(neighbors, boundary, e, offered)
          /\ E \in SUBSET offered' /\ Cardinality(E) <= Total - boundary /\ s \in NearestFirst(E)
      BY <2>3, <2>4, <2>5
    <3>2. ExtWritten(Rewritten(neighbors, boundary, s), neighbors, boundary, boundary + Len(s),
                     offered', E)
      BY ONLY <3>1, RewrittenShape
    <3> QED BY <2>7, <3>2
  <2>9. E \in Inserted(Owner, Zone2, p, Total - boundary, use_optimized_building)
    BY <1>1, <2>2 DEF Inserted
  <2> QED BY <1>1, <2>8, <2>9, ReverseExtDone
<1> QED BY <1>2, <1>3

HasRoom == use_optimized_building => Cap < Total

\* add_link_extending_fast into a zone that has slots: where the binary search
\* finds the place, or not at all.
LEMMA InsertSortedStep ==
  ASSUME NEW p, NEW e, ReverseExtStart(p, e), use_optimized_building, phase' = phase,
         e > boundary, InsertSorted(p, e)
  PROVE  /\ SlotsInv' /\ OrderStep /\ List!ReverseExt(p)
         /\ phase' # "aborted" /\ neighbors'[Total] = neighbors[Total]
<1> DEFINE at == Position(neighbors, p, boundary, e)
           last == IF e = Total THEN e - 1 ELSE e
<1>1. /\ boundary \in Nat /\ e \in Nat /\ boundary <= e /\ e <= Total /\ Total \in Nat
      /\ Zone2 = In(neighbors, boundary, e) /\ Cardinality(Zone2) = e - boundary
      /\ Cardinality(Zone2 \cup {p}) = e - boundary + 1 /\ IsFiniteSet(Zone2 \cup {p})
      /\ offered \in SUBSET Points /\ offered' \in SUBSET Points /\ offered \subseteq offered'
      /\ p \in offered' /\ p \notin Zone2 /\ p \in Points
      /\ Shape(neighbors, boundary, e, offered)
  BY DEF ReverseExtStart
<1>2. boundary \in Slots /\ e \in boundary .. Total
  BY <1>1 DEF Slots
<1>3. at \in boundary .. e
  BY <1>2, PositionFound
<1>4. Ordered(neighbors, boundary) =>
        Sorted(neighbors, boundary, e) /\ Divides(neighbors, p, boundary, at, e)
  <2> SUFFICES ASSUME Ordered(neighbors, boundary)
               PROVE  Sorted(neighbors, boundary, e) /\ Divides(neighbors, p, boundary, at, e)
    OBVIOUS
  <2>1. Sorted(neighbors, boundary, e)
    BY <1>1, OrderedIsSorted
  <2>2. Monotone(neighbors, p, boundary, e)
    <3> SUFFICES ASSUME NEW i \in boundary .. e - 1, NEW j \in boundary .. e - 1, i < j,
                        Before(neighbors, p, j)
                 PROVE  Before(neighbors, p, i)
      BY DEF Monotone
    <3>1. Dist[Owner][neighbors[i]] <= Dist[Owner][neighbors[j]]
      BY <2>1 DEF Sorted
    <3>2. i \in 0 .. e - 1 /\ j \in 0 .. e - 1
      BY <1>1
    <3>3. neighbors[i] \in Points /\ neighbors[j] \in Points /\ Owner \in Points
      BY <1>1, <3>2, SlotsAssumption DEF Shape
    <3>4. /\ Dist[Owner][neighbors[i]] \in Int /\ Dist[Owner][neighbors[j]] \in Int
          /\ Dist[Owner][p] \in Int
      BY <1>1, <3>3, DistAssumption
    <3> QED BY <3>1, <3>4 DEF Before
  <2> QED BY <1>2, <2>1, <2>2, PositionFound
<1> HIDE DEF at
<1>5. IF at > last THEN neighbors' = neighbors
      ELSE neighbors' = Inserting(neighbors, at, p, last)
  BY DEF InsertSorted, Inserting, at
<1>6. CASE at > last
  <2>1. e = Total /\ neighbors' = neighbors
    BY <1>1, <1>3, <1>5, <1>6
  <2>2. Shape(neighbors', boundary, e, offered')
    BY <1>1, <2>1, ShapeMono
  <2>3. ExtWritten(neighbors', neighbors, boundary, e, offered', Zone2)
    BY <1>1, <2>1, <2>2 DEF ExtWritten
  <2>4. Zone2 \in FirstOf(Zone2 \cup {p}, Total - boundary)
    BY <1>1, <2>1 DEF FirstOf
  <2>5. Zone2 \in Inserted(Owner, Zone2, p, Total - boundary, use_optimized_building)
    BY <2>4 DEF Inserted
  <2> QED BY <1>4, <2>1, <2>3, <2>5, ReverseExtDone
<1>7. CASE ~(at > last)
  <2> DEFINE E == In(neighbors, boundary, last) \cup {p}
             m == last + 1
  <2>1. last \in Int /\ at \in boundary .. last /\ neighbors' = Inserting(neighbors, at, p, last)
    BY <1>1, <1>3, <1>5, <1>7
  <2>2. m \in Nat /\ m - boundary \in Nat
        /\ m - boundary = IF e - boundary + 1 <= Total - boundary THEN e - boundary + 1
                         ELSE Total - boundary
    BY <1>1, <2>1
  <2> HIDE DEF last
  <2>3. /\ ExtWritten(neighbors', neighbors, boundary, m, offered', E)
        /\ Sorted(neighbors, boundary, e) /\ Divides(neighbors, p, boundary, at, e)
             => Sorted(neighbors', boundary, m)
    BY <1>1, <2>1, InsertingShape DEF last
  <2>4. In(neighbors, boundary, last) \subseteq Zone2
    <3>1. \A i \in boundary .. last - 1 : i \in boundary .. e - 1
      BY <1>1, <2>1 DEF last
    <3> QED BY <1>1, <3>1 DEF In
  <2>5. Cardinality(E) = m - boundary
    <3>1. Shape(neighbors', boundary, m, offered') /\ In(neighbors', boundary, m) = E
      BY <2>3 DEF ExtWritten
    <3> QED BY <1>1, <3>1, ShapeSizes
  <2>6. E \in SUBSET (Zone2 \cup {p}) /\ Total - boundary \in Nat
    BY <1>1, <2>4
  <2> HIDE DEF E
  <2>7. E \in FirstOf(Zone2 \cup {p}, Total - boundary)
    BY <1>1, <2>2, <2>5, <2>6, FirstOfKept
  <2>8. E \in Inserted(Owner, Zone2, p, Total - boundary, use_optimized_building)
    BY <2>7 DEF Inserted
  <2> QED BY <1>4, <2>3, <2>8, ReverseExtDone
<1> QED BY <1>6, <1>7

\* add_link_extending_fast
LEMMA ReverseExtFastStep ==
  ASSUME NEW p, NEW e, ReverseExtStart(p, e), ReverseExtFast(p)
  PROVE  /\ SlotsInv' /\ OrderStep
         /\ HasRoom => /\ List!ReverseExt(p)
                       /\ phase' # "aborted" /\ neighbors'[Total] = neighbors[Total]
<1>1. /\ boundary \in Nat /\ e \in Nat /\ boundary <= e /\ e <= Total /\ Total \in Nat
      /\ boundary <= Cap /\ Cap \in Nat /\ TrueEnd(neighbors, boundary) = e
      /\ Zone2 = In(neighbors, boundary, e) /\ Cardinality(Zone2) = e - boundary
      /\ Cardinality(Zone2 \cup {p}) = e - boundary + 1
      /\ offered \in SUBSET Points /\ offered' \in SUBSET Points /\ offered \subseteq offered'
      /\ offered' \in SUBSET (Points \ {Owner}) /\ pending' \in SUBSET offered'
      /\ p \in offered' /\ p \notin Zone2 /\ p \in Points /\ e \in Slots
      /\ Shape(neighbors, boundary, e, offered) /\ boundary' = boundary
      /\ use_optimized_building' = use_optimized_building /\ phase \in {"open", "complete"}
  BY DEF ReverseExtStart
<1>2. use_optimized_building
  BY DEF ReverseExtFast
<1>3. e > boundary => neighbors[boundary] # NoPoint
  <2>1. e > boundary => boundary \in 0 .. e - 1
    BY <1>1
  <2> QED BY <1>1, <2>1, SlotsAssumption DEF Shape
<1>4. e = boundary /\ boundary < Total => neighbors[boundary] = NoPoint
  <2>1. e = boundary /\ boundary < Total => boundary \in e .. Total - 1
    BY <1>1
  <2> QED BY <1>1, <2>1 DEF Shape
<1>5. HasRoom => boundary < Total
  BY <1>1, <1>2 DEF HasRoom
<1>6. CASE neighbors[boundary] = NoPoint /\ boundary < Total
  <2>1. /\ e = boundary /\ neighbors' = [neighbors EXCEPT ![e] = p] /\ phase' = phase
    BY <1>1, <1>3, <1>6 DEF ReverseExtFast
  <2>2. neighbors' = Inserting(neighbors, e, p, e)
    <3>1. neighbors \in [Slots -> Points \cup {NoPoint, Foreign}]
      BY <1>1 DEF Shape
    <3> QED BY <1>1, <2>1, <3>1, PutOne
  <2>3. e = (IF e = Total THEN e - 1 ELSE e) /\ e \in boundary .. e
    BY <1>1, <1>6, <2>1
  <2>4. /\ ExtWritten(neighbors', neighbors, boundary, e + 1, offered', Zone2 \cup {p})
        /\ Sorted(neighbors, boundary, e) /\ Divides(neighbors, p, boundary, e, e)
             => Sorted(neighbors', boundary, e + 1)
    BY <1>1, <2>2, <2>3, InsertingShape
  <2>5. Sorted(neighbors, boundary, e) /\ Divides(neighbors, p, boundary, e, e)
    BY <1>1, <2>1 DEF Sorted, Divides
  <2>6. Zone2 \cup {p} \in Inserted(Owner, Zone2, p, Total - boundary, use_optimized_building)
    <3>1. e - boundary + 1 <= Total - boundary
      BY <1>1, <1>6, <2>1
    <3> QED BY <1>1, <1>2, <3>1 DEF Inserted, FirstOf
  <2> QED BY <2>1, <2>4, <2>5, <2>6, ReverseExtDone
<1>7. CASE neighbors[boundary] = NoPoint /\ ~(boundary < Total)
  <2>1. boundary = Total /\ e = Total
    BY <1>1, <1>7
  <2>2. neighbors' = [neighbors EXCEPT ![Total] = p] /\ phase' = phase
    BY <1>7, <2>1 DEF ReverseExtFast
  <2>3. \A i \in 0 .. Total - 1 : neighbors'[i] = neighbors[i]
    <3>1. \A i \in 0 .. Total - 1 : i \in Slots /\ i # Total
      BY <1>1 DEF Slots
    <3> QED BY <1>1, <2>2, <3>1 DEF Shape
  <2>4. Shape(neighbors', boundary', e, offered')
    <3>1. neighbors' \in [Slots -> Points \cup {NoPoint, Foreign}]
      BY <1>1, <2>2 DEF Shape
    <3>2. /\ boundary' \in 0 .. Cap /\ e \in boundary' .. Total
          /\ \A i \in e .. Total - 1 : neighbors'[i] = NoPoint
          /\ \A i, j \in boundary' .. e - 1 : i # j => neighbors'[i] # neighbors'[j]
      BY <1>1, <2>1
    <3>3. \A i \in 0 .. e - 1 : neighbors'[i] \in offered'
      BY <1>1, <2>1, <2>3 DEF Shape
    <3>4. \A i, j \in 0 .. boundary' - 1 : i # j => neighbors'[i] # neighbors'[j]
      BY <1>1, <2>1, <2>3 DEF Shape
    <3> QED BY <3>1, <3>2, <3>3, <3>4 DEF Shape
  <2>5. SlotsInv'
    BY <1>1, <1>2, <2>2, <2>4 DEF SlotsInv
  <2>6. ExtendingOrder'
    <3>1. \A i, j \in boundary' .. Total - 1 : ~(i < j)
      BY <1>1, <2>1
    <3> QED BY <3>1 DEF ExtendingOrder
  <2> QED BY <1>5, <1>7, <2>5, <2>6 DEF OrderStep
<1>8. CASE neighbors[boundary] # NoPoint /\ e > boundary
  <2>1. InsertSorted(p, e) /\ phase' = phase
    BY <1>1, <1>8 DEF ReverseExtFast
  <2> QED BY <1>2, <1>8, <2>1, InsertSortedStep
<1>9. CASE neighbors[boundary] # NoPoint /\ ~(e > boundary)
  <2>1. phase' = "aborted" /\ neighbors' = neighbors
    BY <1>1, <1>9 DEF ReverseExtFast
  <2>2. ~HasRoom
    BY <1>1, <1>4, <1>5, <1>9
  <2>3. Shape(neighbors', boundary', e, offered')
    BY <1>1, <2>1, ShapeMono
  <2>4. SlotsInv'
    BY <1>1, <1>2, <2>1, <2>3 DEF SlotsInv
  <2>5. OrderStep
    BY <1>1, <2>1 DEF OrderStep, ExtendingOrder
  <2> QED BY <2>2, <2>4, <2>5
<1> QED BY <1>6, <1>7, <1>8, <1>9

-----------------------------------------------------------------------------
(* The theorems                                                             *)

\* An empty list has the shape of the invariant.
LEMMA InvInit == Init => SlotsInv /\ List!ListInit /\ StaysInRange
<1> SUFFICES ASSUME Init PROVE SlotsInv /\ List!ListInit /\ StaysInRange
  OBVIOUS
<1>1. /\ use_optimized_building \in BOOLEAN /\ boundary = 0
      /\ phase = "new" /\ pending = {} /\ offered = {}
  BY DEF Init
<1>2. PICK next \in {NoPoint, Foreign} :
        neighbors = [i \in Slots |-> IF i = Total THEN next ELSE NoPoint]
  BY DEF Init
<1>3. Total \in Nat /\ Cap \in Nat
  BY SlotsAssumption
<1>4. Shape(neighbors, boundary, 0, offered)
  <2>1. neighbors \in [Slots -> Points \cup {NoPoint, Foreign}]
    BY <1>2
  <2>2. \A i \in 0 .. Total - 1 : neighbors[i] = NoPoint
    <3>1. \A i \in 0 .. Total - 1 : i \in Slots /\ i # Total
      BY <1>3 DEF Slots
    <3> QED BY <1>2, <3>1
  <2>3. \A i \in 0 .. 0 - 1 : FALSE
    OBVIOUS
  <2>4. 0 \in 0 .. Cap /\ 0 \in 0 .. Total
    BY <1>3
  <2> QED BY <1>1, <2>1, <2>2, <2>3, <2>4 DEF Shape
<1>5. SlotsInv
  <2>1. 0 \in Slots
    BY <1>3 DEF Slots
  <2> QED BY <1>1, <1>4, <2>1 DEF SlotsInv
<1>6. Zone1 = {} /\ Zone2 = {}
  <2>1. Zone1 \in SUBSET offered /\ Zone2 \in SUBSET offered
    BY <1>1, <1>4, ZoneFacts
  <2> QED BY <1>1, <2>1
<1>7. StaysInRange
  <2>1. Total \in Slots
    BY <1>3 DEF Slots
  <2> QED BY <1>1, <1>2, <2>1 DEF StaysInRange
<1> QED BY <1>1, <1>5, <1>6, <1>7 DEF List!ListInit

\* Every step keeps the invariant and, but for the slots that the other zone
\* gives up, the order; with room in the list it is a step of the list of two
\* zones, and stays in the list's range.
LEMMA InvNext ==
  ASSUME SlotsInv, [Next]_vars
  PROVE  /\ SlotsInv' /\ OrderStep
         /\ HasRoom => /\ HasRoom' /\ [List!ListNext]_(List!lvars)
                       /\ StaysInRange => StaysInRange'
<1>1. CASE First
  <2>1. /\ phase = "new" /\ phase' = "complete"
        /\ UNCHANGED <<use_optimized_building, neighbors, boundary, pending, offered>>
    BY <1>1 DEF First
  <2>2. SlotsInv'
    BY <2>1 DEF SlotsInv
  <2>3. OrderStep
    BY <2>1 DEF OrderStep, ExtendingOrder
  <2>4. Zone1' = Zone1 /\ Zone2' = Zone2
    BY <2>1 DEF Zone1, Zone2
  <2>5. List!ListNext
    BY <2>1, <2>4 DEF List!ListNext, List!First
  <2> QED BY <2>1, <2>2, <2>3, <2>5 DEF HasRoom, StaysInRange
<1>2. CASE LinkBatched
  <2>1. use_optimized_building' = use_optimized_building /\ phase' = "open"
    BY <1>2 DEF LinkBatched
  <2>2. SlotsInv' /\ OrderStep /\ List!LinkBatched /\ neighbors'[Total] = neighbors[Total]
    BY <1>2, LinkBatchedStep
  <2> QED BY <2>1, <2>2 DEF HasRoom, StaysInRange, List!ListNext
<1>3. CASE LinkExt
  <2>1. use_optimized_building' = use_optimized_building /\ phase' = "complete"
    BY <1>3 DEF LinkExt
  <2>2. SlotsInv' /\ OrderStep /\ List!LinkExt /\ neighbors'[Total] = neighbors[Total]
    BY <1>3, LinkExtStep
  <2> QED BY <2>1, <2>2 DEF HasRoom, StaysInRange, List!ListNext
<1>4. ASSUME NEW p \in Points, ReverseDist(p)
      PROVE  /\ SlotsInv' /\ OrderStep
             /\ HasRoom => /\ HasRoom' /\ [List!ListNext]_(List!lvars)
                           /\ StaysInRange => StaysInRange'
  <2>1. use_optimized_building' = use_optimized_building /\ phase' = phase
    BY <1>4 DEF ReverseDist
  <2>2. SlotsInv' /\ OrderStep /\ List!ReverseDist(p) /\ neighbors'[Total] = neighbors[Total]
    BY <1>4, ReverseDistStep
  <2> QED BY <2>1, <2>2 DEF HasRoom, StaysInRange, List!ListNext
<1>5. ASSUME NEW p \in Points, ReverseExt(p)
      PROVE  /\ SlotsInv' /\ OrderStep
             /\ HasRoom => /\ HasRoom' /\ [List!ListNext]_(List!lvars)
                           /\ StaysInRange => StaysInRange'
  <2>1. use_optimized_building' = use_optimized_building
    BY <1>5 DEF ReverseExt
  <2>2. PICK e : ReverseExtStart(p, e)
    BY <1>5, ReverseExtStarts
  <2>3. /\ SlotsInv' /\ OrderStep
        /\ HasRoom => /\ List!ReverseExt(p)
                      /\ phase' # "aborted" /\ neighbors'[Total] = neighbors[Total]
    <3>1. CASE ReverseExtFast(p)
      BY <2>2, <3>1, ReverseExtFastStep
    <3>2. CASE ReverseExtSlow(p)
      BY <2>2, <3>2, ReverseExtSlowStep
    <3> QED BY <1>5, <3>1, <3>2 DEF ReverseExt
  <2> QED BY <2>1, <2>3 DEF HasRoom, StaysInRange, List!ListNext
<1>6. CASE UNCHANGED vars
  <2>1. /\ use_optimized_building' = use_optimized_building /\ neighbors' = neighbors
        /\ boundary' = boundary /\ phase' = phase /\ pending' = pending /\ offered' = offered
    BY <1>6 DEF vars
  <2>2. SlotsInv'
    BY <2>1 DEF SlotsInv
  <2>3. OrderStep
    BY <2>1 DEF OrderStep, ExtendingOrder
  <2>4. UNCHANGED List!lvars
    BY <2>1 DEF List!lvars, Zone1, Zone2
  <2> QED BY <2>1, <2>2, <2>3, <2>4 DEF HasRoom, StaysInRange
<1> QED BY <1>1, <1>2, <1>3, <1>4, <1>5, <1>6 DEF Next

\* The shape is an invariant.
LEMMA Invariant == Spec => []SlotsInv
<1>1. Init => SlotsInv
  BY InvInit
<1>2. SlotsInv /\ [Next]_vars => SlotsInv'
  BY InvNext
<1> QED BY <1>1, <1>2, PTL DEF Spec

\* Every slot holds a point, nothing, or at the end of the range a point of the
\* next list, and the boundary stays in the first zone: add_link_* of
\* PathSeer.cpp.
THEOREM TypeCorrect == Spec => []TypeOK
<1>1. SlotsInv => TypeOK
  <2> SUFFICES ASSUME SlotsInv PROVE TypeOK
    OBVIOUS
  <2>1. PICK e \in Slots : Shape(neighbors, boundary, e, offered)
    BY DEF SlotsInv
  <2>2. /\ neighbors \in [Slots -> Points \cup {NoPoint, Foreign}] /\ boundary \in 0 .. Cap
    BY <2>1 DEF Shape
  <2> QED BY <2>2 DEF SlotsInv, TypeOK
<1> QED BY <1>1, Invariant, PTL

\* The slots of a list are used without a gap, so that readers may stop at the
\* first -1, and the boundary claims no empty slot: what
\* move_the_extending_zone and all of add_link_* leave behind.
THEOREM StaysPacked == Spec => []Packed
<1>1. SlotsInv => Packed
  <2> SUFFICES ASSUME SlotsInv PROVE Packed
    OBVIOUS
  <2>1. PICK e \in Slots : Shape(neighbors, boundary, e, offered)
    BY DEF SlotsInv
  <2>2. offered \in SUBSET Points
    BY DEF SlotsInv
  <2>3. boundary \in Nat /\ e \in Nat /\ boundary <= e /\ e <= Total /\ Total \in Nat
    BY <2>1, <2>2, ZoneFacts
  <2>4. \A i \in 0 .. e - 1 : neighbors[i] # NoPoint
    BY <2>1, <2>2, SlotsAssumption DEF Shape
  <2>5. \A i \in 0 .. boundary - 1 : i \in 0 .. e - 1
    BY <2>3
  <2>6. ASSUME NEW i \in 0 .. Total - 1, NEW j \in 0 .. Total - 1, i < j, neighbors[j] # NoPoint
        PROVE  neighbors[i] # NoPoint
    <3>1. j \notin e .. Total - 1
      BY <2>1, <2>6 DEF Shape
    <3>2. i \in 0 .. e - 1
      BY <2>3, <2>6, <3>1
    <3> QED BY <2>4, <3>2
  <2> QED BY <2>4, <2>5, <2>6 DEF Packed
<1> QED BY <1>1, Invariant, PTL

\* No zone holds a point twice, whatever is moved, shrunk and inserted by
\* add_link_*.
THEOREM NoDoubles == Spec => []OncePerZone
<1>1. SlotsInv => OncePerZone
  <2> SUFFICES ASSUME SlotsInv, NEW i \in 0 .. Total - 1, NEW j \in 0 .. Total - 1, i < j,
                      neighbors[i] = neighbors[j], neighbors[i] # NoPoint
               PROVE  i < boundary /\ boundary <= j
    BY DEF OncePerZone
  <2>1. PICK e \in Slots : Shape(neighbors, boundary, e, offered)
    BY DEF SlotsInv
  <2>2. offered \in SUBSET Points
    BY DEF SlotsInv
  <2>3. boundary \in Nat /\ e \in Nat /\ boundary <= e /\ e <= Total /\ Total \in Nat
    BY <2>1, <2>2, ZoneFacts
  <2>4. j \notin e .. Total - 1
    BY <2>1 DEF Shape
  <2>5. i # j /\ j < e
    BY <2>3, <2>4
  <2>6. CASE j < boundary
    <3>1. i \in 0 .. boundary - 1 /\ j \in 0 .. boundary - 1
      BY <2>3, <2>6
    <3> QED BY <2>1, <2>5, <3>1 DEF Shape
  <2>7. CASE i >= boundary
    <3>1. i \in boundary .. e - 1 /\ j \in boundary .. e - 1
      BY <2>3, <2>5, <2>7
    <3> QED BY <2>1, <2>5, <3>1 DEF Shape
  <2> QED BY <2>3, <2>6, <2>7
<1> QED BY <1>1, Invariant, PTL

\* With a slot more than the dist-oriented zone may fill, add_link_extending_fast
\* and the other writes never reach the next list, nor the assertion that the
\* extending zone is not empty.
THEOREM InRange == Spec /\ HasRoom => []StaysInRange
<1>1. Init => SlotsInv /\ StaysInRange
  BY InvInit
<1>2. SlotsInv /\ HasRoom /\ StaysInRange /\ [Next]_vars
        => SlotsInv' /\ HasRoom' /\ StaysInRange'
  BY InvNext
<1> QED BY <1>1, <1>2, PTL DEF Spec

\* The slots implement the list of two zones that PathSeerBuild is made of:
\* every write of add_link_* is one write of NeighborList.
THEOREM ListRefined == Spec /\ HasRoom => ImplementsList
<1>1. Init => SlotsInv /\ List!ListInit
  BY InvInit
<1>2. SlotsInv /\ HasRoom /\ [Next]_vars
        => SlotsInv' /\ HasRoom' /\ [List!ListNext]_(List!lvars)
  BY InvNext
<1> QED BY <1>1, <1>2, PTL DEF Spec, ImplementsList, List!ListSpec

\* The order that the binary search of add_link_extending_fast relies on is
\* lost only where a shrunk dist-oriented zone leaves slots behind to an empty
\* extending zone: every other write keeps it, the insertion included.
THEOREM OrderLostOnlyThere == Spec => [][OrderStep]_vars
<1>1. SlotsInv /\ [Next]_vars => [OrderStep]_vars
  BY InvNext
<1> QED BY <1>1, Invariant, PTL DEF Spec
=============================================================================
