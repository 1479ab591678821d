------------------------- MODULE HybridSearchProofs -------------------------
(***************************************************************************)
(* What a filtered query guarantees on every graph, with every filter and   *)
(* for every value of its parameters: its batches fit their array, its work *)
(* has a bound, its results pass, come once and are the nearest that were   *)
(* looked at.  Mode 3, which does not guarantee the last three, is excluded *)
(* by name where it matters.                                                *)
(***************************************************************************)
EXTENDS HybridSearch, BoundedHeapProofs, FunctionTheorems

-----------------------------------------------------------------------------
(* Arithmetic                                                               *)

\* A quotient is at least, or at most, a number that its dividend says it is.
LEMMA DivAtLeast ==
  ASSUME NEW x \in Int, NEW m \in Nat \ {0}, NEW c \in Int, x >= c * m
  PROVE  x \div m >= c
OBVIOUS

LEMMA DivAtMost ==
  ASSUME NEW x \in Int, NEW m \in Nat \ {0}, NEW c \in Int, x <= c * m
  PROVE  x \div m <= c
OBVIOUS

\* The next look at the overhead comes CheckEvery slots after the last one.
LEMMA NextMultiple ==
  ASSUME NEW c \in Nat, NEW m \in Nat \ {0}, c % m = 0
  PROVE  (c + m) % m = 0
<1>1. c = m * (c \div m) /\ c \div m \in Nat
  OBVIOUS
<1> DEFINE q == c \div m + 1
<1>2. c + m = q * m /\ q \in Nat
  BY <1>1
<1> HIDE DEF q
<1>3. (c + m) \div m = q
  <2>1. (c + m) \div m >= q /\ (c + m) \div m <= q
    BY <1>2, DivAtLeast, DivAtMost
  <2> QED BY <1>2, <2>1
<1>4. c + m = m * ((c + m) \div m) + ((c + m) % m) /\ (c + m) % m \in Int
  OBVIOUS
<1>5. m * q = c + m
  BY <1>2
<1> DEFINE r == (c + m) % m
<1>6. c + m = c + m + r /\ r \in Int
  BY <1>3, <1>4, <1>5
<1> HIDE DEF r
<1>7. r = 0
  BY <1>6
<1> QED BY <1>7 DEF r

\* Products of natural numbers are not negative, and grow with their factors.
LEMMA NatProduct ==
  ASSUME NEW a \in Nat, NEW b \in Nat
  PROVE  a * b \in Nat
OBVIOUS

LEMMA ProductGrows ==
  ASSUME NEW a \in Nat, NEW b \in Int, NEW c \in Int, b <= c
  PROVE  a * b <= a * c
<1>1. a * (c - b) >= 0 /\ a * (c - b) = a * c - a * b
  BY NatProduct
<1> QED BY <1>1

CountersOK ==
  /\ num_new \in Nat /\ num_visited \in Nat /\ nr_satisfactory \in Nat
  /\ nsatisfy \in Nat /\ nfilter \in Nat
  /\ nr_satisfactory <= num_new /\ nsatisfy <= nfilter

\* The overhead of a list pays for one filter call per slot looked at.
LEMMA OverheadFloor ==
  ASSUME CountersOK, nfilter > 0
  PROVE  Overhead >= FilterCost * (num_new + num_visited)
<1> USE HybridAssumption DEF CountersOK
<1>1. CASE num_new > 0
  <2> DEFINE s == num_new + num_visited
             x == (num_new * FilterCost + nr_satisfactory * DistCost) * s
             c == FilterCost * s
  <2>1. s \in Nat /\ c \in Int /\ x \in Int
    OBVIOUS
  <2>2. (nr_satisfactory * DistCost) * s >= 0
    BY NatProduct
  <2>3. x = c * num_new + (nr_satisfactory * DistCost) * s
    OBVIOUS
  <2>4. (nr_satisfactory * DistCost) * s \in Int /\ c * num_new \in Int
    OBVIOUS
  <2>5. x >= c * num_new
    <3> HIDE DEF x, c, s
    <3> QED BY <2>2, <2>3, <2>4
  <2>6. x \div num_new >= c
    <3> HIDE DEF x, c
    <3> QED BY <1>1, <2>1, <2>5, DivAtLeast
  <2> QED BY <1>1, <2>6 DEF Overhead
<1>2. CASE num_new = 0
  <2> DEFINE x == num_visited * (nfilter * FilterCost + nsatisfy * DistCost)
             c == FilterCost * num_visited
  <2>1. c \in Int /\ x \in Int
    OBVIOUS
  <2>2. num_visited * (nsatisfy * DistCost) >= 0
    BY NatProduct
  <2>3. x = c * nfilter + num_visited * (nsatisfy * DistCost)
    OBVIOUS
  <2>4. num_visited * (nsatisfy * DistCost) \in Int /\ c * nfilter \in Int
    OBVIOUS
  <2>5. x >= c * nfilter
    <3> HIDE DEF x, c
    <3> QED BY <2>2, <2>3, <2>4
  <2>6. x \div nfilter >= c
    <3> HIDE DEF x, c
    <3> QED BY <2>1, <2>5, DivAtLeast
  <2> QED BY <1>2, <2>6 DEF Overhead
<1> QED BY <1>1, <1>2

\* A share of what was seen is at most all of it, so no selectivity makes the
\* limit larger than MaxLimit.
LEMMA LimitCapped ==
  ASSUME CountersOK, nfilter > 0, params \in Params
  PROVE  Limit <= MaxLimit /\ Limit \in Int /\ MaxLimit \in Int
<1> USE HybridAssumption
<1> DEFINE a == params.coef_a
           b == params.coef_b
           pos == IF a > 0 THEN a ELSE 0
<1>0. a \in Int /\ b \in Int /\ pos \in Nat /\ a <= pos /\ params.virtual_overhead \in Nat
  BY DEF Params
<1>1. ASSUME NEW s \in Nat, NEW t \in Nat \ {0}, s <= t
      PROVE  (a * s + b * t) \div t <= b + pos /\ (a * s + b * t) \div t \in Int
  <2> HIDE DEF a, b, pos
  <2>1. s * a <= s * pos /\ pos * s <= pos * t
    BY <1>0, <1>1, ProductGrows
  <2>2. a * s <= pos * t /\ a * s \in Int /\ b * t \in Int /\ pos * t \in Int
    BY <1>0, <2>1
  <2>3. a * s + b * t <= (b + pos) * t
    <3>1. (b + pos) * t = b * t + pos * t
      BY <1>0
    <3> QED BY <2>2, <3>1
  <2>4. a * s + b * t \in Int /\ b + pos \in Int
    BY <1>0, <2>2
  <2>5. (a * s + b * t) \div t \in Int
    BY <2>4
  <2> QED BY <2>3, <2>4, <2>5, DivAtMost
<1>2. CASE vo_coef_mode
  <2>1. MaxLimit = b + pos
    BY <1>2 DEF MaxLimit
  <2>2. Limit <= b + pos /\ Limit \in Int
    <3>1. CASE num_new > 0
      <4>1. Limit = (a * nr_satisfactory + b * num_new) \div num_new
        BY <1>2, <3>1 DEF Limit
      <4> HIDE DEF a, b, pos
      <4> QED BY <1>1, <3>1, <4>1 DEF CountersOK
    <3>2. CASE ~(num_new > 0)
      <4>1. Limit = (a * nsatisfy + b * nfilter) \div nfilter
        BY <1>2, <3>2 DEF Limit
      <4> HIDE DEF a, b, pos
      <4> QED BY <1>1, <4>1 DEF CountersOK
    <3> QED BY <3>1, <3>2
  <2> HIDE DEF a, b, pos
  <2> QED BY <1>0, <2>1, <2>2
<1>3. CASE ~vo_coef_mode
  <2>1. Limit = MaxLimit
    BY <1>3 DEF Limit, MaxLimit
  <2>2. 2 * M * (DistCost + FilterCost) \in Int
    OBVIOUS
  <2> QED BY <1>0, <1>3, <2>1, <2>2 DEF MaxLimit
<1> QED BY <1>2, <1>3

-----------------------------------------------------------------------------
(* Types, and what a phase of the scan may rely on                          *)

Fresh ==
  /\ neigh_arr = << >> /\ at = 1 /\ j = 1 /\ j2 = 0
  /\ num_new = 0 /\ num_visited = 0 /\ nr_satisfactory = 0

ShapeInv ==
  /\ TypeOK /\ CountersOK /\ j > 0 /\ at > 0
  /\ pc \in {"start", "pop"} => Fresh
  /\ pc = "start" => nsatisfy = 0
  /\ pc \in {"zone", "near", "ext", "hop", "far"} => cur \in Points
  /\ pc \in {"zone", "ext", "hop"} => at = 1
  /\ pc \notin {"start", "aborted"} => nfilter > 0
  /\ pc = "hop" /\ j2 > 0 => j \in DOMAIN Links(cur)

\* The lists of a graph hold points, the zone being a part of the list.
LEMMA ListHoldsPoints ==
  ASSUME TypeOK, NEW x \in Points
  PROVE  /\ Links(x) \in Seq(Points) /\ Boundary(x) \in Nat
         /\ Boundary(x) <= Len(Links(x))
         /\ DOMAIN Links(x) = 1 .. Len(Links(x)) /\ Len(Links(x)) \in Nat
         /\ \A i \in DOMAIN Links(x) : Links(x)[i] \in Points
<1>1. graph \in Zoned /\ graph \in Graphs
  BY HybridAssumption DEF TypeOK
<1>2. Links(x) \in Seq(Points) /\ Boundary(x) \in Nat
  BY <1>1 DEF Zoned, Links, Boundary
<1>3. Boundary(x) <= Len(Links(x))
  BY <1>1, HybridAssumption DEF Links, Boundary
<1> QED BY <1>2, <1>3

\* The slot that a scan of the first list looks at holds a point.
LEMMA SlotHoldsPoint ==
  ASSUME ShapeInv, InZone \/ (pc \in {"ext", "hop"} /\ InList)
  PROVE  j \in DOMAIN Links(cur) /\ Links(cur)[j] \in Points /\ cur \in Points
<1>1. cur \in Points /\ TypeOK /\ j \in Nat \ {0}
  BY DEF ShapeInv, InZone, TypeOK
<1>2. j <= Len(Links(cur))
  <2>1. CASE InZone
    BY <1>1, <2>1, ListHoldsPoints DEF InZone
  <2>2. CASE InList
    BY <1>1, <2>2, ListHoldsPoints DEF InList, Least, TypeOK
  <2> QED BY <2>1, <2>2
<1> QED BY <1>1, <1>2, ListHoldsPoints

\* What a push and a record do to the heaps.
LEMMA PushTypes ==
  ASSUME TypeOK, NEW s \in Slots, Heap!Push(s)
  PROVE  /\ held' \in SUBSET Slots /\ popped' \in SUBSET held' /\ nvalid' \in Int
         /\ held' \subseteq held \cup {s}
BY DEF TypeOK, Heap!Push, Heap!Farthest

LEMMA RecordTypes ==
  ASSUME TypeOK, NEW s \in Slots, Heap!Record(s)
  PROVE  results' \in SUBSET Slots /\ results' \subseteq results \cup {s}
BY DEF TypeOK, Heap!Record, Heap!Farthest

\* The seed is a slot; the parameter is cut to what the lists have.
LEMMA StartShape == ASSUME ShapeInv, Start PROVE ShapeInv'
<1> USE DEF ShapeInv
<1>1. params \in Params /\ M_exp \in Nat
  BY HybridAssumption DEF TypeOK
<1>2. width' \in 0 .. 2 * M_exp /\ variant' \in Modes \cup {"bounded", "printing"}
  <2>1. params.M_exp_search \in Nat /\ params.mode \in Modes
    BY <1>1 DEF Params
  <2>2. Clamped(params.M_exp_search) \in 0 .. M_exp
    BY <1>1, <2>1 DEF Clamped, Least
  <2>3. width' = 2 * Clamped(params.M_exp_search) \/ width' = 2 * M_exp \/ width' = 2 * 0
    BY DEF Start
  <2>4. width' \in 0 .. 2 * M_exp
    BY <1>1, <2>2, <2>3
  <2> QED BY <2>1, <2>4 DEF Start
<1>3. \/ pc' = "aborted" /\ UNCHANGED <<heaps, visited, nfilter>>
      \/ \E nearest \in Points :
           /\ pc' = "pop" /\ visited' = {nearest} /\ nfilter' = 1
           /\ held' = {<<nearest, NoPoint, "near">>} /\ popped' = {} /\ nvalid' = 1
           /\ results' = {s \in held' : Passes(s[1])}
  BY DEF Start
<1>4. \A nearest \in Points : <<nearest, NoPoint, "near">> \in Slots
  BY DEF Slots
<1>5. /\ held' \in SUBSET Slots /\ popped' \in SUBSET held' /\ nvalid' \in Int
      /\ results' \in SUBSET Slots /\ visited' \in SUBSET Points
      /\ nfilter' \in Nat /\ nsatisfy <= nfilter' /\ pc' \in {"pop", "aborted"}
      /\ pc' = "pop" => nfilter' > 0
  <2>1. CASE pc' = "aborted" /\ UNCHANGED <<heaps, visited, nfilter>>
    BY <2>1 DEF TypeOK, heaps, CountersOK
  <2>2. CASE \E nearest \in Points :
           /\ pc' = "pop" /\ visited' = {nearest} /\ nfilter' = 1
           /\ held' = {<<nearest, NoPoint, "near">>} /\ popped' = {} /\ nvalid' = 1
           /\ results' = {s \in held' : Passes(s[1])}
    <3>1. nsatisfy = 0
      BY DEF Start
    <3> QED BY <1>4, <2>2, <3>1
  <2> QED BY <1>3, <2>1, <2>2
<1>6. /\ pc = "start"
      /\ UNCHANGED <<graph, sel, params, nstep, cur, j, neigh_arr, at, hop, local, nsatisfy>>
  BY DEF Start
<1>7. TypeOK'
  BY <1>2, <1>5, <1>6 DEF TypeOK, hop, local
<1> QED BY <1>5, <1>6, <1>7 DEF hop, local, CountersOK, Fresh
\* A popped slot is in the heap, and its point is expanded.
LEMMA PopShape == ASSUME ShapeInv, Pop PROVE ShapeInv'
<1> USE DEF ShapeInv
<1>1. PICK s \in held :
        /\ popped' = popped \cup {s} /\ nvalid' = nvalid - 1
        /\ \/ pc' = "done" /\ cur' = cur
           \/ cur' = s[1] /\ pc' \in {"zone", "ext", "hop"}
  BY DEF Pop, Heap!PopMin
<1>2. s[1] \in Points
  BY DEF TypeOK, Slots
<1>3. /\ pc = "pop"
      /\ UNCHANGED <<query, held, results, visited, nstep, j, neigh_arr, at, hop, counters>>
  BY DEF Pop
<1>4. TypeOK'
  BY <1>1, <1>2, <1>3 DEF TypeOK, query, hop, counters, local
<1> QED BY <1>1, <1>2, <1>3, <1>4 DEF query, hop, counters, local, CountersOK, Fresh

\* The zone holds points; the filter is asked of one that is counted.
LEMMA ZoneShape == ASSUME ShapeInv, Zone PROVE ShapeInv'
<1> USE DEF ShapeInv
<1>1. CASE SeeZone
  <2>1. InZone /\ pc = "zone"
    BY <1>1 DEF SeeZone, InZone
  <2>2. Links(cur)[j] \in Points
    BY <2>1, SlotHoldsPoint
  <2>3. /\ neigh_arr' \in Seq(Points) /\ visited' \in SUBSET Points /\ j' \in Nat /\ j' > 0
        /\ UNCHANGED <<query, heaps, nstep, pc, cur, at, hop, counters>>
    BY <1>1, <2>2 DEF SeeZone, TypeOK
  <2>4. TypeOK'
    BY <2>3 DEF TypeOK, query, heaps, hop, counters, local
  <2> QED BY <2>1, <2>3, <2>4 DEF query, hop, counters, local, CountersOK, Fresh
<1>2. CASE EndZone \/ EndNear
  <2>1. /\ pc \in {"zone", "near"} /\ pc' \in {"near", "far", "ext"}
        /\ (at' = at \/ at' = 1) /\ (pc' = "ext" => at' = 1)
        /\ (neigh_arr' = neigh_arr \/ neigh_arr' = << >>)
        /\ UNCHANGED <<query, heaps, visited, nstep, cur, j, hop, counters>>
    BY <1>2 DEF EndZone, EndNear
  <2>2. neigh_arr' \in Seq(Points) /\ at' \in Nat /\ at' > 0
    <3>1. << >> \in Seq(Points)
      OBVIOUS
    <3>2. neigh_arr \in Seq(Points) /\ at \in Nat
      BY DEF TypeOK
    <3>3. neigh_arr' \in Seq(Points)
      BY <2>1, <3>1, <3>2, Zenon
    <3>4. at' = at \/ at' = 1
      BY <2>1, Zenon
    <3> QED BY <3>2, <3>3, <3>4
  <2>3. TypeOK'
    BY <2>1, <2>2 DEF TypeOK, query, heaps, hop, counters, local
  <2>4. /\ cur' \in Points /\ j' > 0 /\ nfilter' > 0 /\ pc' \in {"near", "far", "ext"}
        /\ (pc' = "ext" => at' = 1)
    BY <2>1 DEF counters
  <2>5. CountersOK'
    BY <2>1 DEF counters, local, CountersOK
  <2> QED BY <2>2, <2>3, <2>4, <2>5
<1>3. CASE PushNear
  <2> DEFINE s == <<neigh_arr[at], cur, "near">>
  <2>1. pc = "near" /\ at <= Len(neigh_arr) /\ Heap!Push(s)
    BY <1>3 DEF PushNear
  <2>2. neigh_arr[at] \in Points /\ s \in Slots
    BY <2>1 DEF TypeOK, Slots
  <2>3. /\ held' \in SUBSET Slots /\ popped' \in SUBSET held' /\ nvalid' \in Int
    BY <2>1, <2>2, PushTypes
  <2>4. results' \in SUBSET Slots
    <3>1. Heap!Record(s) \/ results' = results
      BY <1>3 DEF PushNear
    <3> QED BY <2>2, <3>1, RecordTypes DEF TypeOK
  <2>5. CountersOK' /\ nfilter' >= nfilter
    <3>1. One(Passes(neigh_arr[at])) \in {0, 1}
      BY DEF One
    <3>2. \/ /\ num_new' = num_new + 1 /\ nfilter' = nfilter + 1
             /\ nr_satisfactory' = nr_satisfactory + One(Passes(neigh_arr[at]))
             /\ nsatisfy' = nsatisfy + One(Passes(neigh_arr[at]))
             /\ UNCHANGED num_visited
          \/ /\ num_visited' = num_visited + 1
             /\ UNCHANGED <<num_new, nr_satisfactory, nsatisfy, nfilter>>
      BY <1>3 DEF PushNear
    <3> QED BY <3>1, <3>2 DEF CountersOK
  <2>6. at' = at + 1 /\ UNCHANGED <<query, visited, nstep, pc, cur, j, neigh_arr, hop>>
    BY <1>3 DEF PushNear
  <2>7. TypeOK'
    BY <2>3, <2>4, <2>5, <2>6 DEF TypeOK, query, hop, CountersOK
  <2> QED BY <2>1, <2>5, <2>6, <2>7, SMTT(30) DEF query, hop, TypeOK, CountersOK
<1> QED BY <1>1, <1>2, <1>3 DEF Zone

\* A slot of the extending zone, or a visited one of either zone.
LEMMA ExtendShape == ASSUME ShapeInv, Extend PROVE ShapeInv'
<1> USE DEF ShapeInv
<1>1. CASE SkipSeen
  <2>1. /\ pc \in {"zone", "ext"} /\ j' = j + 1 /\ num_visited' = num_visited + 1
        /\ UNCHANGED <<query, heaps, visited, nstep, pc, cur, neigh_arr, at, hop, num_new,
                       nr_satisfactory, nsatisfy, nfilter>>
    BY <1>1 DEF SkipSeen, InZone, InExt
  <2>2. CountersOK'
    BY <2>1 DEF CountersOK
  <2>3. TypeOK'
    BY <2>1, <2>2 DEF TypeOK, query, heaps, hop, CountersOK
  <2> QED BY <2>1, <2>2, <2>3 DEF query, hop, TypeOK
<1>2. CASE SeeExt
  <2>1. pc = "ext" /\ InList
    BY <1>2 DEF SeeExt, InExt
  <2>2. Links(cur)[j] \in Points
    BY <2>1, SlotHoldsPoint
  <2>3. /\ j' = j + 1 /\ visited' \in SUBSET Points /\ neigh_arr' \in Seq(Points)
        /\ UNCHANGED <<query, heaps, nstep, pc, cur, at, hop, num_visited>>
    BY <1>2, <2>2 DEF SeeExt, TypeOK
  <2>4. CountersOK' /\ nfilter' >= nfilter
    BY <1>2, <2>3 DEF SeeExt, CountersOK, One
  <2>5. TypeOK'
    BY <2>3, <2>4 DEF TypeOK, query, heaps, hop, CountersOK
  <2> QED BY <2>1, <2>3, <2>4, <2>5 DEF query, hop, TypeOK, CountersOK
<1>3. CASE EndExt
  <2>1. /\ pc = "ext" /\ pc' = "far"
        /\ UNCHANGED <<query, heaps, visited, nstep, cur, j, neigh_arr, at, hop, counters>>
    BY <1>3 DEF EndExt
  <2>2. TypeOK'
    BY <2>1 DEF TypeOK, query, heaps, hop, counters, local
  <2> QED BY <2>1, <2>2 DEF query, hop, counters, local, CountersOK, Fresh
<1> QED BY <1>1, <1>2, <1>3 DEF Extend
\* Both lists of the two-hop scan hold points.
LEMMA HopShape == ASSUME ShapeInv, TwoHop PROVE ShapeInv'
<1> USE DEF ShapeInv
<1>0. TypeOK /\ pc = "hop" /\ cur \in Points /\ num_found \in Nat /\ nfilter \in Nat
      /\ j \in Nat /\ j2 \in Nat /\ nfilter > 0
  BY DEF TwoHop, HopFirst, HopSecond, HopBack, EndHop, TypeOK
<1>1. CASE HopFirst
  <2>1. InList /\ j2 = 0
    BY <1>1 DEF HopFirst
  <2>2. Links(cur)[j] \in Points /\ j \in DOMAIN Links(cur)
    BY <1>0, <2>1, SlotHoldsPoint
  <2>3. neigh_arr' \in Seq(Points) /\ visited' \in SUBSET Points
    BY <1>1, <2>2 DEF HopFirst, TypeOK
  <2>4. /\ nfilter' = nfilter + 1 /\ num_found' \in Nat
        /\ UNCHANGED <<query, heaps, nstep, cur, at, local, nsatisfy>>
    BY <1>0, <1>1 DEF HopFirst, One
  <2>5. /\ pc' \in {"far", "hop"} /\ keep_expanding' \in BOOLEAN
        /\ \/ j' = j /\ j2' \in {0, 1}
           \/ j' = j + 1 /\ j2' = 0
    BY <1>0, <1>1, <2>1 DEF HopFirst, TypeOK
  <2>6. TypeOK'
    BY <1>0, <2>3, <2>4, <2>5 DEF TypeOK, query, heaps, local
  <2>7. CountersOK' /\ nfilter' > 0
    BY <1>0, <2>4 DEF CountersOK, local
  <2>8. pc' = "hop" /\ j2' > 0 => j' \in DOMAIN Links(cur)'
    BY <2>2, <2>4, <2>5 DEF query, Links
  <2> QED BY <1>0, <2>4, <2>5, <2>6, <2>7, <2>8
<1>2. CASE HopSecond
  <2> DEFINE second == Links(Links(cur)[j])
  <2>1. j2 \in DOMAIN second /\ j2 > 0
    BY <1>2 DEF HopSecond
  <2>2. j \in DOMAIN Links(cur) /\ Links(cur)[j] \in Points
    BY <1>0, <2>1, ListHoldsPoints
  <2>3. second[j2] \in Points
    BY <1>0, <2>1, <2>2, ListHoldsPoints
  <2>4. neigh_arr' \in Seq(Points) /\ visited' \in SUBSET Points
    BY <1>2, <2>3 DEF HopSecond, TypeOK
  <2>5. /\ nfilter' = nfilter + 1 /\ num_found' \in Nat
        /\ UNCHANGED <<query, heaps, nstep, pc, cur, at, local, nsatisfy>>
    BY <1>0, <1>2 DEF HopSecond, One
  <2>6. /\ keep_expanding' \in BOOLEAN
        /\ \/ j' = j /\ j2' = j2 + 1
           \/ j' = j + 1 /\ j2' = 0
    BY <1>2 DEF HopSecond, TypeOK
  <2>7. TypeOK'
    BY <1>0, <2>4, <2>5, <2>6 DEF TypeOK, query, heaps, local
  <2>8. CountersOK' /\ nfilter' > 0
    BY <1>0, <2>5 DEF CountersOK, local
  <2>9. pc' = "hop" /\ j2' > 0 => j' \in DOMAIN Links(cur)'
    BY <2>2, <2>5, <2>6 DEF query, Links
  <2> QED BY <1>0, <2>5, <2>6, <2>7, <2>8, <2>9
<1>3. CASE HopBack \/ EndHop
  <2>1. /\ pc' \in {"hop", "far"} /\ j2' = 0 /\ (j' = j \/ j' = j + 1)
        /\ UNCHANGED <<query, heaps, visited, nstep, cur, neigh_arr, at, num_found,
                       keep_expanding, counters>>
    BY <1>0, <1>3 DEF HopBack, EndHop, hop
  <2>2. TypeOK' /\ CountersOK'
    BY <1>0, <2>1 DEF TypeOK, query, heaps, counters, local, CountersOK
  <2> QED BY <1>0, <2>1, <2>2 DEF counters
<1> QED BY <1>1, <1>2, <1>3 DEF TwoHop

\* A batch pushed, and the next list begun afresh.
LEMMA FarShape == ASSUME ShapeInv, PushFar \/ EndList \/ RunDry PROVE ShapeInv'
<1> USE DEF ShapeInv
<1>1. CASE PushFar
  <2> DEFINE s == <<neigh_arr[at], cur, "far">>
  <2>1. pc = "far" /\ at <= Len(neigh_arr) /\ Heap!Push(s) /\ Heap!Record(s)
    BY <1>1 DEF PushFar
  <2>2. neigh_arr[at] \in Points /\ s \in Slots
    BY <2>1 DEF TypeOK, Slots
  <2>3. /\ held' \in SUBSET Slots /\ popped' \in SUBSET held' /\ nvalid' \in Int
        /\ results' \in SUBSET Slots
    BY <2>1, <2>2, PushTypes, RecordTypes
  <2>4. at' = at + 1 /\ UNCHANGED <<query, visited, nstep, pc, cur, j, neigh_arr, hop, counters>>
    BY <1>1 DEF PushFar
  <2>5. TypeOK' /\ CountersOK'
    BY <2>3, <2>4 DEF TypeOK, query, hop, counters, local, CountersOK
  <2> QED BY <2>1, <2>4, <2>5, SMTT(30) DEF counters, TypeOK
<1>2. CASE EndList
  <2>1. /\ pc = "far" /\ nstep' \in Nat /\ pc' \in {"done", "pop"} /\ cur' = NoPoint
        /\ Fresh' /\ num_found' = 0 /\ keep_expanding' = TRUE
        /\ UNCHANGED <<query, heaps, visited, nsatisfy, nfilter>>
    BY <1>2 DEF EndList, Fresh, TypeOK
  <2>2. << >> \in Seq(Points)
    OBVIOUS
  <2>3. neigh_arr' \in Seq(Points)
    BY <2>1, <2>2, Zenon DEF Fresh
  <2>4. CountersOK'
    BY <2>1 DEF CountersOK, Fresh
  <2>5. TypeOK'
    <3>1. at' \in Nat /\ j' \in Nat /\ j2' \in Nat
      BY <2>1 DEF Fresh
    <3> QED BY <2>1, <2>3, <2>4, <3>1 DEF TypeOK, query, heaps, CountersOK
  <2>6. j' > 0 /\ at' > 0 /\ nfilter' > 0
    BY <2>1 DEF Fresh
  <2> QED BY <2>1, <2>4, <2>5, <2>6
<1>3. CASE RunDry
  <2>1. /\ pc = "pop" /\ pc' = "done"
        /\ UNCHANGED <<query, heaps, visited, nstep, cur, j, neigh_arr, at, hop, counters>>
    BY <1>3 DEF RunDry
  <2>2. TypeOK' /\ CountersOK'
    BY <2>1 DEF TypeOK, query, heaps, hop, counters, local, CountersOK
  <2> QED BY <2>1, <2>2 DEF counters
<1> QED BY <1>1, <1>2, <1>3

LEMMA ShapeStep == ShapeInv /\ [Next]_vars => ShapeInv'
<1> SUFFICES ASSUME ShapeInv, [Next]_vars PROVE ShapeInv'
  OBVIOUS
<1>1. CASE UNCHANGED vars
  <2>1. UNCHANGED <<query, heaps, visited, nstep, pc, cur, j, neigh_arr, at, hop, counters>>
    BY <1>1 DEF vars
  <2> QED BY <2>1 DEF ShapeInv, TypeOK, CountersOK, Fresh, query, heaps, hop, counters, local, Links
<1> QED BY <1>1, StartShape, PopShape, ZoneShape, ExtendShape, HopShape, FarShape DEF Next

LEMMA InitShape == Init => ShapeInv
<1> SUFFICES ASSUME Init PROVE ShapeInv
  OBVIOUS
<1>1. params.mode \in Modes /\ M_exp \in Nat
  BY HybridAssumption DEF Init, Params
<1>2. << >> \in Seq(Points)
  OBVIOUS
<1>3. width \in 0 .. 2 * M_exp
  BY <1>1 DEF Init
<1>4. TypeOK
  BY <1>1, <1>2, <1>3 DEF Init, TypeOK
<1> QED BY <1>4 DEF Init, ShapeInv, CountersOK, Fresh

LEMMA ShapeInvariance == Spec => []ShapeInv
BY InitShape, ShapeStep, PTL DEF Spec

\* Every variable of a filtered query keeps its type.
THEOREM HybridTypes == Spec => []TypeOK
<1>1. ShapeInv => TypeOK
  BY DEF ShapeInv
<1> QED BY <1>1, ShapeInvariance, PTL
-----------------------------------------------------------------------------
(* Without mode 3: what is pushed is pushed once, what is returned passes   *)

NoMode3 == \A p \in ParamSets : p.mode # "3"

\* What waits in neigh_arr is visited, not yet pushed, and there once.
OnceInv ==
  /\ PushedOnce
  /\ \A s \in held \cup results : s[1] \in visited
  /\ \A i \in DOMAIN neigh_arr : neigh_arr[i] \in visited
  /\ \A i \in at .. Len(neigh_arr) :
       /\ \A s \in held \cup results : s[1] # neigh_arr[i]
       /\ \A i2 \in at .. Len(neigh_arr) : neigh_arr[i] = neigh_arr[i2] => i = i2

\* The batch of the last loop has been through the filter.
PassInv ==
  /\ ResultsPassFilter
  /\ pc \in {"ext", "hop", "far"} => \A i \in DOMAIN neigh_arr : Passes(neigh_arr[i])

FilterInv == ShapeInv /\ variant # "3" /\ OnceInv /\ PassInv

LEMMA VariantStep == NoMode3 /\ ShapeInv /\ variant # "3" /\ [Next]_vars => variant' # "3"
<1> SUFFICES ASSUME NoMode3, ShapeInv, variant # "3", [Next]_vars PROVE variant' # "3"
  OBVIOUS
<1>1. CASE Start
  BY <1>1 DEF Start, NoMode3, ShapeInv, TypeOK
<1>2. CASE ~Start
  BY <1>2 DEF Next, vars, query, Pop, Zone, Extend, TwoHop, PushFar, EndList, RunDry,
     SeeZone, EndZone, PushNear, EndNear, SkipSeen, SeeExt, EndExt,
     HopFirst, HopSecond, HopBack, EndHop
<1> QED BY <1>1, <1>2

\* A point is kept for later.
LEMMA AppendOnce ==
  ASSUME ShapeInv, OnceInv, NEW v \in Points, v \notin visited,
         neigh_arr' = Append(neigh_arr, v), visited' = visited \cup {v},
         held' = held, results' = results, at' = at
  PROVE  OnceInv'
<1>1. neigh_arr \in Seq(Points) /\ at \in Nat /\ at > 0
  BY DEF ShapeInv, TypeOK
<1>2. /\ Len(neigh_arr') = Len(neigh_arr) + 1 /\ Len(neigh_arr) \in Nat
      /\ DOMAIN neigh_arr' = 1 .. Len(neigh_arr) + 1 /\ DOMAIN neigh_arr = 1 .. Len(neigh_arr)
      /\ neigh_arr'[Len(neigh_arr) + 1] = v
      /\ \A i \in 1 .. Len(neigh_arr) : neigh_arr'[i] = neigh_arr[i]
  BY <1>1
<1>3. PushedOnce'
  BY DEF OnceInv, PushedOnce
<1>4. \A s \in held' \cup results' : s[1] \in visited'
  BY DEF OnceInv
<1>5. \A i \in DOMAIN neigh_arr' : neigh_arr'[i] \in visited'
  BY <1>2 DEF OnceInv
<1>6. \A i \in at .. Len(neigh_arr) : neigh_arr[i] # v
  BY <1>1, <1>2 DEF OnceInv
<1>7. \A s \in held \cup results : s[1] # v
  BY DEF OnceInv
<1>8. ASSUME NEW i \in at' .. Len(neigh_arr')
      PROVE  /\ \A s \in held' \cup results' : s[1] # neigh_arr'[i]
             /\ \A i2 \in at' .. Len(neigh_arr') : neigh_arr'[i] = neigh_arr'[i2] => i = i2
  <2>1. \A i2 \in at' .. Len(neigh_arr') :
          \/ i2 \in at .. Len(neigh_arr) /\ neigh_arr'[i2] = neigh_arr[i2]
          \/ i2 = Len(neigh_arr) + 1 /\ neigh_arr'[i2] = v
    BY <1>1, <1>2
  <2>2. /\ \A i2 \in at .. Len(neigh_arr) : \A s \in held \cup results : s[1] # neigh_arr[i2]
        /\ \A i2, i3 \in at .. Len(neigh_arr) : neigh_arr[i2] = neigh_arr[i3] => i2 = i3
    BY DEF OnceInv
  <2>3. \A s \in held' \cup results' : s[1] # neigh_arr'[i]
    BY <1>7, <2>1, <2>2
  <2>4. \A i2 \in at' .. Len(neigh_arr') : neigh_arr'[i] = neigh_arr'[i2] => i = i2
    BY <1>6, <2>1, <2>2, ZenonT(40)
  <2> QED BY <2>3, <2>4
<1> QED BY <1>3, <1>4, <1>5, <1>8 DEF OnceInv

\* The next point of the batch is pushed, and perhaps recorded.
LEMMA PushOnce ==
  ASSUME ShapeInv, OnceInv, NEW s \in Slots, at <= Len(neigh_arr), s[1] = neigh_arr[at],
         held' \subseteq held \cup {s}, results' \subseteq results \cup {s},
         at' = at + 1, neigh_arr' = neigh_arr, visited' = visited
  PROVE  OnceInv'
<1>1. neigh_arr \in Seq(Points) /\ at \in Nat /\ at > 0 /\ Len(neigh_arr) \in Nat
      /\ DOMAIN neigh_arr = 1 .. Len(neigh_arr)
  BY DEF ShapeInv, TypeOK
<1>2. at \in at .. Len(neigh_arr) /\ at \in DOMAIN neigh_arr
  BY <1>1
<1>3. \A t \in held \cup results : t[1] # s[1]
  BY <1>2 DEF OnceInv
<1>4. PushedOnce'
  <2>1. ASSUME NEW heap, NEW old, old \in {held, results}, heap \subseteq old \cup {s},
               NEW t \in heap, NEW u \in heap, t[1] = u[1]
        PROVE  t = u
    BY <1>3, <2>1 DEF OnceInv, PushedOnce
  <2>2. \A t, u \in held' : t[1] = u[1] => t = u
    BY <2>1
  <2>3. \A t, u \in results' : t[1] = u[1] => t = u
    BY <2>1
  <2> QED BY <2>2, <2>3 DEF PushedOnce
<1>5. \A t \in held' \cup results' : t[1] \in visited'
  BY <1>2 DEF OnceInv
<1>6. ASSUME NEW i \in at' .. Len(neigh_arr')
      PROVE  /\ \A t \in held' \cup results' : t[1] # neigh_arr'[i]
             /\ \A i2 \in at' .. Len(neigh_arr') : neigh_arr'[i] = neigh_arr'[i2] => i = i2
  <2>1. /\ i \in at .. Len(neigh_arr) /\ i # at
        /\ \A i2 \in at' .. Len(neigh_arr') : i2 \in at .. Len(neigh_arr)
    BY <1>1
  <2>2. neigh_arr[i] # s[1]
    BY <1>2, <2>1 DEF OnceInv
  <2>3. \A t \in held \cup results : t[1] # neigh_arr[i]
    BY <2>1 DEF OnceInv
  <2> QED BY <2>1, <2>2, <2>3 DEF OnceInv
<1> QED BY <1>4, <1>5, <1>6 DEF OnceInv

\* More points are visited, or the batch is given up.
LEMMA KeepOnce ==
  ASSUME OnceInv, held' = held, results' = results, visited \subseteq visited',
         \/ neigh_arr' = neigh_arr /\ at' = at
         \/ neigh_arr' = << >> /\ at' = 1
  PROVE  OnceInv'
<1>1. PushedOnce' /\ \A s \in held' \cup results' : s[1] \in visited'
  BY DEF OnceInv, PushedOnce
<1>2. CASE neigh_arr' = neigh_arr /\ at' = at
  BY <1>1, <1>2 DEF OnceInv
<1>3. CASE neigh_arr' = << >> /\ at' = 1
  <2>1. DOMAIN neigh_arr' = {} /\ at' .. Len(neigh_arr') = {}
    BY <1>3
  <2>2. \A i \in DOMAIN neigh_arr' : neigh_arr'[i] \in visited'
    BY <2>1, Zenon
  <2>3. \A i \in at' .. Len(neigh_arr') :
         /\ \A s \in held' \cup results' : s[1] # neigh_arr'[i]
         /\ \A i2 \in at' .. Len(neigh_arr') : neigh_arr'[i] = neigh_arr'[i2] => i = i2
    BY <2>1, Zenon
  <2> QED BY <1>1, <2>2, <2>3, Zenon DEF OnceInv
<1> QED BY <1>2, <1>3
LEMMA OnceStep ==
  ASSUME ShapeInv, variant # "3", OnceInv, [Next]_vars
  PROVE  OnceInv'
<1>0. cur \in Points \cup {NoPoint} /\ neigh_arr \in Seq(Points) /\ at \in Nat /\ at > 0
  BY DEF ShapeInv, TypeOK
<1>1. CASE Start
  <2>1. CASE pc' = "aborted" /\ UNCHANGED <<heaps, visited>>
    BY <1>1, <2>1, KeepOnce DEF Start, heaps
  <2>2. CASE ~(pc' = "aborted" /\ UNCHANGED <<heaps, visited>>)
    <3>1. PICK nearest \in Points :
            /\ visited' = {nearest} /\ held' = {<<nearest, NoPoint, "near">>}
            /\ results' = {s \in held' : Passes(s[1])}
      BY <1>1, <2>2 DEF Start
    <3>2. \A heap \in {held', results'} : heap \subseteq {<<nearest, NoPoint, "near">>}
      BY <3>1
    <3>3. PushedOnce' /\ \A s \in held' \cup results' : s[1] \in visited'
      BY <3>1, <3>2 DEF PushedOnce
    <3>4. neigh_arr' = << >> /\ at' = 1
      BY <1>1 DEF Start, ShapeInv, Fresh
    <3>5. DOMAIN neigh_arr' = {} /\ at' .. Len(neigh_arr') = {}
      BY <3>4
    <3>6. \A i \in DOMAIN neigh_arr' : neigh_arr'[i] \in visited'
      BY <3>5, Zenon
    <3>7. \A i \in at' .. Len(neigh_arr') :
           /\ \A s \in held' \cup results' : s[1] # neigh_arr'[i]
           /\ \A i2 \in at' .. Len(neigh_arr') : neigh_arr'[i] = neigh_arr'[i2] => i = i2
      BY <3>5, Zenon
    <3> QED BY <3>3, <3>6, <3>7, Zenon DEF OnceInv
  <2> QED BY <2>1, <2>2
<1>2. CASE SeeZone \/ SeeExt
  <2>1. (InZone \/ (pc \in {"ext", "hop"} /\ InList)) /\ at' = at
        /\ held' = held /\ results' = results /\ Links(cur)[j] \notin visited
        /\ visited' = visited \cup {Links(cur)[j]}
        /\ (neigh_arr' = Append(neigh_arr, Links(cur)[j]) \/ neigh_arr' = neigh_arr)
    BY <1>2 DEF SeeZone, SeeExt, InExt, heaps, Unseen
  <2>2. Links(cur)[j] \in Points
    BY <2>1, SlotHoldsPoint
  <2> QED BY <2>1, <2>2, AppendOnce, KeepOnce
<1>3. CASE HopFirst
  <2>1. pc = "hop" /\ InList /\ at' = at /\ held' = held /\ results' = results
        /\ \/ neigh_arr' = neigh_arr /\ visited' = visited
           \/ /\ Links(cur)[j] \notin visited /\ visited' = visited \cup {Links(cur)[j]}
              /\ neigh_arr' = Append(neigh_arr, Links(cur)[j])
    BY <1>3 DEF HopFirst, heaps, Unseen
  <2>2. Links(cur)[j] \in Points
    BY <2>1, SlotHoldsPoint
  <2> QED BY <2>1, <2>2, AppendOnce, KeepOnce
<1>4. CASE HopSecond
  <2> DEFINE v2 == Links(Links(cur)[j])[j2]
  <2>1. pc = "hop" /\ j2 > 0 /\ j2 \in DOMAIN Links(Links(cur)[j])
        /\ at' = at /\ held' = held /\ results' = results
        /\ \/ neigh_arr' = neigh_arr /\ visited' = visited
           \/ /\ v2 \notin visited /\ visited' = visited \cup {v2}
              /\ neigh_arr' = Append(neigh_arr, v2)
    BY <1>4 DEF HopSecond, heaps, Unseen
  <2>2. j \in DOMAIN Links(cur) /\ cur \in Points /\ TypeOK
    BY <2>1 DEF ShapeInv
  <2>3. v2 \in Points
    BY <2>1, <2>2, ListHoldsPoints
  <2> HIDE DEF v2
  <2> QED BY <2>1, <2>3, AppendOnce, KeepOnce
<1>5. CASE PushNear
  <2> DEFINE s == <<neigh_arr[at], cur, "near">>
  <2>1. pc = "near" /\ at <= Len(neigh_arr) /\ Heap!Push(s)
        /\ (Heap!Record(s) \/ results' = results)
        /\ at' = at + 1 /\ neigh_arr' = neigh_arr /\ visited' = visited
    BY <1>5 DEF PushNear
  <2>2. neigh_arr[at] \in Points /\ s \in Slots /\ s[1] = neigh_arr[at]
    BY <1>0, <2>1 DEF Slots
  <2>3. held' \subseteq held \cup {s} /\ results' \subseteq results \cup {s}
    BY <2>1, <2>2, PushTypes, RecordTypes DEF ShapeInv
  <2> HIDE DEF s
  <2> QED BY <2>1, <2>2, <2>3, PushOnce
<1>6. CASE PushFar
  <2> DEFINE s == <<neigh_arr[at], cur, "far">>
  <2>1. pc = "far" /\ at <= Len(neigh_arr) /\ Heap!Push(s) /\ Heap!Record(s)
        /\ at' = at + 1 /\ neigh_arr' = neigh_arr /\ visited' = visited
    BY <1>6 DEF PushFar
  <2>2. neigh_arr[at] \in Points /\ s \in Slots /\ s[1] = neigh_arr[at]
    BY <1>0, <2>1 DEF Slots
  <2>3. held' \subseteq held \cup {s} /\ results' \subseteq results \cup {s}
    BY <2>1, <2>2, PushTypes, RecordTypes DEF ShapeInv
  <2> HIDE DEF s
  <2> QED BY <2>1, <2>2, <2>3, PushOnce
<1>7. CASE EndNear \/ EndList
  <2>1. /\ held' = held /\ results' = results /\ visited' = visited
        /\ neigh_arr' = << >> /\ at' = 1
    BY <1>7 DEF EndNear, EndList, heaps
  <2> QED BY <2>1, KeepOnce
<1>8. CASE Pop \/ EndZone \/ SkipSeen \/ EndExt \/ HopBack \/ EndHop \/ RunDry \/ UNCHANGED vars
  <2>1. /\ held' = held /\ results' = results /\ visited' = visited
        /\ neigh_arr' = neigh_arr /\ at' = at
    BY <1>8 DEF Pop, EndZone, SkipSeen, EndExt, HopBack, EndHop, RunDry, vars, heaps
  <2> QED BY <2>1, KeepOnce
<1> QED BY <1>1, <1>2, <1>3, <1>4, <1>5, <1>6, <1>7, <1>8 DEF Next, Zone, Extend, TwoHop

LEMMA PassStep ==
  ASSUME ShapeInv, variant # "3", PassInv, [Next]_vars
  PROVE  PassInv'
<1>0. neigh_arr \in Seq(Points) /\ at \in Nat /\ at > 0 /\ sel' = sel
  BY DEF ShapeInv, TypeOK, Next, vars, query, Start, Pop, Zone, Extend, TwoHop, PushFar,
     EndList, RunDry, SeeZone, EndZone, PushNear, EndNear, SkipSeen, SeeExt, EndExt,
     HopFirst, HopSecond, HopBack, EndHop
<1>1. CASE Start
  <2>1. pc' \in {"pop", "aborted"} /\ ResultsPassFilter'
    BY <1>0, <1>1 DEF Start, PassInv, ResultsPassFilter, Passes, heaps
  <2> QED BY <2>1 DEF PassInv
<1>2. CASE Pop
  <2>1. results' = results /\ neigh_arr' = << >> /\ DOMAIN neigh_arr' = {}
    BY <1>2 DEF Pop, ShapeInv, Fresh
  <2>2. ResultsPassFilter'
    BY <1>0, <2>1 DEF PassInv, ResultsPassFilter, Passes
  <2> QED BY <2>1, <2>2 DEF PassInv
<1>3. CASE SeeZone \/ EndZone \/ SkipSeen \/ EndExt \/ HopBack \/ EndHop \/ RunDry \/ UNCHANGED vars
  <2>1. /\ results' = results
        /\ pc' \in {"ext", "hop", "far"} => pc \in {"ext", "hop"} \/ pc' = pc
        /\ pc' \in {"ext", "hop", "far"} => neigh_arr' = neigh_arr
    BY <1>3 DEF SeeZone, EndZone, SkipSeen, EndExt, HopBack, EndHop, RunDry, vars, heaps, InZone, InExt
  <2> QED BY <1>0, <2>1 DEF PassInv, ResultsPassFilter, Passes
<1>4. CASE PushNear
  <2>1. pc' = "near"
    BY <1>4 DEF PushNear
  <2>2. \/ results' = results
        \/ /\ Passes(neigh_arr[at]) /\ results' \subseteq results \cup {<<neigh_arr[at], cur, "near">>}
    BY <1>4 DEF PushNear, Heap!Record
  <2> QED BY <1>0, <2>1, <2>2 DEF PassInv, ResultsPassFilter, Passes
<1>5. CASE EndNear
  <2>1. results' = results /\ neigh_arr' = << >> /\ DOMAIN neigh_arr' = {}
    BY <1>5 DEF EndNear, heaps
  <2> QED BY <1>0, <2>1 DEF PassInv, ResultsPassFilter, Passes
<1>6. CASE SeeExt
  <2>1. /\ results' = results /\ pc = "ext"
        /\ \/ neigh_arr' = neigh_arr
           \/ Passes(Links(cur)[j]) /\ neigh_arr' = Append(neigh_arr, Links(cur)[j])
    BY <1>6 DEF SeeExt, heaps, InExt
  <2> QED BY <1>0, <2>1 DEF PassInv, ResultsPassFilter, Passes
<1>7. CASE HopFirst
  <2>1. /\ results' = results /\ pc = "hop"
        /\ \/ neigh_arr' = neigh_arr
           \/ Passes(Links(cur)[j]) /\ neigh_arr' = Append(neigh_arr, Links(cur)[j])
    BY <1>7 DEF HopFirst, heaps
  <2> QED BY <1>0, <2>1 DEF PassInv, ResultsPassFilter, Passes
<1>8. CASE HopSecond
  <2> DEFINE v2 == Links(Links(cur)[j])[j2]
  <2>1. /\ results' = results /\ pc = "hop"
        /\ \/ neigh_arr' = neigh_arr
           \/ Passes(v2) /\ neigh_arr' = Append(neigh_arr, v2)
    BY <1>8 DEF HopSecond, heaps
  <2> HIDE DEF v2
  <2> QED BY <1>0, <2>1 DEF PassInv, ResultsPassFilter, Passes
<1>9. CASE PushFar
  <2>1. /\ pc = "far" /\ neigh_arr' = neigh_arr /\ at \in DOMAIN neigh_arr
        /\ results' \subseteq results \cup {<<neigh_arr[at], cur, "far">>}
    BY <1>0, <1>9 DEF PushFar, Heap!Record
  <2> QED BY <1>0, <2>1 DEF PassInv, ResultsPassFilter, Passes
<1>10. CASE EndList
  <2>1. results' = results /\ pc' \in {"pop", "done"}
    BY <1>10 DEF EndList, heaps
  <2> QED BY <1>0, <2>1 DEF PassInv, ResultsPassFilter, Passes
<1> QED BY <1>1, <1>2, <1>3, <1>4, <1>5, <1>6, <1>7, <1>8, <1>9, <1>10 DEF Next, Zone, Extend, TwoHop

LEMMA FilterInvariance == ASSUME NoMode3 PROVE Spec => []FilterInv
<1>1. Init => FilterInv
  <2> SUFFICES ASSUME Init PROVE FilterInv
    OBVIOUS
  <2>1. ShapeInv /\ variant # "3"
    BY InitShape, NoMode3 DEF Init, NoMode3
  <2>2. DOMAIN neigh_arr = {} /\ at .. Len(neigh_arr) = {} /\ held = {} /\ results = {}
    BY DEF Init
  <2>3. PushedOnce /\ ResultsPassFilter
    BY <2>2 DEF PushedOnce, ResultsPassFilter
  <2>4. OnceInv
    BY <2>2, <2>3, Zenon DEF OnceInv
  <2>5. PassInv
    BY <2>2, <2>3, Zenon DEF PassInv
  <2> QED BY <2>1, <2>4, <2>5 DEF FilterInv
<1>2. FilterInv /\ [Next]_vars => FilterInv'
  BY NoMode3, ShapeStep, VariantStep, OnceStep, PassStep DEF FilterInv
<1> QED BY <1>1, <1>2, PTL DEF Spec

\* In every variant but mode 3, a filtered query returns only points that pass
\* the filter, whichever loop found them.
THEOREM OnlyPassing == ASSUME NoMode3 PROVE Spec => []ResultsPassFilter
<1>1. FilterInv => ResultsPassFilter
  BY DEF FilterInv, PassInv
<1> QED BY <1>1, NoMode3, FilterInvariance, PTL

\* In every variant but mode 3, a point takes at most one slot of each heap,
\* however often lists and zones repeat it.
THEOREM NeverPushedTwice == ASSUME NoMode3 PROVE Spec => []PushedOnce
<1>1. FilterInv => PushedOnce
  BY DEF FilterInv, OnceInv
<1> QED BY <1>1, NoMode3, FilterInvariance, PTL
-----------------------------------------------------------------------------
(* The bound on the virtual overhead                                        *)

\* Slots c of the extending zone had been looked at when the overhead was last
\* compared with its limit, and it was below.
LastLook(c) ==
  /\ c \in Nat /\ c % CheckEvery = 0 /\ c < cnt /\ cnt <= c + CheckEvery
  /\ FilterCost * (Boundary(cur) + c) < MaxLimit

\* The counters of a list count its slots, those that wait in neigh_arr later.
BoundInv ==
  variant = "bounded" =>
    /\ pc = "zone" =>
         num_new = 0 /\ num_visited + Len(neigh_arr) = j - 1 /\ j - 1 <= Boundary(cur)
    /\ pc = "near" =>
         /\ num_new + num_visited + Len(neigh_arr) + 1 - at = Boundary(cur)
         /\ j - 1 = Boundary(cur) /\ at <= Len(neigh_arr) + 1
    /\ pc = "ext" =>
         /\ num_new + num_visited = j - 1 /\ j - 1 >= Boundary(cur)
         /\ cnt > 0 => \E c \in Nat : LastLook(c)

\* A scan that goes on has just been below the limit, or will be asked soon.
LEMMA LookAhead ==
  ASSUME ShapeInv, BoundInv, variant = "bounded", pc = "ext", ~OverLimit
  PROVE  \E c \in Nat :
           /\ c % CheckEvery = 0 /\ c < cnt + 1 /\ cnt + 1 <= c + CheckEvery
           /\ FilterCost * (Boundary(cur) + c) < MaxLimit
<1>1. /\ cnt \in Nat /\ Boundary(cur) \in Nat /\ CheckEvery \in Nat \ {0} /\ FilterCost \in Nat
      /\ num_new + num_visited = Boundary(cur) + cnt
  <2>1. Boundary(cur) \in Nat /\ j \in Nat
    BY ListHoldsPoints DEF ShapeInv, TypeOK
  <2>2. num_new \in Nat /\ num_visited \in Nat
    BY DEF ShapeInv, CountersOK
  <2> QED BY <2>1, <2>2, HybridAssumption DEF BoundInv, cnt
<1>2. CASE cnt % CheckEvery = 0
  <2>1. ~(Overhead >= Limit)
    BY <1>2 DEF OverLimit
  <2>2. Overhead >= FilterCost * (num_new + num_visited)
    BY OverheadFloor DEF ShapeInv
  <2>3. Limit <= MaxLimit /\ Limit \in Int /\ MaxLimit \in Int
    BY LimitCapped, HybridAssumption DEF ShapeInv, TypeOK
  <2>4. Overhead \in Int
    BY HybridAssumption DEF Overhead, ShapeInv, CountersOK
  <2>5. FilterCost * (Boundary(cur) + cnt) < MaxLimit
    BY <1>1, <2>1, <2>2, <2>3, <2>4
  <2>6. cnt < cnt + 1 /\ cnt + 1 <= cnt + CheckEvery
    BY <1>1
  <2> QED BY <1>1, <1>2, <2>5, <2>6
<1>3. CASE cnt % CheckEvery # 0
  <2>1. cnt # 0
    BY <1>1, <1>3
  <2>2. PICK c \in Nat : LastLook(c)
    BY <1>1, <2>1 DEF BoundInv
  <2>3. (c + CheckEvery) % CheckEvery = 0
    BY <1>1, <2>2, NextMultiple DEF LastLook
  <2>4. cnt # c + CheckEvery
    BY <1>3, <2>3
  <2> WITNESS c \in Nat
  <2> QED BY <1>1, <2>2, <2>4 DEF LastLook
<1> QED BY <1>2, <1>3

LEMMA BoundStep ==
  ASSUME ShapeInv, BoundInv, [Next]_vars
  PROVE  BoundInv'
<1>0. /\ neigh_arr \in Seq(Points) /\ Len(neigh_arr) \in Nat /\ at \in Nat /\ at > 0
      /\ j \in Nat /\ j > 0 /\ num_new \in Nat /\ num_visited \in Nat
  BY DEF ShapeInv, TypeOK
<1>1. CASE Start
  BY <1>1 DEF Start, BoundInv
<1>2. CASE Pop
  <2>1. /\ num_new' = 0 /\ num_visited' = 0 /\ j' = 1 /\ variant' = variant
        /\ neigh_arr' = << >> /\ graph' = graph
    BY <1>2 DEF Pop, ShapeInv, Fresh, query, counters, local
  <2>2. Len(neigh_arr') = 0
    BY <2>1
  <2>3. pc' \in {"done", "zone", "ext", "hop"} /\ (variant = "bounded" => pc' \in {"done", "zone"})
    BY <1>2 DEF Pop
  <2>4. pc' = "zone" => cur' \in Points
    BY <1>2, PopShape DEF ShapeInv
  <2>5. pc' = "zone" => Boundary(cur)' \in Nat
    BY <2>1, <2>4, ListHoldsPoints DEF ShapeInv, Boundary
  <2> QED BY <2>1, <2>2, <2>3, <2>5 DEF BoundInv
<1>3. CASE pc = "zone" /\ (SeeZone \/ EndZone \/ SkipSeen)
  <2>1. cur \in Points /\ TypeOK /\ at = 1
    BY <1>3 DEF ShapeInv
  <2>2. Boundary(cur) \in Nat
    BY <2>1, ListHoldsPoints
  <2>3. CASE SeeZone
    <3>1. /\ UNCHANGED <<variant, graph, cur, num_new, num_visited, pc>>
          /\ neigh_arr' = Append(neigh_arr, Links(cur)[j]) /\ j' = j + 1 /\ j <= Boundary(cur)
      BY <2>3 DEF SeeZone, InZone, query, counters, local
    <3>2. Links(cur)[j] \in Points
      BY <2>3, SlotHoldsPoint DEF SeeZone
    <3>3. Len(neigh_arr') = Len(neigh_arr) + 1
      BY <1>0, <3>1, <3>2
    <3> QED BY <1>0, <1>3, <2>2, <3>1, <3>3 DEF BoundInv, Boundary
  <2>4. CASE SkipSeen
    <3>1. /\ UNCHANGED <<variant, graph, cur, num_new, neigh_arr, pc>>
          /\ num_visited' = num_visited + 1 /\ j' = j + 1 /\ j <= Boundary(cur)
      BY <1>3, <2>4 DEF SkipSeen, InZone, InExt, query
    <3> QED BY <1>0, <1>3, <2>2, <3>1 DEF BoundInv, Boundary
  <2>5. CASE EndZone
    <3>1. /\ UNCHANGED <<variant, graph, cur, num_new, num_visited, neigh_arr, at, j>>
          /\ pc' = "near" /\ j > Boundary(cur)
      BY <2>5 DEF EndZone, query, counters, local
    <3> QED BY <1>0, <1>3, <2>1, <2>2, <3>1 DEF BoundInv, Boundary
  <2> QED BY <1>3, <2>3, <2>4, <2>5
<1>4. CASE pc = "near" /\ (PushNear \/ EndNear)
  <2>1. cur \in Points /\ TypeOK
    BY <1>4 DEF ShapeInv
  <2>2. Boundary(cur) \in Nat
    BY <2>1, ListHoldsPoints
  <2>3. CASE PushNear
    <3>1. /\ UNCHANGED <<variant, graph, cur, neigh_arr, pc, j>> /\ at' = at + 1 /\ at <= Len(neigh_arr)
          /\ \/ num_new' = num_new + 1 /\ num_visited' = num_visited
             \/ num_new' = num_new /\ num_visited' = num_visited + 1
      BY <2>3 DEF PushNear, query
    <3>2. Boundary(cur)' = Boundary(cur)
      BY <3>1 DEF Boundary
    <3>3. ASSUME variant = "bounded"
          PROVE  /\ (num_new + num_visited + Len(neigh_arr) + 1 - at)' = Boundary(cur)
                 /\ j - 1 = Boundary(cur) /\ at' <= Len(neigh_arr) + 1
      <4>1. num_new + num_visited + Len(neigh_arr) + 1 - at = Boundary(cur) /\ j - 1 = Boundary(cur)
        BY <1>4, <3>3 DEF BoundInv
      <4>2. (num_new + num_visited)' = num_new + num_visited + 1
        BY <1>0, <3>1
      <4> QED BY <1>0, <2>2, <3>1, <4>1, <4>2
    <3> QED BY <1>4, <3>1, <3>2, <3>3 DEF BoundInv
  <2>4. CASE EndNear
    <3>1. /\ UNCHANGED <<variant, graph, cur, num_new, num_visited, j>>
          /\ pc' \in {"ext", "far"} /\ at > Len(neigh_arr)
      BY <2>4 DEF EndNear, query, counters, local
    <3>2. Boundary(cur)' = Boundary(cur)
      BY <3>1 DEF Boundary
    <3>3. ASSUME variant = "bounded"
          PROVE  num_new + num_visited = j - 1 /\ j - 1 = Boundary(cur) /\ cnt' = 0
      <4>1. /\ num_new + num_visited + Len(neigh_arr) + 1 - at = Boundary(cur)
            /\ j - 1 = Boundary(cur) /\ at = Len(neigh_arr) + 1
        BY <1>0, <1>4, <3>1, <3>3 DEF BoundInv
      <4> QED BY <1>0, <2>2, <3>1, <3>2, <4>1 DEF cnt
    <3> QED BY <2>2, <3>1, <3>2, <3>3 DEF BoundInv
  <2> QED BY <1>4, <2>3, <2>4
<1>5. CASE pc = "ext" /\ (SkipSeen \/ SeeExt)
  <2>1. cur \in Points /\ TypeOK
    BY <1>5 DEF ShapeInv
  <2>2. Boundary(cur) \in Nat
    BY <2>1, ListHoldsPoints
  <2>3. /\ UNCHANGED <<variant, params, graph, cur, pc>> /\ j' = j + 1 /\ ~OverLimit
        /\ \/ num_new' = num_new + 1 /\ num_visited' = num_visited
           \/ num_new' = num_new /\ num_visited' = num_visited + 1
    BY <1>5 DEF SkipSeen, SeeExt, InExt, InZone, query
  <2>4. cnt' = cnt + 1 /\ Boundary(cur)' = Boundary(cur) /\ MaxLimit' = MaxLimit /\ cnt \in Int
    BY <1>0, <2>2, <2>3 DEF cnt, Boundary, MaxLimit, vo_coef_mode
  <2>5. ASSUME variant = "bounded"
        PROVE  \E c \in Nat : LastLook(c)'
    BY <1>5, <2>3, <2>4, <2>5, LookAhead DEF LastLook
  <2> QED BY <1>0, <1>5, <2>2, <2>3, <2>4, <2>5 DEF BoundInv
<1>6. CASE EndExt \/ TwoHop \/ PushFar \/ EndList \/ RunDry
  BY <1>6 DEF EndExt, TwoHop, HopFirst, HopSecond, HopBack, EndHop, PushFar, EndList, RunDry,
     BoundInv
<1>7. CASE UNCHANGED vars
  <2>1. UNCHANGED <<variant, params, graph, cur, pc, j, num_new, num_visited, neigh_arr, at>>
    BY <1>7 DEF vars, query, counters, local
  <2> QED BY <2>1 DEF BoundInv, LastLook, cnt, Boundary, MaxLimit, vo_coef_mode
<1>8. /\ SeeZone \/ EndZone => pc = "zone"
      /\ PushNear \/ EndNear => pc = "near"
      /\ SkipSeen \/ SeeExt => pc \in {"zone", "ext"}
      /\ SeeExt => pc = "ext"
  BY DEF SeeZone, EndZone, PushNear, EndNear, SkipSeen, SeeExt, InZone, InExt
<1> QED BY <1>1, <1>2, <1>3, <1>4, <1>5, <1>6, <1>7, <1>8 DEF Next, Zone, Extend

\* The bounded search looks at fewer slots of a list than the largest limit
\* pays for, and CheckEvery more, whatever the graph, the filter and the costs.
THEOREM OverheadIsBounded == Spec => []OverheadBounded
<1>1. Init => ShapeInv /\ BoundInv
  BY InitShape DEF Init, BoundInv
<1>2. ShapeInv /\ BoundInv /\ [Next]_vars => ShapeInv' /\ BoundInv'
  BY ShapeStep, BoundStep
<1>3. ShapeInv /\ BoundInv => OverheadBounded
  <2> SUFFICES ASSUME ShapeInv, BoundInv, variant = "bounded", pc = "ext", cnt > 0
               PROVE  FilterCost * (Boundary(cur) + cnt) < MaxLimit + FilterCost * CheckEvery
    BY DEF OverheadBounded
  <2>1. PICK c \in Nat : LastLook(c)
    BY DEF BoundInv
  <2>2. /\ Boundary(cur) \in Nat /\ cnt \in Int /\ MaxLimit \in Int
        /\ CheckEvery \in Nat /\ FilterCost \in Nat
    BY ListHoldsPoints, LimitCapped, HybridAssumption DEF ShapeInv, TypeOK, cnt
  <2>3. FilterCost * (Boundary(cur) + cnt) <= FilterCost * (Boundary(cur) + c + CheckEvery)
    BY <2>1, <2>2, ProductGrows DEF LastLook
  <2>4. FilterCost * (Boundary(cur) + c + CheckEvery)
          = FilterCost * (Boundary(cur) + c) + FilterCost * CheckEvery
    BY <2>2
  <2>5. FilterCost * (Boundary(cur) + c) < MaxLimit
    BY <2>1 DEF LastLook
  <2> QED BY <2>2, <2>3, <2>4, <2>5
<1> QED BY <1>1, <1>2, <1>3, PTL DEF Spec
-----------------------------------------------------------------------------
(* The batch of points fits the array that is allocated for it               *)

\* How many points each phase of a list may have put in neigh_arr.  A two-hop
\* scan cut short in the second list may add one more from the first.
FitInv ==
  /\ pc \in {"start", "pop", "done", "aborted"} => neigh_arr = << >>
  /\ pc = "zone" => Len(neigh_arr) <= j - 1 /\ j - 1 <= Boundary(cur)
  /\ pc \in {"zone", "near"} => variant \notin {"1", "2"}
  /\ pc = "near" => Len(neigh_arr) <= 2 * M
  /\ pc = "ext"  => Len(neigh_arr) <= j - 1 /\ Len(neigh_arr) <= width
  /\ pc = "hop"  => /\ variant = "2" /\ Len(neigh_arr) <= num_found
                    /\ Len(neigh_arr) <= width
                    /\ keep_expanding => Len(neigh_arr) = 0 \/ Len(neigh_arr) < width
                    /\ j2 > 0 => keep_expanding /\ width > 0
  /\ pc = "far"  => \/ Len(neigh_arr) <= width
                    \/ variant \notin {"1", "2"} /\ Len(neigh_arr) <= 2 * M
                    \/ variant = "2" /\ Len(neigh_arr) <= width + 1

\* Every step of a scan keeps the batch within its array.
LEMMA FitStep ==
  ASSUME ShapeInv, FitInv, [Next]_vars
  PROVE  FitInv'
<1>0. /\ neigh_arr \in Seq(Points) /\ Len(neigh_arr) \in Nat /\ j \in Nat /\ j > 0 /\ j2 \in Nat
      /\ num_found \in Nat /\ width \in Nat /\ M \in Nat /\ Len(<< >>) = 0
  <2>1. neigh_arr \in Seq(Points) /\ j \in Nat /\ j > 0 /\ j2 \in Nat /\ num_found \in Nat
    BY DEF ShapeInv, TypeOK
  <2>2. width \in Nat /\ M \in Nat
    BY HybridAssumption DEF ShapeInv, TypeOK
  <2> QED BY <2>1, <2>2
<1>1. ASSUME NEW v \in Points, neigh_arr' = Append(neigh_arr, v)
      PROVE  Len(neigh_arr') = Len(neigh_arr) + 1
  BY <1>0, <1>1
<1>2. CASE Start \/ RunDry
  <2>1. pc \in {"start", "pop"} /\ pc' \in {"pop", "aborted", "done"} /\ neigh_arr' = neigh_arr
    BY <1>2 DEF Start, RunDry
  <2> QED BY <2>1 DEF FitInv
<1>3. CASE Pop
  <2>1. /\ pc = "pop" /\ neigh_arr' = << >> /\ j' = 1 /\ j2' = 0
        /\ UNCHANGED <<graph, width, variant, num_found, keep_expanding>>
    BY <1>3 DEF Pop, ShapeInv, Fresh, query, hop
  <2>2. /\ pc' \in {"done", "zone", "ext", "hop"} /\ (pc' = "hop" => variant = "2")
        /\ pc' = "zone" => variant \notin {"1", "2"}
    BY <1>3 DEF Pop
  <2>3. pc' = "zone" => Boundary(cur)' \in Nat
    <3>1. pc' = "zone" => cur' \in Points /\ TypeOK'
      BY <1>3, PopShape DEF ShapeInv
    <3>2. pc' = "zone" => Boundary(cur') \in Nat
      BY <3>1, ListHoldsPoints DEF ShapeInv
    <3> QED BY <2>1, <3>2 DEF Boundary
  <2> QED BY <1>0, <2>1, <2>2, <2>3 DEF FitInv
<1>4. CASE SeeZone \/ EndZone
  <2>1. pc = "zone" /\ cur \in Points /\ TypeOK
    BY <1>4 DEF SeeZone, EndZone, InZone, ShapeInv
  <2>2. Boundary(cur) \in Nat /\ Boundary(cur) <= 2 * M
    <3>1. graph \in Graphs
      BY <2>1 DEF TypeOK
    <3> QED BY <2>1, <3>1, ListHoldsPoints, HybridAssumption DEF Boundary
  <2>3. CASE SeeZone
    <3>1. /\ neigh_arr' = Append(neigh_arr, Links(cur)[j]) /\ j' = j + 1 /\ j <= Boundary(cur)
          /\ UNCHANGED <<pc, graph, cur, variant>>
      BY <2>3 DEF SeeZone, InZone, query
    <3>2. Links(cur)[j] \in Points
      BY <2>3, SlotHoldsPoint DEF SeeZone
    <3>3. Len(neigh_arr') = Len(neigh_arr) + 1 /\ Boundary(cur)' = Boundary(cur)
      BY <1>1, <3>1, <3>2 DEF Boundary
    <3> QED BY <1>0, <2>1, <2>2, <3>1, <3>3 DEF FitInv
  <2>4. CASE EndZone
    <3>1. pc' = "near" /\ neigh_arr' = neigh_arr /\ variant' = variant
      BY <2>4 DEF EndZone, query
    <3> QED BY <1>0, <2>1, <2>2, <3>1 DEF FitInv
  <2> QED BY <1>4, <2>3, <2>4
<1>5. CASE PushNear \/ PushFar
  <2>1. pc \in {"near", "far"} /\ UNCHANGED <<pc, neigh_arr, width, variant>>
    BY <1>5 DEF PushNear, PushFar, query
  <2> QED BY <2>1 DEF FitInv
<1>6. CASE EndNear
  <2>1. /\ pc = "near" /\ UNCHANGED <<j, width, variant>>
        /\ \/ pc' = "far" /\ neigh_arr' = neigh_arr
           \/ pc' = "ext" /\ neigh_arr' = << >>
    BY <1>6 DEF EndNear, query
  <2> QED BY <1>0, <2>1 DEF FitInv
<1>7. CASE SkipSeen
  <2>1. /\ UNCHANGED <<pc, neigh_arr, graph, cur, width, variant>> /\ j' = j + 1
        /\ \/ pc = "zone" /\ j <= Boundary(cur)
           \/ pc = "ext"
    BY <1>7 DEF SkipSeen, InZone, InExt, query
  <2>2. pc = "zone" => cur \in Points /\ TypeOK
    BY DEF ShapeInv
  <2>3. pc = "zone" => Boundary(cur) \in Nat /\ Boundary(cur)' = Boundary(cur)
    BY <2>1, <2>2, ListHoldsPoints DEF Boundary
  <2> QED BY <1>0, <2>1, <2>3 DEF FitInv
<1>8. CASE SeeExt
  <2>1. /\ pc = "ext" /\ InList /\ j' = j + 1 /\ UNCHANGED <<pc, width, variant>>
        /\ neigh_arr' = neigh_arr \/ neigh_arr' = Append(neigh_arr, Links(cur)[j])
    BY <1>8 DEF SeeExt, InExt, query
  <2>2. Links(cur)[j] \in Points
    BY <2>1, SlotHoldsPoint
  <2>3. j <= width
    <3>1. Len(Links(cur)) \in Nat
      BY <2>1, ListHoldsPoints DEF ShapeInv
    <3> QED BY <1>0, <2>1, <3>1 DEF InList, Least
  <2>4. Len(neigh_arr') \in Nat /\ Len(neigh_arr') <= Len(neigh_arr) + 1
    BY <1>0, <1>1, <2>1, <2>2
  <2> QED BY <1>0, <2>1, <2>3, <2>4 DEF FitInv
<1>9. CASE EndExt \/ EndHop
  <2>1. /\ pc \in {"ext", "hop"} /\ pc' = "far" /\ neigh_arr' = neigh_arr
        /\ UNCHANGED <<width, variant>>
    BY <1>9 DEF EndExt, EndHop, query
  <2> QED BY <2>1 DEF FitInv
<1>10. CASE HopFirst
  <2> DEFINE found == num_found + One(Passes(Links(cur)[j]))
  <2>1. /\ pc = "hop" /\ InList /\ j2 = 0 /\ num_found' = found /\ UNCHANGED <<width, variant>>
        /\ \/ /\ neigh_arr' = Append(neigh_arr, Links(cur)[j]) /\ Passes(Links(cur)[j])
              /\ \/ found >= width /\ pc' = "far"
                 \/ ~(found >= width) /\ pc' = "hop"
           \/ neigh_arr' = neigh_arr /\ pc' = "hop"
        /\ pc' = "hop" => /\ keep_expanding' = keep_expanding
                          /\ j2' > 0 => keep_expanding
    BY <1>10 DEF HopFirst, query, Unseen
  <2>2. Links(cur)[j] \in Points /\ Len(Links(cur)) \in Nat /\ cur \in Points
    BY <2>1, SlotHoldsPoint, ListHoldsPoints DEF ShapeInv
  <2>3. width > 0
    BY <1>0, <2>1, <2>2 DEF InList, Least
  <2>4. found \in Nat /\ found >= num_found
        /\ (Passes(Links(cur)[j]) => found = num_found + 1)
    BY <1>0 DEF One
  <2> HIDE DEF found
  <2>5. CASE neigh_arr' = neigh_arr /\ pc' = "hop"
    BY <1>0, <2>1, <2>3, <2>4, <2>5 DEF FitInv
  <2>6. CASE /\ neigh_arr' = Append(neigh_arr, Links(cur)[j]) /\ found = num_found + 1
             /\ \/ found >= width /\ pc' = "far"
                \/ ~(found >= width) /\ pc' = "hop"
    <3>1. Len(neigh_arr') = Len(neigh_arr) + 1
      BY <1>1, <2>2, <2>6
    <3> QED BY <1>0, <2>1, <2>3, <2>6, <3>1 DEF FitInv
  <2> QED BY <2>1, <2>4, <2>5, <2>6
<1>11. CASE HopSecond
  <2> DEFINE v2 == Links(Links(cur)[j])[j2]
             found == num_found + One(Passes(v2))
  <2>1. /\ pc = "hop" /\ j2 > 0 /\ j2 \in DOMAIN Links(Links(cur)[j])
        /\ num_found' = found /\ UNCHANGED <<width, variant, pc>>
        /\ \/ /\ neigh_arr' = Append(neigh_arr, v2) /\ Passes(v2)
              /\ \/ found >= width /\ keep_expanding' = FALSE /\ j2' = 0
                 \/ ~(found >= width) /\ keep_expanding' = keep_expanding
           \/ neigh_arr' = neigh_arr /\ keep_expanding' = keep_expanding
    BY <1>11 DEF HopSecond, query, Unseen
  <2>2. j \in DOMAIN Links(cur) /\ cur \in Points /\ TypeOK
    BY <2>1 DEF ShapeInv
  <2>3. v2 \in Points
    BY <2>1, <2>2, ListHoldsPoints
  <2>4. found \in Nat /\ found >= num_found /\ (Passes(v2) => found = num_found + 1)
    BY <1>0 DEF One
  <2> HIDE DEF found, v2
  <2>5. keep_expanding /\ width > 0 /\ (Len(neigh_arr) = 0 \/ Len(neigh_arr) < width)
    BY <2>1 DEF FitInv
  <2>6. CASE neigh_arr' = neigh_arr /\ keep_expanding' = keep_expanding
    BY <1>0, <2>1, <2>4, <2>5, <2>6 DEF FitInv
  <2>7. CASE /\ neigh_arr' = Append(neigh_arr, v2) /\ found = num_found + 1
             /\ \/ found >= width /\ keep_expanding' = FALSE /\ j2' = 0
                \/ ~(found >= width) /\ keep_expanding' = keep_expanding
    <3>1. Len(neigh_arr') = Len(neigh_arr) + 1
      BY <1>1, <2>3, <2>7
    <3>2. /\ pc = "hop" /\ variant = "2" /\ Len(neigh_arr) <= num_found
          /\ Len(neigh_arr) <= width
      BY <2>1 DEF FitInv
    <3>3. /\ Len(neigh_arr') <= found /\ Len(neigh_arr') <= width
          /\ ~(found >= width) => Len(neigh_arr') < width
      BY <1>0, <2>5, <2>7, <3>1, <3>2
    <3>4. CASE found >= width /\ keep_expanding' = FALSE /\ j2' = 0
      BY <2>1, <3>2, <3>3, <3>4 DEF FitInv
    <3>5. CASE ~(found >= width) /\ keep_expanding' = keep_expanding
      BY <2>1, <2>5, <3>2, <3>3, <3>5 DEF FitInv
    <3> QED BY <2>7, <3>4, <3>5
  <2> QED BY <2>1, <2>4, <2>6, <2>7
<1>12. CASE HopBack
  <2>1. pc = "hop" /\ j2' = 0 /\ UNCHANGED <<pc, width, variant, neigh_arr, num_found, keep_expanding>>
    BY <1>12 DEF HopBack, query
  <2> QED BY <2>1 DEF FitInv
<1>13. CASE EndList
  BY <1>13 DEF EndList, FitInv
<1>14. CASE UNCHANGED vars
  <2>1. UNCHANGED <<pc, neigh_arr, j, j2, cur, graph, width, variant, num_found, keep_expanding>>
    BY <1>14 DEF vars, query, hop
  <2> QED BY <2>1 DEF FitInv, Boundary
<1> QED BY <1>2, <1>3, <1>4, <1>5, <1>6, <1>7, <1>8, <1>9, <1>10, <1>11, <1>12, <1>13, <1>14
        DEF Next, Zone, Extend, TwoHop

\* So it is always within it.
LEMMA FitInvariance == Spec => [](ShapeInv /\ FitInv)
<1>1. Init => ShapeInv /\ FitInv
  BY InitShape DEF Init, FitInv
<1>2. ShapeInv /\ FitInv /\ [Next]_vars => ShapeInv' /\ FitInv'
  BY ShapeStep, FitStep
<1> QED BY <1>1, <1>2, PTL DEF Spec

\* What a list puts in neigh_arr is bounded by the slots to see, the largest
\* zone and, in mode 2, one point more, whatever the parameters.
THEOREM YieldAlwaysBounded == Spec => []YieldBounded
<1>1. ShapeInv /\ FitInv => YieldBounded
  <2> SUFFICES ASSUME ShapeInv, FitInv PROVE Len(neigh_arr) <= Yield
    BY DEF YieldBounded
  <2>1. /\ Len(neigh_arr) \in Nat /\ width \in Nat /\ M \in Nat /\ j \in Nat
        /\ 2 * M \in Nat /\ Len(<< >>) = 0
    <3>1. neigh_arr \in Seq(Points) /\ j \in Nat
      BY DEF ShapeInv, TypeOK
    <3>2. width \in Nat /\ M \in Nat
      BY HybridAssumption DEF ShapeInv, TypeOK
    <3> QED BY <3>1, <3>2
  <2>2. pc = "zone" => Boundary(cur) \in Nat /\ Boundary(cur) <= 2 * M
    <3> SUFFICES ASSUME pc = "zone" PROVE Boundary(cur) \in Nat /\ Boundary(cur) <= 2 * M
      OBVIOUS
    <3>1. cur \in Points /\ TypeOK /\ graph \in Graphs
      BY DEF ShapeInv, TypeOK
    <3> QED BY <3>1, ListHoldsPoints, HybridAssumption DEF Boundary
  <2>3. \/ Len(neigh_arr) <= width
        \/ variant \notin {"1", "2"} /\ Len(neigh_arr) <= 2 * M
        \/ variant = "2" /\ Len(neigh_arr) <= width + 1
    <3>1. pc \in {"start", "pop", "zone", "near", "ext", "hop", "far", "done", "aborted"}
      BY DEF ShapeInv, TypeOK
    <3> QED BY <2>1, <2>2, <3>1 DEF FitInv
  <2>4. CASE variant = "1"
    BY <2>1, <2>3, <2>4 DEF Yield
  <2>5. CASE variant = "2"
    BY <2>1, <2>3, <2>5 DEF Yield
  <2>6. CASE variant \notin {"1", "2"}
    BY <2>1, <2>3, <2>6 DEF Yield, Larger
  <2> QED BY <2>4, <2>5, <2>6
<1> QED BY <1>1, FitInvariance, PTL

\* The array that the bounded and the printing search allocate for themselves
\* always suffices, whatever M, M_exp and M_exp_search are; that of the modes
\* need not (run hybrid_array).
THEOREM OwnArrayFits == Spec => [](variant \notin Modes => ArrayFits)
<1>1. ShapeInv /\ YieldBounded => (variant \notin Modes => ArrayFits)
  <2> SUFFICES ASSUME ShapeInv, YieldBounded, variant \notin Modes
               PROVE  Cleared <= Allocated /\ Len(neigh_arr) <= Allocated
    BY DEF ArrayFits
  <2>1. width \in Nat /\ 2 * M \in Nat
    BY HybridAssumption DEF ShapeInv, TypeOK
  <2>2. Cleared = Allocated /\ Allocated = Yield /\ Allocated \in Nat
    BY <2>1 DEF Cleared, Allocated, Yield, Modes, Larger
  <2> QED BY <2>2 DEF YieldBounded
<1> QED BY <1>1, FitInvariance, YieldAlwaysBounded, PTL
-----------------------------------------------------------------------------
(* Without mode 3, the results are the nearest of what passes                *)

\* The points in the result heap, those that wait to be pushed, and the
\* visited points that pass and have been pushed.
Found   == {s[1] : s \in results}
Waiting == {neigh_arr[i] : i \in at .. Len(neigh_arr)}
Offered == (visited \cap sel) \ Waiting

BestInv ==
  /\ FilterInv /\ FitInv
  /\ pc \notin {"start", "aborted"} => KeepsNearest(Found, Offered, k, QDist)

\* A point takes one slot, so the result heap is as full as it has points.
LEMMA FoundSize ==
  ASSUME ShapeInv, PushedOnce
  PROVE  /\ Cardinality(results) = Cardinality(Found) /\ IsFiniteSet(Found)
         /\ Found \in SUBSET Points
<1>1. Found \in SUBSET Points
  BY DEF Found, ShapeInv, TypeOK, Slots
<1>2. IsFiniteSet(Found)
  BY <1>1, HybridAssumption, FS_Subset
<1> DEFINE slot == [x \in Found |-> CHOOSE s \in results : s[1] = x]
<1>3. \A x \in Found : slot[x] \in results /\ slot[x][1] = x
  BY DEF Found
<1>4. slot \in [Found -> results]
  BY <1>3
<1>5. \A x, y \in Found : slot[x] = slot[y] => x = y
  BY <1>3
<1>6. \A s \in results : \E x \in Found : slot[x] = s
  <2> SUFFICES ASSUME NEW s \in results PROVE slot[s[1]] = s /\ s[1] \in Found
    OBVIOUS
  <2>1. s[1] \in Found
    BY DEF Found
  <2> QED BY <1>3, <2>1 DEF PushedOnce
<1> HIDE DEF slot
<1>7. ExistsBijection(Found, results)
  <2>1. slot \in Bijection(Found, results)
    BY <1>4, <1>5, <1>6, Fun_IsBij
  <2> QED BY <2>1, Fun_ExistsBij
<1> QED BY <1>1, <1>2, <1>7, FS_Bijection

\* The heaps count as FiniteSets does.
LEMMA HeapSize == \A S : Heap!Cardinality(S) = Cardinality(S)
BY DEF Heap!Cardinality, Cardinality

\* Recording a slot takes its point in; a slot that would not improve the
\* results is refused.
LEMMA RecordTakes ==
  ASSUME ShapeInv, PushedOnce, NEW s \in Slots,
         \/ Heap!Record(s)
         \/ ~Heap!Improves(s) /\ results' = results
  PROVE  TakesIn(Found, Found', s[1], k, QDist)
<1>1. \A t \in results \cup {s} : t \in Slots /\ SlotDist[t] = QDist[t[1]] /\ t[1] \in Points
  BY DEF ShapeInv, TypeOK, SlotDist, Slots
<1>2. \A x \in Points : QDist[x] \in Int
  BY HybridAssumption
<1>3. Cardinality(results) = Cardinality(Found)
  BY FoundSize
<1>4. \/ Cardinality(results) < k /\ results' = results \cup {s}
      \/ /\ ~(Cardinality(results) < k) /\ results' = results
         /\ ~\E r \in results : SlotDist[s] < SlotDist[r]
      \/ /\ ~(Cardinality(results) < k) /\ \E r \in results : SlotDist[s] < SlotDist[r]
         /\ \E f \in results : /\ \A r \in results : SlotDist[f] >= SlotDist[r]
                               /\ results' = (results \ {f}) \cup {s}
  BY HeapSize DEF Heap!Record, Heap!Improves, Heap!Farthest
<1>5. CASE Cardinality(results) < k /\ results' = results \cup {s}
  <2>1. Found' = Found \cup {s[1]}
    BY <1>5 DEF Found
  <2> QED BY <1>3, <1>5, <2>1 DEF TakesIn
<1>6. CASE /\ ~(Cardinality(results) < k) /\ results' = results
           /\ ~\E r \in results : SlotDist[s] < SlotDist[r]
  <2>1. Found' = Found
    BY <1>6 DEF Found
  <2>2. \A x \in Found : QDist[s[1]] >= QDist[x]
    <3> SUFFICES ASSUME NEW r \in results PROVE QDist[s[1]] >= QDist[r[1]]
      BY DEF Found
    <3>1. ~(QDist[s[1]] < QDist[r[1]]) /\ QDist[s[1]] \in Int /\ QDist[r[1]] \in Int
      BY <1>1, <1>2, <1>6
    <3> QED BY <3>1
  <2> QED BY <1>3, <1>6, <2>1, <2>2 DEF TakesIn
<1>7. CASE /\ ~(Cardinality(results) < k) /\ \E r \in results : SlotDist[s] < SlotDist[r]
           /\ \E f \in results : /\ \A r \in results : SlotDist[f] >= SlotDist[r]
                                 /\ results' = (results \ {f}) \cup {s}
  <2>1. PICK f \in results : /\ \A r \in results : SlotDist[f] >= SlotDist[r]
                             /\ results' = (results \ {f}) \cup {s}
    BY <1>7
  <2>2. \A r \in results : r # f => r[1] # f[1]
    BY DEF PushedOnce
  <2>3. Found' = (Found \ {f[1]}) \cup {s[1]} /\ f[1] \in Found
    BY <2>1, <2>2 DEF Found
  <2>4. \A x \in Found : QDist[f[1]] >= QDist[x]
    BY <1>1, <2>1 DEF Found
  <2>5. \E x \in Found : QDist[s[1]] < QDist[x]
    BY <1>1, <1>7 DEF Found
  <2> QED BY <1>3, <1>7, <2>3, <2>4, <2>5 DEF TakesIn
<1> QED BY <1>4, <1>5, <1>6, <1>7

\* The results are among the points offered.
LEMMA FoundOffered ==
  ASSUME FilterInv
  PROVE  /\ Found \in SUBSET Offered /\ Offered \in SUBSET Points /\ IsFiniteSet(Offered)
<1>1. \A s \in results : s[1] \in visited /\ s[1] \in sel
  BY DEF FilterInv, OnceInv, PassInv, ResultsPassFilter, Passes
<1>2. \A s \in results : s[1] \notin Waiting
  BY DEF FilterInv, OnceInv, Waiting
<1>3. Offered \in SUBSET Points
  BY DEF FilterInv, ShapeInv, TypeOK, Offered
<1> QED BY <1>1, <1>2, <1>3, HybridAssumption, FS_Subset DEF Found, Offered

\* A point that is seen waits, or does not pass.
LEMMA SeenKeepsBest ==
  ASSUME FilterInv, NEW v \in Points, v \notin visited, visited' = visited \cup {v},
         at = 1, at' = at, sel' = sel, results' = results,
         \/ neigh_arr' = Append(neigh_arr, v)
         \/ neigh_arr' = neigh_arr /\ ~Passes(v)
  PROVE  Found' = Found /\ Offered' = Offered
<1>0. Found' = Found
  BY DEF Found
<1>1. neigh_arr \in Seq(Points) /\ at \in Nat /\ at > 0 /\ Len(neigh_arr) \in Nat
      /\ DOMAIN neigh_arr = 1 .. Len(neigh_arr)
  BY DEF FilterInv, ShapeInv, TypeOK
<1>2. CASE neigh_arr' = Append(neigh_arr, v)
  <2>1. /\ Len(neigh_arr') = Len(neigh_arr) + 1 /\ neigh_arr'[Len(neigh_arr) + 1] = v
        /\ \A i \in 1 .. Len(neigh_arr) : neigh_arr'[i] = neigh_arr[i]
    BY <1>1, <1>2
  <2>2. \A w \in visited : w \in Waiting' <=> w \in Waiting
    <3> SUFFICES ASSUME NEW w \in visited PROVE w \in Waiting' <=> w \in Waiting
      OBVIOUS
    <3>1. ASSUME w \in Waiting PROVE w \in Waiting'
      <4>1. PICK i \in at .. Len(neigh_arr) : w = neigh_arr[i]
        BY <3>1 DEF Waiting
      <4>2. i \in at' .. Len(neigh_arr') /\ neigh_arr'[i] = w
        BY <1>1, <2>1, <4>1
      <4> QED BY <4>2 DEF Waiting
    <3>2. ASSUME w \in Waiting' PROVE w \in Waiting
      <4>1. PICK i \in at' .. Len(neigh_arr') : w = neigh_arr'[i]
        BY <3>2 DEF Waiting
      <4>2. i # Len(neigh_arr) + 1
        BY <2>1, <4>1
      <4>3. i \in at .. Len(neigh_arr) /\ neigh_arr[i] = w
        BY <1>1, <2>1, <4>1, <4>2
      <4> QED BY <4>3 DEF Waiting
    <3> QED BY <3>1, <3>2
  <2>3. v \in Waiting'
    <3>1. Len(neigh_arr) + 1 \in at' .. Len(neigh_arr')
      BY <1>1, <2>1
    <3> QED BY <2>1, <3>1 DEF Waiting
  <2> QED BY <1>0, <2>2, <2>3 DEF Offered
<1>3. CASE neigh_arr' = neigh_arr /\ ~Passes(v)
  <2>1. Waiting' = Waiting
    BY <1>3 DEF Waiting
  <2> QED BY <1>0, <1>3, <2>1 DEF Offered, Passes
<1> QED BY <1>2, <1>3

\* A point that is pushed is offered to the results if it passes.
LEMMA PushKeepsBest ==
  ASSUME FilterInv, NEW s \in Slots, at <= Len(neigh_arr), s[1] = neigh_arr[at],
         KeepsNearest(Found, Offered, k, QDist),
         \/ Passes(s[1]) /\ Heap!Record(s)
         \/ Passes(s[1]) /\ ~Heap!Improves(s) /\ results' = results
         \/ ~Passes(s[1]) /\ results' = results,
         at' = at + 1, UNCHANGED <<neigh_arr, visited, sel>>
  PROVE  KeepsNearest(Found, Offered, k, QDist)'
<1> DEFINE v == s[1]
<1>1. neigh_arr \in Seq(Points) /\ at \in Nat /\ at > 0 /\ Len(neigh_arr) \in Nat
      /\ DOMAIN neigh_arr = 1 .. Len(neigh_arr) /\ k \in Nat
  BY HybridAssumption DEF FilterInv, ShapeInv, TypeOK
<1>2. /\ v \in visited /\ v \in Points
      /\ \A i \in at + 1 .. Len(neigh_arr) : neigh_arr[i] # v
      /\ \A t \in results : t[1] # v
  <2>1. at \in at .. Len(neigh_arr) /\ at \in DOMAIN neigh_arr
    BY <1>1
  <2>2. \A i \in at + 1 .. Len(neigh_arr) : i \in at .. Len(neigh_arr) /\ i # at
    BY <1>1
  <2>3. v \in Points
    BY <1>1, <2>1
  <2> QED BY <2>1, <2>2, <2>3 DEF FilterInv, OnceInv
<1>3. Waiting = Waiting' \cup {v} /\ v \notin Waiting'
  <2>1. at .. Len(neigh_arr) = (at + 1 .. Len(neigh_arr)) \cup {at}
    BY <1>1
  <2>2. Waiting' = {neigh_arr[i] : i \in at + 1 .. Len(neigh_arr)}
    BY DEF Waiting
  <2> QED BY <1>2, <2>1, <2>2 DEF Waiting
<1> HIDE DEF v
<1>4. CASE ~Passes(v)
  <2>1. Offered' = Offered
    BY <1>3, <1>4 DEF Offered, Passes
  <2>2. Found' = Found
    BY <1>4 DEF Found, v
  <2> QED BY <2>1, <2>2 DEF KeepsNearest
<1>5. CASE Passes(v)
  <2>1. Offered' = Offered \cup {v} /\ v \notin Offered
    BY <1>2, <1>3, <1>5 DEF Offered, Passes
  <2>2. TakesIn(Found, Found', v, k, QDist)
    BY <1>5, RecordTakes DEF v, FilterInv, OnceInv
  <2>3. \A x \in Offered \cup {v} : QDist[x] \in Int
    BY <1>2, FoundOffered, HybridAssumption
  <2>4. KeepsNearest(Found', Offered', k, QDist)
    BY <1>1, <2>1, <2>2, <2>3, FoundOffered, TakesInKeeps
  <2> QED BY <2>4
<1> QED BY <1>4, <1>5

\* Nothing is offered: no point is seen, and none of those that wait is lost.
LEMMA QuietKeepsBest ==
  ASSUME KeepsNearest(Found, Offered, k, QDist), UNCHANGED <<results, visited, sel>>,
         \/ UNCHANGED <<neigh_arr, at>>
         \/ Waiting = {} /\ neigh_arr' = << >> /\ at' = 1
  PROVE  KeepsNearest(Found, Offered, k, QDist)'
<1>1. Waiting' = Waiting
  <2>1. CASE UNCHANGED <<neigh_arr, at>>
    BY <2>1 DEF Waiting
  <2>2. CASE Waiting = {} /\ neigh_arr' = << >> /\ at' = 1
    <3>1. at' .. Len(neigh_arr') = {}
      BY <2>2
    <3> QED BY <2>2, <3>1, Zenon DEF Waiting
  <2> QED BY <2>1, <2>2
<1> QED BY <1>1 DEF Found, Offered, KeepsNearest

\* Every step keeps the nearest of what was offered.
LEMMA BestStep ==
  ASSUME BestInv, FilterInv', FitInv', [Next]_vars
  PROVE  BestInv'
<1> SUFFICES ASSUME pc' \notin {"start", "aborted"}
             PROVE  KeepsNearest(Found, Offered, k, QDist)'
  BY DEF BestInv
<1>0. /\ FilterInv /\ ShapeInv /\ neigh_arr \in Seq(Points) /\ at \in Nat /\ at > 0
      /\ Len(neigh_arr) \in Nat /\ k \in Nat \ {0}
      /\ pc \notin {"start", "aborted"} => KeepsNearest(Found, Offered, k, QDist)
  <2>1. /\ FilterInv /\ ShapeInv
        /\ pc \notin {"start", "aborted"} => KeepsNearest(Found, Offered, k, QDist)
    BY DEF BestInv, FilterInv
  <2>2. neigh_arr \in Seq(Points) /\ at \in Nat /\ at > 0 /\ k \in Nat \ {0}
    BY <2>1, HybridAssumption DEF ShapeInv, TypeOK
  <2> QED BY <2>1, <2>2
<1>1. CASE Start
  <2>1. PICK nearest \in Points :
          /\ visited' = {nearest}
          /\ results' = {s \in {<<nearest, NoPoint, "near">>} : Passes(s[1])}
    BY <1>1 DEF Start
  <2>2. sel' = sel /\ neigh_arr' = << >> /\ at' = 1
    BY <1>0, <1>1 DEF Start, ShapeInv, Fresh
  <2>3. Waiting' = {}
    <3>1. at' .. Len(neigh_arr') = {}
      BY <2>2
    <3> QED BY <3>1, Zenon DEF Waiting
  <2>4. CASE Passes(nearest)
    <3>1. results' = {<<nearest, NoPoint, "near">>} /\ nearest \in sel'
      BY <2>1, <2>2, <2>4 DEF Passes
    <3>2. Found' = {nearest}
      BY <3>1 DEF Found
    <3>3. Offered' = {nearest}
      BY <2>1, <2>3, <3>1 DEF Offered
    <3> QED BY <1>0, <3>2, <3>3, OneKept
  <2>5. CASE ~Passes(nearest)
    <3>1. results' = {}
      BY <2>1, <2>5
    <3>2. Found' = {} /\ Offered' = {}
      BY <2>1, <2>2, <2>5, <3>1 DEF Found, Offered, Passes
    <3> QED BY <1>0, <3>2, NoneKept
  <2> QED BY <2>4, <2>5
<1>2. CASE SeeZone \/ SeeExt
  <2>1. /\ InZone \/ (pc \in {"ext", "hop"} /\ InList)
        /\ pc \in {"zone", "ext"} /\ UNCHANGED <<results, at, sel>>
        /\ Links(cur)[j] \notin visited /\ visited' = visited \cup {Links(cur)[j]}
        /\ \/ neigh_arr' = Append(neigh_arr, Links(cur)[j])
           \/ neigh_arr' = neigh_arr /\ ~Passes(Links(cur)[j])
    BY <1>2 DEF SeeZone, SeeExt, InZone, InExt, heaps, query, Unseen
  <2>2. Links(cur)[j] \in Points /\ at = 1
    BY <1>0, <2>1, SlotHoldsPoint DEF ShapeInv
  <2>3. Found' = Found /\ Offered' = Offered
    BY <1>0, <2>1, <2>2, SeenKeepsBest
  <2> QED BY <1>0, <2>1, <2>3 DEF KeepsNearest
<1>3. CASE HopFirst
  <2>1. pc = "hop" /\ InList /\ UNCHANGED <<results, at, sel>>
        /\ \/ UNCHANGED <<neigh_arr, visited>>
           \/ /\ Links(cur)[j] \notin visited /\ visited' = visited \cup {Links(cur)[j]}
              /\ neigh_arr' = Append(neigh_arr, Links(cur)[j])
    BY <1>3 DEF HopFirst, heaps, query, Unseen
  <2>2. Links(cur)[j] \in Points /\ at = 1
    BY <1>0, <2>1, SlotHoldsPoint DEF ShapeInv
  <2>3. CASE UNCHANGED <<neigh_arr, visited>>
    BY <1>0, <2>1, <2>3, QuietKeepsBest
  <2>4. CASE /\ Links(cur)[j] \notin visited /\ visited' = visited \cup {Links(cur)[j]}
             /\ neigh_arr' = Append(neigh_arr, Links(cur)[j])
    <3>1. Found' = Found /\ Offered' = Offered
      BY <1>0, <2>1, <2>2, <2>4, SeenKeepsBest
    <3> QED BY <1>0, <2>1, <3>1 DEF KeepsNearest
  <2> QED BY <2>1, <2>3, <2>4
<1>4. CASE HopSecond
  <2> DEFINE v2 == Links(Links(cur)[j])[j2]
  <2>1. pc = "hop" /\ j2 > 0 /\ j2 \in DOMAIN Links(Links(cur)[j])
        /\ UNCHANGED <<results, at, sel>>
        /\ \/ UNCHANGED <<neigh_arr, visited>>
           \/ /\ v2 \notin visited /\ visited' = visited \cup {v2}
              /\ neigh_arr' = Append(neigh_arr, v2)
    BY <1>4 DEF HopSecond, heaps, query, Unseen
  <2>2. j \in DOMAIN Links(cur) /\ cur \in Points /\ TypeOK /\ at = 1
    BY <1>0, <2>1 DEF ShapeInv
  <2>3. v2 \in Points
    BY <2>1, <2>2, ListHoldsPoints
  <2> HIDE DEF v2
  <2>4. CASE UNCHANGED <<neigh_arr, visited>>
    BY <1>0, <2>1, <2>4, QuietKeepsBest
  <2>5. CASE /\ v2 \notin visited /\ visited' = visited \cup {v2}
             /\ neigh_arr' = Append(neigh_arr, v2)
    <3>1. Found' = Found /\ Offered' = Offered
      BY <1>0, <2>1, <2>2, <2>3, <2>5, SeenKeepsBest
    <3> QED BY <1>0, <2>1, <3>1 DEF KeepsNearest
  <2> QED BY <2>1, <2>4, <2>5
<1>5. CASE PushNear
  <2> DEFINE s == <<neigh_arr[at], cur, "near">>
  <2>1. /\ pc = "near" /\ at <= Len(neigh_arr) /\ at' = at + 1
        /\ UNCHANGED <<neigh_arr, visited, sel>>
        /\ \/ Passes(s[1]) /\ Heap!Record(s)
           \/ Passes(s[1]) /\ ~Heap!Improves(s) /\ results' = results
           \/ ~Passes(s[1]) /\ results' = results
    BY <1>5 DEF PushNear, query
  <2>2. s \in Slots /\ s[1] = neigh_arr[at]
    <3>1. neigh_arr[at] \in Points /\ cur \in Points
      BY <1>0, <2>1 DEF ShapeInv
    <3> QED BY <3>1 DEF Slots
  <2> HIDE DEF s
  <2> QED BY <1>0, <2>1, <2>2, PushKeepsBest
<1>6. CASE PushFar
  <2> DEFINE s == <<neigh_arr[at], cur, "far">>
  <2>1. /\ pc = "far" /\ at <= Len(neigh_arr) /\ at' = at + 1 /\ Heap!Record(s)
        /\ UNCHANGED <<neigh_arr, visited, sel>>
    BY <1>6 DEF PushFar, query
  <2>2. s \in Slots /\ s[1] = neigh_arr[at] /\ Passes(s[1])
    <3>1. neigh_arr[at] \in Points /\ cur \in Points /\ at \in DOMAIN neigh_arr
      BY <1>0, <2>1 DEF ShapeInv
    <3>2. Passes(neigh_arr[at])
      BY <1>0, <2>1, <3>1 DEF FilterInv, PassInv
    <3> QED BY <3>1, <3>2 DEF Slots
  <2> HIDE DEF s
  <2> QED BY <1>0, <2>1, <2>2, PushKeepsBest
<1>7. CASE EndNear \/ EndList
  <2>1. /\ pc \in {"near", "far"} /\ at > Len(neigh_arr) /\ UNCHANGED <<results, visited, sel>>
        /\ neigh_arr' = << >> /\ at' = 1
    BY <1>0, <1>7 DEF EndNear, EndList, heaps, query, FilterInv
  <2>2. at .. Len(neigh_arr) = {}
    BY <1>0, <2>1
  <2>3. Waiting = {}
    BY <2>2, Zenon DEF Waiting
  <2> QED BY <1>0, <2>1, <2>3, QuietKeepsBest
<1>8. CASE Pop \/ EndZone \/ SkipSeen \/ EndExt \/ HopBack \/ EndHop \/ RunDry \/ UNCHANGED vars
  <2>1. /\ pc \notin {"start", "aborted"}
        /\ UNCHANGED <<results, visited, sel, neigh_arr, at>>
    BY <1>8 DEF Pop, EndZone, SkipSeen, EndExt, HopBack, EndHop, RunDry, vars, heaps, query,
       InZone, InExt
  <2> QED BY <1>0, <2>1, QuietKeepsBest
<1> QED BY <1>1, <1>2, <1>3, <1>4, <1>5, <1>6, <1>7, <1>8 DEF Next, Zone, Extend, TwoHop

\* In every variant but mode 3, whenever a list is finished the results are the
\* k nearest of the visited points that pass, on every graph and with every
\* filter, though the filter is not asked of every point.
THEOREM ResultsAreBest == ASSUME NoMode3 PROVE Spec => []BestOfAccepted
<1>1. Init => pc = "start"
  BY DEF Init
<1>2. FilterInv /\ FitInv /\ (pc = "start" \/ BestInv) => BestInv
  BY DEF BestInv
<1>3. BestInv /\ FilterInv' /\ FitInv' /\ [Next]_vars => BestInv'
  BY BestStep
<1>4. BestInv => BestOfAccepted
  <2> SUFFICES ASSUME BestInv, pc \in {"pop", "done"}
               PROVE  LET found == {s[1] : s \in results}
                          accepted == visited \cap sel
                      IN /\ found \subseteq accepted
                         /\ \A r \in found, v \in accepted \ found : QDist[r] <= QDist[v]
                         /\ Cardinality(found) = Least(k, Cardinality(accepted))
    BY DEF BestOfAccepted
  <2>1. neigh_arr = << >> /\ at \in Nat /\ at > 0
    BY DEF BestInv, FilterInv, FitInv, ShapeInv, TypeOK
  <2>2. Waiting = {}
    <3>1. at .. Len(neigh_arr) = {}
      BY <2>1
    <3> QED BY <3>1, Zenon DEF Waiting
  <2>3. Offered = visited \cap sel
    BY <2>2 DEF Offered
  <2>4. Found \subseteq Offered /\ KeepsNearest(Found, Offered, k, QDist)
    BY FoundOffered DEF BestInv
  <2>5. k \in Nat /\ Cardinality(Offered) \in Nat
    BY HybridAssumption, FoundOffered, FS_CardinalityType DEF BestInv
  <2>6. Cardinality(Found) = Least(k, Cardinality(Offered))
    BY <2>4, <2>5 DEF KeepsNearest, Least
  <2> QED BY <2>3, <2>4, <2>6 DEF Found, KeepsNearest
<1> QED BY <1>1, <1>2, <1>3, <1>4, NoMode3, FilterInvariance, FitInvariance, PTL DEF Spec
=============================================================================
