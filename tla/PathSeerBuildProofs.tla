------------------------ MODULE PathSeerBuildProofs ------------------------
(***************************************************************************)
(* Theorems about PathSeerBuild, for every set of points and threads, every*)
(* distance and every parameter: the inductive invariant IInv and what     *)
(* follows from it.                                                        *)
(***************************************************************************)
EXTENDS PathSeerBuild, FiniteSetTheorems, TLAPS

-----------------------------------------------------------------------------
(* What the queue selections return                                         *)

\* Every selection made with a priority queue keeps some of what it was given.
LEMMA SelectionsAreSubsets ==
  ASSUME NEW q, NEW S, NEW n
  PROVE  /\ \A K \in KeepNearest(q, S, n) : K \subseteq S
         /\ \A K \in Shrunk(q, S, n) : K \subseteq S
         /\ Closest(q, S) \subseteq S /\ Farthest(q, S) \subseteq S
BY DEF KeepNearest, Shrunk, Closest, Farthest

\* Sets of points are finite, and so have a cardinality that is a number.
LEMMA PointSetsAreFinite ==
  ASSUME NEW S \in SUBSET Points
  PROVE  IsFiniteSet(S) /\ Cardinality(S) \in Nat
BY PointsAssumption, FS_Subset, FS_CardinalityType

\* A selection respects the number it was told to keep.
LEMMA SelectionsAreBounded ==
  ASSUME NEW q, NEW S \in SUBSET Points, NEW n \in Nat
  PROVE  /\ \A K \in KeepNearest(q, S, n) : Cardinality(K) <= n
         /\ \A K \in Shrunk(q, S, n) : Cardinality(K) <= n
<1>1. \A K \in SUBSET S : Cardinality(K) \in Nat
  BY PointSetsAreFinite
<1> QED BY <1>1 DEF KeepNearest, Shrunk

\* A zone that is cut to a number of slots keeps some of its links, and no more.
LEMMA FirstOfFacts ==
  ASSUME NEW S \in SUBSET Points, NEW n \in Nat, NEW K \in FirstOf(S, n)
  PROVE  K \subseteq S /\ Cardinality(K) \in Nat /\ Cardinality(K) <= n
BY PointSetsAreFinite DEF FirstOf

\* Shrinking a list to one or more links keeps one at least as close as any.
LEMMA ShrunkKeepsClosest ==
  ASSUME NEW q \in Points, NEW S \in SUBSET Points, NEW n \in Nat \ {0},
         NEW K \in Shrunk(q, S, n), NEW v \in S
  PROVE  \E w \in K : Dist[q][w] <= Dist[q][v]
<1>1. Dist[q][v] \in Int
  BY DistAssumption
<1>2. CASE v \in K
  BY <1>1, <1>2
<1>3. CASE v \notin K
  <2>1. K \in SUBSET Points /\ Cardinality({}) = 0
    BY SelectionsAreSubsets, FS_EmptySet
  <2>2. \/ \E u \in K : Dist[q][u] <= Dist[q][v]
        \/ Cardinality(K) = n /\ \A u \in K : Dist[q][u] <= Dist[q][v]
    BY <1>3 DEF Shrunk
  <2> QED BY <2>1, <2>2
<1> QED BY <1>2, <1>3

\* A dist-oriented zone has at least one slot, and fits in its list.
LEMMA Sizes ==
  ASSUME NEW l \in Levels
  PROVE  /\ DistCap(l) \in Nat \ {0} /\ Total(l) \in Nat
         /\ DistCap(l) <= Total(l)
BY SizeAssumption, LevelAssumption DEF DistCap, Total, Levels

-----------------------------------------------------------------------------
(* Where a thread is                                                        *)

\* The ranges of a thread's point, entry and level in each phase.
LEMMA ThreadFacts ==
  ASSUME TypeOK, ThreadsInv, NEW t \in Threads
  PROVE  /\ pc[t] # "idle" => pt[t] \in Points /\ Level[pt[t]] \in Levels
         /\ pc[t] \in Inserting => nearest[t] \in Points
         /\ Descending(t) => /\ level[t] \in Levels /\ level[t] - 1 \in Levels
                             /\ Level[pt[t]] <= level[t] - 1
         /\ pc[t] \in {"pop", "scan"} \cup Linking =>
              level[t] \in Levels /\ level[t] - 1 \in Levels \cup {-1}
<1>1. pc[t] # "idle" => pt[t] \in Points /\ Level[pt[t]] \in Levels
  BY LevelAssumption DEF TypeOK, ThreadsInv, ThreadOk
<1>2. pc[t] \in Inserting => nearest[t] \in Points
  BY DEF ThreadsInv, ThreadOk
<1>3. Descending(t) => /\ level[t] \in Levels /\ level[t] - 1 \in Levels
                       /\ Level[pt[t]] <= level[t] - 1
  <2>1. level[t] \in Levels \cup {-1}
    BY DEF TypeOK
  <2> QED BY <1>1, <2>1, LevelAssumption DEF Descending, Levels
<1>4. pc[t] \in {"pop", "scan"} \cup Linking =>
        level[t] \in Levels /\ level[t] - 1 \in Levels \cup {-1}
  <2>1. level[t] \in Levels \cup {-1}
    BY DEF TypeOK
  <2> QED BY <2>1, LevelAssumption DEF ThreadsInv, ThreadOk, Levels
<1> QED BY <1>1, <1>2, <1>3, <1>4

\* A point whose search at a level is not over has no links at that level.
LEMMA SearcherUnpublished ==
  ASSUME TypeOK, ThreadsInv, PublishedInv, NEW t \in Threads,
         \/ pc[t] \in {"pop", "scan"}
         \/ pc[t] = "level" /\ level[t] \in Levels
  PROVE  /\ ~Published(pt[t], level[t])
         /\ dist[pt[t]][level[t]] = {} /\ ext[pt[t]][level[t]] = {}
<1>1. pt[t] \in Points /\ level[t] \in Levels /\ stage[pt[t]] = "running"
  BY ThreadFacts DEF ThreadsInv, ThreadOk, Inserting
<1>2. ~Published(pt[t], level[t])
  <2>1. \A u \in Threads : pt[u] = pt[t] => u = t
    BY <1>1, NullAssumption DEF ThreadsInv, ThreadOk
  <2>2. ~(level[t] < level[t])
    BY <1>1, LevelAssumption DEF Levels
  <2> QED BY <1>1, <2>1, <2>2 DEF Published, Linking
<1>3. Nbrs(pt[t], level[t]) = {}
  BY <1>1, <1>2 DEF PublishedInv
<1> QED BY <1>2, <1>3 DEF Nbrs

-----------------------------------------------------------------------------
(* What the four actions that write lists do to them                        *)

\* the list of x at level l gets the zones D and E, and no other list changes
SetsZones(x, l, D, E) ==
  /\ dist' = [dist EXCEPT ![x][l] = D]
  /\ ext' = [ext EXCEPT ![x][l] = E]
  /\ Cardinality(D) <= DistCap(l) /\ Cardinality(D) + Cardinality(E) <= Total(l)

\* A first zone is written where there was none, from the searched points;
\* what is left of them joins the others.
LEMMA LinkDistEffect ==
  ASSUME TypeOK, ThreadsInv, PublishedInv, NEW t \in Threads, LinkDist(t)
  PROVE  \E D \in SUBSET found[t] :
           /\ SetsZones(pt[t], level[t], D, {})
           /\ todo' = [todo EXCEPT ![t] = D]
           /\ others' = [others EXCEPT ![t] = others[t] \cup (found[t] \ D)]
<1> DEFINE p == pt[t]
           l == level[t]
<1>1. /\ p \in Points /\ l \in Levels /\ dist[p][l] = {} /\ ext[p][l] = {}
      /\ found[t] \in SUBSET Points
  BY ThreadFacts, SearcherUnpublished DEF LinkDist, SearchOver, TypeOK
<1>2. PICK links \in Shrunk(p, found[t], DistCap(l)) :
      \E D \in Batched(p, dist[p][l], links, DistCap(l)) :
      \E E \in Moved(dist[p][l], ext[p][l], D, Total(l)) :
        /\ dist' = [dist EXCEPT ![p][l] = D]
        /\ ext' = [ext EXCEPT ![p][l] = E]
        /\ todo' = [todo EXCEPT ![t] =
             IF Cardinality(dist[p][l]) + Cardinality(links) < DistCap(l)
             THEN links ELSE D]
        /\ others' = [others EXCEPT ![t] = @ \cup ((found[t] \cup dist[p][l]) \ D)]
  BY DEF LinkDist
<1>3. links \in SUBSET found[t] /\ links \in SUBSET Points
  BY <1>1, <1>2, SelectionsAreSubsets
<1>4. PICK D \in Batched(p, dist[p][l], links, DistCap(l)) :
      \E E \in Moved(dist[p][l], ext[p][l], D, Total(l)) :
        /\ dist' = [dist EXCEPT ![p][l] = D]
        /\ ext' = [ext EXCEPT ![p][l] = E]
        /\ todo' = [todo EXCEPT ![t] =
             IF Cardinality(dist[p][l]) + Cardinality(links) < DistCap(l)
             THEN links ELSE D]
        /\ others' = [others EXCEPT ![t] = @ \cup ((found[t] \cup dist[p][l]) \ D)]
  BY <1>2
<1>5. D \in SUBSET found[t] /\ D \in SUBSET Points /\ Cardinality(D) \in Nat
  BY <1>1, <1>3, <1>4, SelectionsAreSubsets, PointSetsAreFinite DEF Batched
<1>6. Cardinality(D) <= DistCap(l)
  <2>1. Cardinality(links) <= DistCap(l)
    BY <1>1, <1>2, Sizes, SelectionsAreBounded
  <2>2. CASE Cardinality(dist[p][l]) + Cardinality(links) < DistCap(l)
    <3>1. D = links
      BY <1>1, <1>4, <2>2 DEF Batched
    <3> QED BY <2>1, <3>1
  <2>3. CASE ~(Cardinality(dist[p][l]) + Cardinality(links) < DistCap(l))
    <3>1. D \in Shrunk(p, links, DistCap(l))
      BY <1>1, <1>4, <2>3 DEF Batched
    <3> QED BY <1>1, <1>3, <3>1, Sizes, SelectionsAreBounded
  <2> QED BY <2>2, <2>3
<1>7. PICK E \in Moved(dist[p][l], ext[p][l], D, Total(l)) :
        /\ dist' = [dist EXCEPT ![p][l] = D]
        /\ ext' = [ext EXCEPT ![p][l] = E]
        /\ todo' = [todo EXCEPT ![t] =
             IF Cardinality(dist[p][l]) + Cardinality(links) < DistCap(l)
             THEN links ELSE D]
        /\ others' = [others EXCEPT ![t] = @ \cup ((found[t] \cup dist[p][l]) \ D)]
  BY <1>4
<1>8. E = {}
  BY <1>1, <1>7 DEF Moved, LeftBehind
<1>9. (IF Cardinality(dist[p][l]) + Cardinality(links) < DistCap(l)
       THEN links ELSE D) = D
  BY <1>1, <1>4 DEF Batched
<1>10. todo' = [todo EXCEPT ![t] = D]
  BY <1>7, <1>9
<1>11. others' = [others EXCEPT ![t] = others[t] \cup (found[t] \ D)]
  BY <1>1, <1>7
<1>12. SetsZones(p, l, D, {})
  BY <1>1, <1>5, <1>6, <1>7, <1>8, Sizes, FS_EmptySet DEF SetsZones
<1> QED BY <1>5, <1>10, <1>11, <1>12

\* A reverse link takes only the thread's own point into the zone of a target,
\* and never at the expense of the closest link.
LEMMA ReverseDistEffect ==
  ASSUME TypeOK, ThreadsInv, SlotsSuffice, NEW t \in Threads, ReverseDist(t)
  PROVE  \E o \in todo[t] : o \in Points /\
           \E D \in SUBSET (dist[o][level[t]] \cup {pt[t]}),
              E \in SUBSET Nbrs(o, level[t]) :
             /\ SetsZones(o, level[t], D, E)
             /\ todo' = [todo EXCEPT ![t] = todo[t] \ {o}]
             /\ \A v \in dist[o][level[t]] :
                  \E w \in D : Dist[o][w] <= Dist[o][v]
<1> DEFINE p == pt[t]
           l == level[t]
<1>1. p \in Points /\ l \in Levels /\ todo[t] \in SUBSET Points
  BY ThreadFacts DEF ReverseDist, TypeOK, Linking
<1>2. PICK o \in Farthest(p, todo[t]) :
        /\ \E D \in Added(o, dist[o][l], p, DistCap(l)) :
           \E E \in Moved(dist[o][l], ext[o][l], D, Total(l)) :
             /\ dist' = [dist EXCEPT ![o][l] = D]
             /\ ext' = [ext EXCEPT ![o][l] = E]
        /\ todo' = [todo EXCEPT ![t] = @ \ {o}]
  BY DEF ReverseDist
<1>3. /\ o \in todo[t] /\ o \in Points
      /\ dist[o][l] \in SUBSET Points /\ ext[o][l] \in SUBSET Points
  <2>1. o \in todo[t]
    BY <1>2, SelectionsAreSubsets
  <2> QED BY <1>1, <2>1 DEF TypeOK
<1>4. PICK D \in Added(o, dist[o][l], p, DistCap(l)) :
           \E E \in Moved(dist[o][l], ext[o][l], D, Total(l)) :
             /\ dist' = [dist EXCEPT ![o][l] = D]
             /\ ext' = [ext EXCEPT ![o][l] = E]
  BY <1>2
<1>5. D \in SUBSET (dist[o][l] \cup {p}) /\ D \in SUBSET Points
  BY <1>1, <1>3, <1>4, SelectionsAreSubsets DEF Added
<1>6. Cardinality(D) \in Nat /\ Cardinality(D) <= DistCap(l)
  <2>1. CASE Cardinality(dist[o][l]) < DistCap(l)
    <3>1. D = dist[o][l] \cup {p}
      BY <1>4, <2>1 DEF Added
    <3>2. IsFiniteSet(dist[o][l]) /\ Cardinality(dist[o][l]) \in Nat
      BY <1>3, PointSetsAreFinite
    <3>3. \/ Cardinality(D) = Cardinality(dist[o][l])
          \/ Cardinality(D) = Cardinality(dist[o][l]) + 1
      BY <3>1, <3>2, FS_AddElement
    <3> QED BY <1>1, <2>1, <3>2, <3>3, Sizes
  <2>2. CASE ~(Cardinality(dist[o][l]) < DistCap(l))
    <3>1. D \in Shrunk(o, dist[o][l] \cup {p}, DistCap(l))
      BY <1>4, <2>2 DEF Added
    <3>2. dist[o][l] \cup {p} \in SUBSET Points
      BY <1>1, <1>3
    <3> QED BY <1>1, <1>5, <3>1, <3>2, Sizes, SelectionsAreBounded, PointSetsAreFinite
  <2> QED BY <2>1, <2>2
<1>7. PICK E \in Moved(dist[o][l], ext[o][l], D, Total(l)) :
             /\ dist' = [dist EXCEPT ![o][l] = D]
             /\ ext' = [ext EXCEPT ![o][l] = E]
  BY <1>4
<1>8. E \in SUBSET Nbrs(o, l) /\ Cardinality(D) + Cardinality(E) <= Total(l)
  <2>1. Cardinality(dist[o][l]) \in Nat /\ Cardinality(dist[o][l]) <= DistCap(l)
    BY <1>1, <1>3, PointSetsAreFinite DEF SlotsSuffice
  <2>2. CASE ext[o][l] = {}
    <3>1. E \in LeftBehind(dist[o][l], D)
      BY <1>7, <2>2 DEF Moved
    <3> QED BY <1>1, <1>6, <2>1, <3>1, Sizes DEF LeftBehind, Nbrs
  <2>3. CASE ext[o][l] # {}
    <3>1. E \in FirstOf(ext[o][l], Total(l) - Cardinality(D))
      BY <1>7, <2>3 DEF Moved
    <3>2. Total(l) - Cardinality(D) \in Nat
      BY <1>1, <1>6, Sizes
    <3>3. /\ E \in SUBSET ext[o][l] /\ Cardinality(E) \in Nat
          /\ Cardinality(E) <= Total(l) - Cardinality(D)
      BY <1>3, <3>1, <3>2, FirstOfFacts
    <3>4. Total(l) \in Nat
      BY <1>1, Sizes
    <3> HIDE DEF l
    <3>5. Cardinality(D) + Cardinality(E) <= Total(l)
      BY <1>6, <3>3, <3>4
    <3> QED BY <3>3, <3>5 DEF Nbrs
  <2> QED BY <2>2, <2>3
<1>10. \A v \in dist[o][l] : \E w \in D : Dist[o][w] <= Dist[o][v]
  <2> TAKE v \in dist[o][l]
  <2>1. CASE Cardinality(dist[o][l]) < DistCap(l)
    <3>1. v \in D /\ Dist[o][v] \in Int
      BY <1>3, <1>4, <2>1, DistAssumption DEF Added
    <3> QED BY <3>1
  <2>2. CASE ~(Cardinality(dist[o][l]) < DistCap(l))
    <3>1. D \in Shrunk(o, dist[o][l] \cup {p}, DistCap(l))
      BY <1>4, <2>2 DEF Added
    <3>2. dist[o][l] \cup {p} \in SUBSET Points /\ v \in dist[o][l] \cup {p}
      BY <1>1, <1>3
    <3> QED BY <1>1, <1>3, <3>1, <3>2, Sizes, ShrunkKeepsClosest
  <2> QED BY <2>1, <2>2
<1>11. SetsZones(o, l, D, E)
  BY <1>6, <1>7, <1>8 DEF SetsZones
<1> QED BY <1>2, <1>3, <1>5, <1>8, <1>10, <1>11

\* The extending zone of the own point takes the others that fit.
LEMMA LinkExtEffect ==
  ASSUME TypeOK, ThreadsInv, SlotsSuffice, NEW t \in Threads, LinkExt(t)
  PROVE  \E E \in SUBSET (ext[pt[t]][level[t]] \cup others[t]) :
           /\ SetsZones(pt[t], level[t], dist[pt[t]][level[t]], E)
           /\ todo' = [todo EXCEPT ![t] = others[t]]
           /\ others' = [others EXCEPT ![t] = {}]
<1> DEFINE p == pt[t]
           l == level[t]
<1>1. /\ p \in Points /\ l \in Levels
      /\ dist \in [Points -> [Levels -> SUBSET Points]]
      /\ dist[p][l] \in SUBSET Points
      /\ ext[p][l] \cup others[t] \in SUBSET Points
  BY ThreadFacts DEF LinkExt, TypeOK, Linking
<1>2. PICK E \in KeepNearest(p, ext[p][l] \cup others[t],
                             Total(l) - Cardinality(dist[p][l])) :
        ext' = [ext EXCEPT ![p][l] = E]
  BY DEF LinkExt
<1>3. E \in SUBSET (ext[p][l] \cup others[t]) /\ Cardinality(E) \in Nat
  BY <1>1, <1>2, SelectionsAreSubsets, PointSetsAreFinite
<1>4. Cardinality(dist[p][l]) \in Nat /\ Cardinality(dist[p][l]) <= DistCap(l)
  BY <1>1, PointSetsAreFinite DEF SlotsSuffice
<1>5. Cardinality(dist[p][l]) + Cardinality(E) <= Total(l)
  <2>1. Total(l) - Cardinality(dist[p][l]) \in Nat
    BY <1>1, <1>4, Sizes
  <2>2. Cardinality(E) <= Total(l) - Cardinality(dist[p][l])
    BY <1>1, <1>2, <2>1, SelectionsAreBounded
  <2> QED BY <1>1, <1>3, <1>4, <2>2, Sizes
<1>6. dist' = [dist EXCEPT ![p][l] = dist[p][l]]
  <2>1. dist' = dist
    BY DEF LinkExt
  <2> QED BY <1>1, <2>1
<1>7. SetsZones(p, l, dist[p][l], E)
  BY <1>2, <1>4, <1>5, <1>6 DEF SetsZones
<1> QED BY <1>3, <1>7 DEF LinkExt

\* A reverse extending link takes only the thread's own point.
LEMMA ReverseExtEffect ==
  ASSUME TypeOK, ThreadsInv, SlotsSuffice, NEW t \in Threads, ReverseExt(t)
  PROVE  \E o \in todo[t] : o \in Points /\
           \E E \in SUBSET (ext[o][level[t]] \cup {pt[t]}) :
             /\ SetsZones(o, level[t], dist[o][level[t]], E)
             /\ todo' = [todo EXCEPT ![t] = todo[t] \ {o}]
<1> DEFINE p == pt[t]
           l == level[t]
<1>1. /\ p \in Points /\ l \in Levels /\ todo[t] \in SUBSET Points
      /\ dist \in [Points -> [Levels -> SUBSET Points]]
  BY ThreadFacts DEF ReverseExt, TypeOK, Linking
<1>2. PICK o \in Farthest(p, todo[t]) :
        /\ \E E \in Inserted(o, ext[o][l], p, Total(l) - Cardinality(dist[o][l]),
                              use_optimized_building) :
             ext' = [ext EXCEPT ![o][l] = E]
        /\ todo' = [todo EXCEPT ![t] = @ \ {o}]
  BY DEF ReverseExt
<1>3. /\ o \in todo[t] /\ o \in Points
      /\ dist[o][l] \in SUBSET Points /\ ext[o][l] \cup {p} \in SUBSET Points
  <2>1. o \in todo[t]
    BY <1>2, SelectionsAreSubsets
  <2> QED BY <1>1, <2>1 DEF TypeOK
<1>4. PICK E \in Inserted(o, ext[o][l], p, Total(l) - Cardinality(dist[o][l]),
                          use_optimized_building) :
        ext' = [ext EXCEPT ![o][l] = E]
  BY <1>2
<1>5. E \in SUBSET (ext[o][l] \cup {p}) /\ Cardinality(E) \in Nat
  <2>1. E \in SUBSET (ext[o][l] \cup {p})
    BY <1>4, SelectionsAreSubsets DEF FirstOf, Inserted
  <2> QED BY <1>3, <2>1, PointSetsAreFinite
<1>6. Cardinality(dist[o][l]) \in Nat /\ Cardinality(dist[o][l]) <= DistCap(l)
  BY <1>1, <1>3, PointSetsAreFinite DEF SlotsSuffice
<1>7. Cardinality(dist[o][l]) + Cardinality(E) <= Total(l)
  <2>1. Total(l) - Cardinality(dist[o][l]) \in Nat
    BY <1>1, <1>6, Sizes
  <2>2. Cardinality(E) <= Total(l) - Cardinality(dist[o][l])
    <3>1. CASE use_optimized_building
      <4>1. E \in FirstOf(ext[o][l] \cup {p}, Total(l) - Cardinality(dist[o][l]))
        BY <1>4, <3>1 DEF Inserted
      <4> QED BY <1>3, <2>1, <4>1, FirstOfFacts
    <3>2. CASE ~use_optimized_building
      <4>1. E \in KeepNearest(o, ext[o][l] \cup {p}, Total(l) - Cardinality(dist[o][l]))
        BY <1>4, <3>2 DEF Inserted
      <4> QED BY <1>3, <2>1, <4>1, SelectionsAreBounded
    <3> QED BY <3>1, <3>2
  <2> QED BY <1>1, <1>5, <1>6, <2>2, Sizes
<1>8. dist' = [dist EXCEPT ![o][l] = dist[o][l]]
  <2>1. dist' = dist
    BY DEF ReverseExt
  <2> QED BY <1>1, <1>3, <2>1
<1>9. SetsZones(o, l, dist[o][l], E)
  BY <1>4, <1>6, <1>7, <1>8 DEF SetsZones
<1> QED BY <1>2, <1>3, <1>5, <1>9

-----------------------------------------------------------------------------
(* Type correctness                                                         *)

\* The initial state is well typed.
LEMMA InitType == Init => TypeOK
<1> SUFFICES ASSUME Init PROVE TypeOK
  OBVIOUS
<1>1. 0 \in Levels
  BY LevelAssumption DEF Levels
<1> QED BY <1>1 DEF Init, TypeOK

\* a list update keeps the two functions in their set
LEMMA ZonesType ==
  ASSUME TypeOK, NEW x \in Points, NEW l \in Levels,
         NEW D \in SUBSET Points, NEW E \in SUBSET Points, SetsZones(x, l, D, E)
  PROVE  /\ dist' \in [Points -> [Levels -> SUBSET Points]]
         /\ ext' \in [Points -> [Levels -> SUBSET Points]]
BY DEF SetsZones, TypeOK

\* Steps keep the types; the invariant rules out levels out of range.
LEMMA TypeStep ==
  ASSUME TypeOK, ThreadsInv, PublishedInv, SlotsSuffice, [Next]_vars
  PROVE  TypeOK'
<1>1. CASE StartAdd
  BY <1>1 DEF StartAdd, TypeOK, graph, top, position, search
<1>2. CASE EndAdd
  BY <1>2 DEF EndAdd, TypeOK, graph, top, position, search
<1>3. CASE Throw
  BY <1>3 DEF Throw, TypeOK, graph, top, position, search
<1>4. CASE Reset
  BY <1>4 DEF Reset, TypeOK, position, search
<1>5. ASSUME NEW t \in Threads, Step(t) PROVE TypeOK'
  <2>1. CASE EnterFirst(t)
    <3>1. PICK p \in Points : /\ entry_point' = p /\ max_level' = Level[p]
                              /\ stage' = [stage EXCEPT ![p] = "linked"]
                              /\ pt' = [pt EXCEPT ![t] = p]
      BY <2>1 DEF EnterFirst
    <3>2. Level[p] \in Levels
      BY LevelAssumption
    <3> QED BY <2>1, <3>1, <3>2 DEF EnterFirst, TypeOK, graph, search, Ending
  <2>2. CASE Enter(t)
    BY <2>2 DEF Enter, TypeOK, graph, top, search
  <2>3. CASE LockAndReadLevel(t)
    BY <2>3, <1>5 DEF LockAndReadLevel, TypeOK, graph, top, adding, search, Inserting
  <2>4. CASE GreedyHop(t)
    <3>1. /\ level[t] \in Levels /\ nearest[t] \in Points
      BY <2>4, ThreadFacts DEF GreedyHop, Descending, Inserting
    <3>2. Closest(pt[t], Closer(t)) \subseteq Points
      <4>1. Closer(t) \subseteq Points
        BY <3>1 DEF Closer, TypeOK
      <4> QED BY <4>1, SelectionsAreSubsets
    <3> QED BY <2>4, <3>2 DEF GreedyHop, TypeOK, graph, top, adding, search
  <2>5. CASE GreedyDrop(t)
    <3>1. level[t] - 1 \in Levels
      BY <2>5, ThreadFacts DEF GreedyDrop
    <3> QED BY <2>5, <3>1 DEF GreedyDrop, TypeOK, graph, top, adding, search
  <2>6. CASE StartSearch(t)
    <3>1. nearest[t] \in Points
      BY <2>6, ThreadFacts DEF StartSearch, Inserting
    <3> QED BY <2>6, <3>1 DEF StartSearch, TypeOK, graph, top, adding, position,
                              Inserting
  <2>7. CASE Expand(t)
    <3>1. Closest(pt[t], candidates[t]) \subseteq Points
      BY DEF Closest, TypeOK
    <3>2. building'[t] \in BOOLEAN /\ building' \in [Threads -> BOOLEAN]
      BY <2>7 DEF Expand, Beyond, TypeOK
    <3> QED BY <2>7, <3>1, <3>2 DEF Expand, TypeOK, graph, top, adding, position,
                                    Inserting
  <2>8. CASE Scan(t)
    <3>1. PICK v \in Readable(t) \ visited[t] :
            /\ visited' = [visited EXCEPT ![t] = @ \cup {v}]
            /\ ScanDist(t, v) \/ ScanExt(t, v) \/ ScanSkip(t, v)
      BY <2>8 DEF Scan
    <3>2. v \in Points
      <4>1. cur[t] \in Points /\ level[t] \in Levels
        BY <2>8, ThreadFacts DEF Scan, ThreadsInv, ThreadOk, TypeOK
      <4> QED BY <4>1 DEF Readable, Nbrs, TypeOK
    <3>3. visited' \in [Threads -> SUBSET Points]
      BY <3>1, <3>2 DEF TypeOK
    <3>4. /\ found' \in [Threads -> SUBSET Points]
          /\ others' \in [Threads -> SUBSET Points]
          /\ candidates' \in [Threads -> SUBSET Points]
      <4>1. CASE ScanDist(t, v)
        BY <3>2, <4>1, SelectionsAreSubsets DEF ScanDist, TypeOK
      <4>2. CASE ScanExt(t, v)
        <5>1. others' \in [Threads -> SUBSET Points]
          <6>1. \E S \in SUBSET (others[t] \cup {v}) :
                  others' = [others EXCEPT ![t] = S]
            BY <4>2 DEF ScanExt, TypeOK
          <6> QED BY <3>2, <6>1 DEF TypeOK
        <5> QED BY <3>2, <4>2, <5>1 DEF ScanExt, TypeOK
      <4>3. CASE ScanSkip(t, v)
        BY <4>3 DEF ScanSkip, TypeOK
      <4> QED BY <3>1, <4>1, <4>2, <4>3
    <3> QED BY <2>8, <3>3, <3>4 DEF Scan, TypeOK, graph, top, adding, position
  <2>9. CASE EndScan(t)
    BY <2>9 DEF EndScan, TypeOK, graph, top, adding, position, Inserting
  <2>10. CASE LinkDist(t)
    <3>1. PICK D \in SUBSET found[t] :
           /\ SetsZones(pt[t], level[t], D, {})
           /\ todo' = [todo EXCEPT ![t] = D]
           /\ others' = [others EXCEPT ![t] = others[t] \cup (found[t] \ D)]
      BY <2>10, LinkDistEffect
    <3>2. pt[t] \in Points /\ level[t] \in Levels /\ D \in SUBSET Points
      BY <2>10, <3>1, ThreadFacts DEF LinkDist, SearchOver, TypeOK
    <3>3. /\ dist' \in [Points -> [Levels -> SUBSET Points]]
          /\ ext' \in [Points -> [Levels -> SUBSET Points]]
      BY <3>1, <3>2 DEF SetsZones, TypeOK
    <3>4. /\ todo' \in [Threads -> SUBSET Points]
          /\ others' \in [Threads -> SUBSET Points]
      BY <3>1, <3>2 DEF TypeOK
    <3> QED BY <2>10, <3>3, <3>4 DEF LinkDist, TypeOK, top, adding, position,
                                     Inserting, Linking
  <2>11. CASE ReverseDist(t)
    <3>1. PICK o \in todo[t] : o \in Points /\
           \E D \in SUBSET (dist[o][level[t]] \cup {pt[t]}),
              E \in SUBSET Nbrs(o, level[t]) :
             /\ SetsZones(o, level[t], D, E)
             /\ todo' = [todo EXCEPT ![t] = todo[t] \ {o}]
      BY <2>11, ReverseDistEffect
    <3>2. pt[t] \in Points /\ level[t] \in Levels
      BY <2>11, ThreadFacts DEF ReverseDist, Linking
    <3>3. dist[o][level[t]] \in SUBSET Points /\ ext[o][level[t]] \in SUBSET Points
      BY <3>1, <3>2 DEF TypeOK
    <3>4. /\ dist' \in [Points -> [Levels -> SUBSET Points]]
          /\ ext' \in [Points -> [Levels -> SUBSET Points]]
      <4>1. PICK D \in SUBSET (dist[o][level[t]] \cup {pt[t]}),
                 E \in SUBSET Nbrs(o, level[t]) : SetsZones(o, level[t], D, E)
        BY <3>1
      <4>2. D \in SUBSET Points /\ E \in SUBSET Points
        BY <3>2, <3>3 DEF Nbrs
      <4> QED BY <3>1, <3>2, <4>1, <4>2, ZonesType
    <3>5. todo' \in [Threads -> SUBSET Points]
      BY <3>1 DEF TypeOK
    <3> QED BY <2>11, <3>4, <3>5 DEF ReverseDist, TypeOK, top, adding, position, search
  <2>12. CASE LinkExt(t)
    <3>1. PICK E \in SUBSET (ext[pt[t]][level[t]] \cup others[t]) :
           /\ SetsZones(pt[t], level[t], dist[pt[t]][level[t]], E)
           /\ todo' = [todo EXCEPT ![t] = others[t]]
           /\ others' = [others EXCEPT ![t] = {}]
      BY <2>12, LinkExtEffect
    <3>2. pt[t] \in Points /\ level[t] \in Levels
      BY <2>12, ThreadFacts DEF LinkExt, Linking
    <3>3. /\ dist[pt[t]][level[t]] \in SUBSET Points
          /\ E \in SUBSET Points
      BY <3>1, <3>2 DEF TypeOK
    <3>4. /\ dist' \in [Points -> [Levels -> SUBSET Points]]
          /\ ext' \in [Points -> [Levels -> SUBSET Points]]
      BY <3>1, <3>2, <3>3, ZonesType
    <3>5. /\ todo' \in [Threads -> SUBSET Points]
          /\ others' \in [Threads -> SUBSET Points]
      BY <3>1 DEF TypeOK
    <3> QED BY <2>12, <3>4, <3>5 DEF LinkExt, TypeOK, top, adding, position,
                                     Inserting, Linking
  <2>13. CASE ReverseExt(t)
    <3>1. PICK o \in todo[t] : o \in Points /\
           \E E \in SUBSET (ext[o][level[t]] \cup {pt[t]}) :
             /\ SetsZones(o, level[t], dist[o][level[t]], E)
             /\ todo' = [todo EXCEPT ![t] = todo[t] \ {o}]
      BY <2>13, ReverseExtEffect
    <3>2. pt[t] \in Points /\ level[t] \in Levels
      BY <2>13, ThreadFacts DEF ReverseExt, Linking
    <3>3. dist[o][level[t]] \in SUBSET Points /\ ext[o][level[t]] \in SUBSET Points
      BY <3>1, <3>2 DEF TypeOK
    <3>4. /\ dist' \in [Points -> [Levels -> SUBSET Points]]
          /\ ext' \in [Points -> [Levels -> SUBSET Points]]
      BY <3>1, <3>2, <3>3 DEF SetsZones, TypeOK
    <3>5. todo' \in [Threads -> SUBSET Points]
      BY <3>1 DEF TypeOK
    <3> QED BY <2>13, <3>4, <3>5 DEF ReverseExt, TypeOK, top, adding, position, search
  <2>14. CASE NextLevel(t)
    <3>1. level[t] - 1 \in Levels \cup {-1}
      BY <2>14, ThreadFacts DEF NextLevel, Linking
    <3> QED BY <2>14, <3>1 DEF NextLevel, TypeOK, graph, top, adding, search, Inserting
  <2>15. CASE Unlock(t)
    BY <2>15 DEF Unlock, TypeOK, graph, top, position, search, Ending
  <2>16. CASE CheckTop(t)
    BY <2>16 DEF CheckTop, TypeOK, graph, top, adding, position, search, Ending
  <2>17. CASE RaiseLevel(t)
    <3>1. Level[pt[t]] \in Levels
      BY <2>17, ThreadFacts DEF RaiseLevel
    <3> QED BY <2>17, <3>1 DEF RaiseLevel, TypeOK, graph, adding, position, search,
                               Ending
  <2>18. CASE RaiseEntry(t)
    BY <2>18 DEF RaiseEntry, TypeOK, graph, adding, position, search, Ending
  <2>19. CASE Finish(t)
    <3>1. 0 \in Levels
      BY LevelAssumption DEF Levels
    <3> QED BY <2>19, <3>1 DEF Finish, TypeOK, graph, top
  <2> QED BY <1>5, <2>1, <2>2, <2>3, <2>4, <2>5, <2>6, <2>7, <2>8, <2>9, <2>10, <2>11,
             <2>12, <2>13, <2>14, <2>15, <2>16, <2>17, <2>18, <2>19
             DEF Step, SearchStep, LinkStep
<1>6. CASE UNCHANGED vars
  BY <1>6 DEF vars, TypeOK, graph, top, adding, position, search
<1> QED BY <1>1, <1>2, <1>3, <1>4, <1>5, <1>6 DEF Next

-----------------------------------------------------------------------------
(* Steps of one thread leave the others' registers alone                    *)

Registers(u) == <<pc[u], pt[u], nearest[u], level[u], visited[u], candidates[u],
                  cur[u], building[u], found[u], others[u], todo[u]>>

\* A thread's step leaves the registers of the other threads alone.
LEMMA OtherThreads ==
  ASSUME TypeOK, NEW t \in Threads, NEW u \in Threads, u # t, Step(t)
  PROVE  UNCHANGED Registers(u)
<1> USE DEF Registers, TypeOK, position, search
<1>1. CASE EnterFirst(t) \/ Enter(t) \/ LockAndReadLevel(t)
  BY <1>1 DEF EnterFirst, Enter, LockAndReadLevel
<1>2. CASE GreedyHop(t) \/ GreedyDrop(t)
  BY <1>2 DEF GreedyHop, GreedyDrop
<1>3. CASE StartSearch(t) \/ Expand(t) \/ EndScan(t)
  BY <1>3 DEF StartSearch, Expand, EndScan
<1>4. CASE Scan(t)
  BY <1>4 DEF Scan, ScanDist, ScanExt, ScanSkip
<1>5. CASE LinkDist(t)
  BY <1>5 DEF LinkDist
<1>6. CASE ReverseDist(t) \/ LinkExt(t) \/ ReverseExt(t) \/ NextLevel(t)
  BY <1>6 DEF ReverseDist, LinkExt, ReverseExt, NextLevel
<1>7. CASE Unlock(t) \/ CheckTop(t) \/ RaiseLevel(t) \/ RaiseEntry(t) \/ Finish(t)
  BY <1>7 DEF Unlock, CheckTop, RaiseLevel, RaiseEntry, Finish
<1> QED BY <1>1, <1>2, <1>3, <1>4, <1>5, <1>6, <1>7 DEF Step, SearchStep, LinkStep

\* Points in the graph stay there; only a thread's own point stops running.
LEMMA StageStep ==
  ASSUME TypeOK, ThreadsInv, NEW t \in Threads, Step(t), NEW x \in Points
  PROVE  /\ stage[x] = "linked" => stage'[x] = "linked"
         /\ stage[x] = "running" /\ x # pt[t] => stage'[x] = "running"
<1> USE DEF TypeOK, adding
<1>1. CASE EnterFirst(t) \/ Enter(t)
  BY <1>1 DEF EnterFirst, Enter, MayRun, Queued
<1>2. CASE LockAndReadLevel(t) \/ GreedyHop(t) \/ GreedyDrop(t)
  BY <1>2 DEF LockAndReadLevel, GreedyHop, GreedyDrop
<1>3. CASE SearchStep(t)
  BY <1>3 DEF SearchStep, StartSearch, Expand, Scan, EndScan
<1>4. CASE LinkStep(t)
  BY <1>4 DEF LinkStep, LinkDist, ReverseDist, LinkExt, ReverseExt, NextLevel
<1>5. CASE Unlock(t)
  BY <1>5 DEF Unlock
<1>6. CASE CheckTop(t) \/ RaiseLevel(t) \/ RaiseEntry(t) \/ Finish(t)
  BY <1>6 DEF CheckTop, RaiseLevel, RaiseEntry, Finish
<1> QED BY <1>1, <1>2, <1>3, <1>4, <1>5, <1>6 DEF Step

\* The other threads stay where they may be: points never cease to be linked.
LEMMA OtherThreadsOk ==
  ASSUME TypeOK, ThreadsInv, NEW t \in Threads, NEW u \in Threads, u # t, Step(t)
  PROVE  ThreadOk(u)'
<1>1. UNCHANGED Registers(u)
  BY OtherThreads
<1>2. pc[u] # "idle" => pt[u] \in Points
  BY ThreadFacts
<1>3. pc[u] # "idle" => pt[u] # pt[t]
  BY <1>2, NullAssumption DEF ThreadsInv, ThreadOk
<1>4. \A x \in Points : /\ stage[x] = "linked" => stage'[x] = "linked"
                        /\ stage[x] = "running" /\ x # pt[t] => stage'[x] = "running"
  BY StageStep
<1>5. ThreadOk(u)
  BY DEF ThreadsInv
<1>6. /\ pc[u] \in Inserting \cup {"lock"} =>
            stage'[pt[u]] = "running" /\ stage'[nearest[u]] = "linked"
      /\ pc[u] \in Ending => stage'[pt[u]] = "linked"
  BY <1>2, <1>3, <1>4, <1>5 DEF ThreadOk, Inserting, Linking, Ending
<1> QED BY <1>1, <1>5, <1>6 DEF Registers, ThreadOk

\* A thread's step leaves it where it may be.
LEMMA OwnThreadOk ==
  ASSUME TypeOK, ThreadsInv, BatchInv, PublishedInv, SlotsSuffice,
         NEW t \in Threads, Step(t)
  PROVE  ThreadOk(t)'
<1> USE DEF Inserting, Linking, Ending
<1>0. ThreadOk(t)
  BY DEF ThreadsInv
<1>a. \A x \in Points : /\ stage[x] = "linked" => stage'[x] = "linked"
                        /\ stage[x] = "running" /\ x # pt[t] => stage'[x] = "running"
  BY StageStep
<1>1. CASE EnterFirst(t)
  BY <1>0, <1>1, NullAssumption DEF EnterFirst, search, ThreadOk, TypeOK
<1>2. CASE Enter(t)
  <2>1. PICK p \in Points : /\ MayRun(p)
                            /\ stage' = [stage EXCEPT ![p] = "running"]
                            /\ pt' = [pt EXCEPT ![t] = p]
    BY <1>2 DEF Enter
  <2>2. entry_point \in Points /\ stage[entry_point] = "linked" /\ entry_point # p
    BY <1>2, <2>1 DEF Enter, TypeOK, BatchInv, TopInv, MayRun, Queued
  <2> QED BY <1>0, <1>2, <2>1, <2>2, NullAssumption DEF Enter, search, ThreadOk, TypeOK
<1>3. CASE LockAndReadLevel(t)
  BY <1>0, <1>3 DEF LockAndReadLevel, search, adding, ThreadOk, TypeOK
<1>4. CASE GreedyHop(t)
  <2>1. PICK v \in Closest(pt[t], Closer(t)) : nearest' = [nearest EXCEPT ![t] = v]
    BY <1>4 DEF GreedyHop
  <2>2. /\ nearest[t] \in Points /\ level[t] \in Levels /\ v \in dist[nearest[t]][level[t]]
    BY <1>4, <2>1, ThreadFacts DEF GreedyHop, Descending, Closest, Closer
  <2>3. v \in Points /\ v \in Nbrs(nearest[t], level[t])
    BY <2>2 DEF TypeOK, Nbrs
  <2>4. Published(v, level[t])
    BY <2>2, <2>3 DEF PublishedInv
  <2>5. stage[v] = "linked"
    <3>1. ASSUME NEW u \in Threads, pt[u] = v, pc[u] \in Inserting, level[t] <= Level[v]
          PROVE  FALSE
      <4>1. Level[v] = Level[pt[t]]
        BY <1>4, <3>1 DEF ThreadsInv, GreedyHop, Descending
      <4>2. Level[pt[t]] < level[t] /\ level[t] \in Int /\ Level[pt[t]] \in Int
        <5>1. pt[t] \in Points
          BY <1>4, ThreadFacts DEF GreedyHop, Descending
        <5> QED BY <1>4, <2>2, <5>1, LevelAssumption DEF GreedyHop, Descending, Levels
      <4> QED BY <3>1, <4>1, <4>2
    <3> QED BY <2>4, <3>1 DEF Published
  <2> QED BY <1>0, <1>4, <2>1, <2>3, <2>5 DEF GreedyHop, Descending, search, adding,
                                              ThreadOk, TypeOK
<1>5. CASE GreedyDrop(t)
  BY <1>0, <1>5 DEF GreedyDrop, Descending, search, adding, ThreadOk, TypeOK
<1>6. CASE StartSearch(t)
  BY <1>0, <1>6 DEF StartSearch, position, adding, ThreadOk, TypeOK
<1>7. CASE Expand(t)
  <2>1. PICK c \in Points : cur' = [cur EXCEPT ![t] = c]
    BY <1>7 DEF Expand, Closest, TypeOK
  <2> QED BY <1>0, <1>7, <2>1, NullAssumption DEF Expand, position, adding, ThreadOk, TypeOK
<1>8. CASE Scan(t)
  <2>1. pc[t] = "scan" /\ UNCHANGED <<pc, pt, nearest, level, cur, stage, todo>>
    BY <1>8 DEF Scan, position, adding
  <2> QED BY <1>0, <2>1 DEF ThreadOk
<1>9. CASE EndScan(t)
  BY <1>0, <1>9 DEF EndScan, position, adding, ThreadOk, TypeOK
<1>10. CASE LinkDist(t)
  <2>1. /\ pc[t] = "pop" /\ pc'[t] = "revDist" /\ found'[t] = {} /\ candidates'[t] = {}
        /\ UNCHANGED <<pt, nearest, level, cur, stage>>
    BY <1>10 DEF LinkDist, SearchOver, position, adding, TypeOK
  <2> QED BY <1>0, <2>1 DEF ThreadOk
<1>11. CASE ReverseDist(t)
  <2>1. /\ pc[t] = "revDist" /\ UNCHANGED <<pc, pt, nearest, level, cur, stage>>
        /\ UNCHANGED <<found, candidates, others>>
    BY <1>11 DEF ReverseDist, position, adding, search
  <2> QED BY <1>0, <2>1 DEF ThreadOk
<1>12. CASE LinkExt(t)
  <2>1. /\ pc[t] = "revDist" /\ pc'[t] = "revExt" /\ others'[t] = {}
        /\ UNCHANGED <<pt, nearest, level, cur, stage, found, candidates>>
    BY <1>12 DEF LinkExt, position, adding, TypeOK
  <2> QED BY <1>0, <2>1 DEF ThreadOk
<1>13. CASE ReverseExt(t)
  <2>1. /\ pc[t] = "revExt" /\ UNCHANGED <<pc, pt, nearest, level, cur, stage>>
        /\ UNCHANGED <<found, candidates, others>>
    BY <1>13 DEF ReverseExt, position, adding, search
  <2> QED BY <1>0, <2>1 DEF ThreadOk
<1>14. CASE NextLevel(t)
  BY <1>0, <1>14 DEF NextLevel, search, adding, ThreadOk, TypeOK
<1>15. CASE Unlock(t)
  <2>1. pt[t] \in Points
    BY <1>15, ThreadFacts DEF Unlock
  <2> QED BY <1>0, <1>15, <2>1 DEF Unlock, position, search, ThreadOk, TypeOK
<1>16. CASE CheckTop(t) \/ RaiseLevel(t) \/ RaiseEntry(t)
  BY <1>0, <1>16 DEF CheckTop, RaiseLevel, RaiseEntry, position, search, adding,
                     ThreadOk, TypeOK
<1>17. CASE Finish(t)
  BY <1>0, <1>17 DEF Finish, ThreadOk, TypeOK
<1> QED BY <1>1, <1>2, <1>3, <1>4, <1>5, <1>6, <1>7, <1>8, <1>9, <1>10, <1>11, <1>12,
           <1>13, <1>14, <1>15, <1>16, <1>17 DEF Step, SearchStep, LinkStep

\* Threads keep points of their own, of one level.
LEMMA ThreadsStep ==
  ASSUME TypeOK, ThreadsInv, BatchInv, PublishedInv, SlotsSuffice, [Next]_vars
  PROVE  ThreadsInv'
<1>1. CASE StartAdd \/ EndAdd \/ Throw \/ Reset
  <2>1. AllIdle /\ UNCHANGED <<lock, pc, position, search, todo>>
    BY <1>1 DEF StartAdd, EndAdd, Throw, Reset, BatchInv, StagesInv
  <2> QED BY <2>1 DEF ThreadsInv, ThreadOk, AllIdle, position, search, Inserting, Linking,
                      Ending
<1>2. ASSUME NEW t \in Threads, Step(t) PROVE ThreadsInv'
  <2>1. \A u \in Threads : ThreadOk(u)'
    BY <1>2, OwnThreadOk, OtherThreadsOk
  <2>2. \A u \in Threads : u # t => pc'[u] = pc[u] /\ pt'[u] = pt[u]
    BY <1>2, OtherThreads DEF Registers
  <2>3. ASSUME NEW u \in Threads, u # t, pc'[t] # "idle", pc[u] # "idle"
        PROVE  pt'[t] # pt[u] /\ Level[pt'[t]] = Level[pt[u]]
    <3>1. CASE EnterFirst(t) \/ Enter(t)
      <4>1. PICK p \in Points : MayRun(p) /\ pt' = [pt EXCEPT ![t] = p]
        BY <3>1 DEF EnterFirst, Enter
      <4>2. pt'[t] = p /\ stage[p] = "queued" /\ Level[pt[u]] = Level[p]
        BY <2>3, <4>1 DEF MayRun, Queued, TypeOK
      <4>3. stage[pt[u]] # "queued"
        BY <2>3, SMTT(30) DEF ThreadsInv, ThreadOk, TypeOK
      <4> QED BY <4>2, <4>3
    <3>2. CASE ~(EnterFirst(t) \/ Enter(t))
      <4>1. pc[t] # "idle" /\ pt'[t] = pt[t]
        <5>1. ~Finish(t)
          BY <2>3 DEF Finish, TypeOK
        <5>2. CASE LockAndReadLevel(t) \/ GreedyHop(t) \/ GreedyDrop(t) \/ SearchStep(t)
          BY <5>2 DEF LockAndReadLevel, GreedyHop, GreedyDrop, SearchStep, StartSearch,
                      Expand, Scan, EndScan, Descending, position
        <5>3. CASE LinkStep(t)
          BY <5>3 DEF LinkStep, LinkDist, ReverseDist, LinkExt, ReverseExt, NextLevel,
                      SearchOver, position
        <5>4. CASE Unlock(t) \/ CheckTop(t) \/ RaiseLevel(t) \/ RaiseEntry(t)
          BY <5>4 DEF Unlock, CheckTop, RaiseLevel, RaiseEntry, position
        <5> QED BY <1>2, <3>2, <5>1, <5>2, <5>3, <5>4 DEF Step
      <4> QED BY <2>3, <4>1 DEF ThreadsInv
    <3> QED BY <3>1, <3>2
  <2> QED BY <2>1, <2>2, <2>3 DEF ThreadsInv
<1>3. CASE UNCHANGED vars
  BY <1>3 DEF vars, graph, top, adding, position, search, ThreadsInv, ThreadOk
<1> QED BY <1>1, <1>2, <1>3 DEF Next

-----------------------------------------------------------------------------
(* Publication: who is linked where                                         *)

\* Once a point is published at a level it stays so, until reset().
LEMMA PublishedStays ==
  ASSUME TypeOK, ThreadsInv, NEW t \in Threads, Step(t),
         NEW x \in Points, NEW l \in Levels, Published(x, l)
  PROVE  Published(x, l)'
<1>1. CASE stage[x] = "linked"
  BY <1>1, StageStep DEF Published
<1>2. CASE stage[x] # "linked"
  <2>1. PICK u \in Threads : /\ l <= Level[x] /\ pt[u] = x /\ pc[u] \in Inserting
                             /\ level[u] < l \/ (level[u] = l /\ pc[u] \in Linking)
    BY <1>2 DEF Published
  <2>2. CASE u # t
    BY <2>1, <2>2, OtherThreads DEF Registers, Published
  <2>3. CASE u = t
    <3>1. level[t] \in Int /\ l \in Int
      BY LevelAssumption DEF TypeOK, Levels
    <3>2. CASE Unlock(t)
      BY <2>1, <2>3, <3>2 DEF Unlock, Published, TypeOK
    <3>3. CASE ~Unlock(t)
      <4>1. /\ pt'[t] = x /\ pc'[t] \in Inserting
            /\ level'[t] < l \/ (level'[t] = l /\ pc'[t] \in Linking)
        <5>1. CASE GreedyHop(t) \/ GreedyDrop(t)
          BY <2>1, <2>3, <3>1, <5>1 DEF GreedyHop, GreedyDrop, Descending, TypeOK, Linking,
                                        Inserting
        <5>2. CASE SearchStep(t)
          BY <2>1, <2>3, <3>1, <5>2 DEF SearchStep, StartSearch, Expand, Scan, EndScan,
                                        position, TypeOK, Linking, Inserting
        <5>3. CASE LinkStep(t)
          BY <2>1, <2>3, <3>1, <5>3 DEF LinkStep, LinkDist, ReverseDist, LinkExt, ReverseExt,
                             NextLevel, SearchOver, position, TypeOK, Linking, Inserting
        <5>4. ~(\/ EnterFirst(t) \/ Enter(t) \/ LockAndReadLevel(t)
                \/ CheckTop(t) \/ RaiseLevel(t) \/ RaiseEntry(t) \/ Finish(t))
          BY <2>1, <2>3 DEF EnterFirst, Enter, LockAndReadLevel, CheckTop, RaiseLevel,
                            RaiseEntry, Finish, Inserting, Linking
        <5> QED BY <3>3, <5>1, <5>2, <5>3, <5>4 DEF Step
      <4> QED BY <2>1, <4>1 DEF Published
    <3> QED BY <3>2, <3>3
  <2> QED BY <2>2, <2>3
<1> QED BY <1>1, <1>2

\* Only two kinds of links are ever written: from the thread's own point to
\* what its search collected, and back from a target to the own point.
WritesOwn(t, x, l) ==
  x = pt[t] /\ Nbrs(x, l)' \subseteq Nbrs(x, l) \cup found[t] \cup others[t]
WritesBack(t, x, l) ==
  x \in todo[t] /\ pc[t] \in Linking /\ Nbrs(x, l)' \subseteq Nbrs(x, l) \cup {pt[t]}

\* The lists that one step of a thread changes, and how.
LEMMA ListStep ==
  ASSUME TypeOK, ThreadsInv, PublishedInv, SlotsSuffice,
         NEW t \in Threads, Step(t), NEW x \in Points, NEW l \in Levels
  PROVE  \/ Nbrs(x, l)' = Nbrs(x, l)
         \/ /\ l = level[t] /\ pc[t] \in {"pop"} \cup Linking /\ pc'[t] \in Linking
            /\ pt' = pt /\ level' = level
            /\ WritesOwn(t, x, l) \/ WritesBack(t, x, l)
<1> USE DEF Nbrs
<1>1. CASE LinkDist(t)
  <2>1. PICK D \in SUBSET found[t] : SetsZones(pt[t], level[t], D, {})
    BY <1>1, LinkDistEffect
  <2>2. CASE x = pt[t] /\ l = level[t]
    BY <1>1, <2>1, <2>2 DEF LinkDist, SearchOver, SetsZones, WritesOwn, TypeOK, position,
                            Linking
  <2>3. CASE ~(x = pt[t] /\ l = level[t])
    BY <2>1, <2>3 DEF SetsZones, TypeOK
  <2> QED BY <2>2, <2>3
<1>2. CASE ReverseDist(t)
  <2>1. PICK o \in todo[t] : o \in Points /\
           \E D \in SUBSET (dist[o][level[t]] \cup {pt[t]}),
              E \in SUBSET Nbrs(o, level[t]) : SetsZones(o, level[t], D, E)
    BY <1>2, ReverseDistEffect
  <2>2. CASE x = o /\ l = level[t]
    BY <1>2, <2>1, <2>2 DEF ReverseDist, SetsZones, WritesBack, TypeOK, position, Linking
  <2>3. CASE ~(x = o /\ l = level[t])
    BY <2>1, <2>3 DEF SetsZones, TypeOK
  <2> QED BY <2>2, <2>3
<1>3. CASE LinkExt(t)
  <2>1. PICK E \in SUBSET (ext[pt[t]][level[t]] \cup others[t]) :
          SetsZones(pt[t], level[t], dist[pt[t]][level[t]], E)
    BY <1>3, LinkExtEffect
  <2>2. CASE x = pt[t] /\ l = level[t]
    BY <1>3, <2>1, <2>2 DEF LinkExt, SetsZones, WritesOwn, TypeOK, position, Linking
  <2>3. CASE ~(x = pt[t] /\ l = level[t])
    BY <2>1, <2>3 DEF SetsZones, TypeOK
  <2> QED BY <2>2, <2>3
<1>4. CASE ReverseExt(t)
  <2>1. PICK o \in todo[t] : o \in Points /\
           \E E \in SUBSET (ext[o][level[t]] \cup {pt[t]}) :
             SetsZones(o, level[t], dist[o][level[t]], E)
    BY <1>4, ReverseExtEffect
  <2>2. CASE x = o /\ l = level[t]
    BY <1>4, <2>1, <2>2 DEF ReverseExt, SetsZones, WritesBack, TypeOK, position, Linking
  <2>3. CASE ~(x = o /\ l = level[t])
    BY <2>1, <2>3 DEF SetsZones, TypeOK
  <2> QED BY <2>2, <2>3
<1>5. CASE ~(LinkDist(t) \/ ReverseDist(t) \/ LinkExt(t) \/ ReverseExt(t))
  <2>1. UNCHANGED graph
    <3>1. CASE SearchStep(t) \/ NextLevel(t)
      BY <3>1 DEF SearchStep, StartSearch, Expand, Scan, EndScan, NextLevel
    <3>2. CASE \/ EnterFirst(t) \/ Enter(t) \/ LockAndReadLevel(t)
               \/ GreedyHop(t) \/ GreedyDrop(t)
      BY <3>2 DEF EnterFirst, Enter, LockAndReadLevel, GreedyHop, GreedyDrop
    <3>3. CASE Unlock(t) \/ CheckTop(t) \/ RaiseLevel(t) \/ RaiseEntry(t) \/ Finish(t)
      BY <3>3 DEF Unlock, CheckTop, RaiseLevel, RaiseEntry, Finish
    <3> QED BY <1>5, <3>1, <3>2, <3>3 DEF Step, LinkStep
  <2> QED BY <2>1 DEF graph
<1> QED BY <1>1, <1>2, <1>3, <1>4, <1>5

\* What a thread holds comes from its entry or from a list it scans.
LEMMA HeldStep ==
  ASSUME TypeOK, ThreadsInv, ThreadsInv', PublishedInv, SlotsSuffice,
         NEW t \in Threads, Step(t), pc'[t] \in Inserting, NEW v \in Held(t)'
  PROVE  /\ pc[t] \in Inserting /\ pt'[t] = pt[t] /\ level'[t] = level[t]
         /\ \/ v \in Held(t)
            \/ pc[t] = "level" /\ v = nearest[t]
            \/ pc[t] = "scan" /\ v \in Nbrs(cur[t], level[t])
<1> USE DEF Held, Pending
<1>0. pc'[t] # "level"
  BY DEF ThreadsInv, ThreadOk, Linking
<1>1. CASE StartSearch(t)
  BY <1>0, <1>1 DEF StartSearch, position, TypeOK, Inserting
<1>2. CASE Expand(t)
  <2>1. PICK c \in candidates[t] : /\ candidates' = [candidates EXCEPT ![t] = @ \ {c}]
                                   /\ cur' = [cur EXCEPT ![t] = c]
    BY <1>2 DEF Expand, Closest
  <2> QED BY <1>2, <2>1 DEF Expand, position, TypeOK, Inserting
<1>3. CASE Scan(t)
  <2>1. PICK w \in Readable(t) \ visited[t] : ScanDist(t, w) \/ ScanExt(t, w) \/ ScanSkip(t, w)
    BY <1>3 DEF Scan
  <2>2. w \in Nbrs(cur[t], level[t])
    BY <2>1 DEF Readable, Nbrs
  <2>3. /\ found'[t] \subseteq found[t] \cup {w}
        /\ others'[t] \subseteq others[t] \cup found[t] \cup {w}
        /\ candidates'[t] \subseteq candidates[t] \cup {w}
    <3>1. CASE ScanDist(t, w)
      BY <3>1, SelectionsAreSubsets DEF ScanDist, TypeOK
    <3>2. CASE ScanExt(t, w)
      BY <3>2 DEF ScanExt, TypeOK
    <3>3. CASE ScanSkip(t, w)
      BY <3>3 DEF ScanSkip
    <3> QED BY <2>1, <3>1, <3>2, <3>3
  <2> QED BY <1>3, <2>2, <2>3 DEF Scan, position, Inserting
<1>4. CASE EndScan(t)
  BY <1>4 DEF EndScan, position, TypeOK, Inserting
<1>5. CASE LinkDist(t)
  <2>1. PICK D \in SUBSET found[t] :
           /\ todo' = [todo EXCEPT ![t] = D]
           /\ others' = [others EXCEPT ![t] = others[t] \cup (found[t] \ D)]
    BY <1>5, LinkDistEffect
  <2> QED BY <1>5, <2>1 DEF LinkDist, SearchOver, position, TypeOK, Inserting
<1>6. CASE ReverseDist(t)
  BY <1>6 DEF ReverseDist, position, search, TypeOK, Inserting, Linking
<1>7. CASE LinkExt(t)
  BY <1>7 DEF LinkExt, position, TypeOK, Inserting, Linking
<1>8. CASE ReverseExt(t)
  BY <1>8 DEF ReverseExt, position, search, TypeOK, Inserting, Linking
<1>9. ~(\/ EnterFirst(t) \/ Enter(t) \/ LockAndReadLevel(t) \/ GreedyHop(t) \/ GreedyDrop(t)
        \/ NextLevel(t) \/ Unlock(t) \/ CheckTop(t) \/ RaiseLevel(t) \/ RaiseEntry(t)
        \/ Finish(t))
  BY <1>0, ZenonT(40)
          DEF EnterFirst, Enter, LockAndReadLevel, GreedyHop, GreedyDrop, Descending,
              NextLevel, Unlock, CheckTop, RaiseLevel, RaiseEntry, Finish, TypeOK, Inserting,
              Linking
<1> QED BY <1>1, <1>2, <1>3, <1>4, <1>5, <1>6, <1>7, <1>8, <1>9
        DEF Step, SearchStep, LinkStep

\* Lists and searches go on holding published points only.
LEMMA PublishedStep ==
  ASSUME IInv, [Next]_vars, ThreadsInv'
  PROVE  PublishedInv'
<1>0. TypeOK /\ ThreadsInv /\ BatchInv /\ PublishedInv /\ SlotsSuffice
  BY DEF IInv
<1>1. CASE StartAdd \/ EndAdd \/ Throw
  <2>1. /\ UNCHANGED <<graph, pc, position, search, todo>>
        /\ \A x \in Points : stage[x] = "linked" => stage'[x] = "linked"
    BY <1>0, <1>1 DEF StartAdd, EndAdd, Throw, Queued, TypeOK
  <2>2. \A x \in Points, l \in Levels : Published(x, l) => Published(x, l)'
    BY <2>1 DEF Published, position
  <2>3. \A x \in Points, l \in Levels : Nbrs(x, l)' = Nbrs(x, l) /\ Nbrs(x, l) \subseteq Points
    BY <1>0, <2>1 DEF Nbrs, graph, TypeOK
  <2>4. \A x \in Points, l \in Levels : /\ Published(x, l)' \/ Nbrs(x, l)' = {}
                                        /\ \A v \in Nbrs(x, l)' : Published(v, l)'
    BY <1>0, <2>2, <2>3 DEF PublishedInv
  <2>5. \A t \in Threads : pc'[t] \notin Inserting
    BY <1>0, <1>1 DEF StartAdd, EndAdd, Throw, BatchInv, StagesInv, AllIdle, Inserting, Linking
  <2> QED BY <2>4, <2>5 DEF PublishedInv
<1>2. CASE Reset
  <2>1. \A t \in Threads : pc'[t] = "idle"
    BY <1>0, <1>2 DEF Reset, BatchInv, StagesInv, AllIdle
  <2>2. \A x \in Points, l \in Levels : Nbrs(x, l)' = {}
    BY <1>2 DEF Reset, Nbrs
  <2> QED BY <2>1, <2>2 DEF PublishedInv, Inserting, Linking
<1>3. ASSUME NEW t \in Threads, Step(t) PROVE PublishedInv'
  <2>1. \A x \in Points, l \in Levels : Published(x, l) => Published(x, l)'
    BY <1>0, <1>3, PublishedStays
  <2>2. ASSUME NEW x \in Points, NEW l \in Levels
        PROVE  /\ Published(x, l)' \/ Nbrs(x, l)' = {}
               /\ \A v \in Nbrs(x, l)' : Published(v, l)'
    <3>1. Nbrs(x, l) \subseteq Points
      BY <1>0 DEF Nbrs, TypeOK
    <3>2. /\ Published(x, l) \/ Nbrs(x, l) = {}
          /\ \A v \in Nbrs(x, l) : Published(v, l)'
      BY <1>0, <2>1, <3>1 DEF PublishedInv
    <3>3. CASE Nbrs(x, l)' = Nbrs(x, l)
      BY <2>1, <3>2, <3>3
    <3>4. CASE /\ l = level[t] /\ pc[t] \in {"pop"} \cup Linking /\ pc'[t] \in Linking
               /\ pt' = pt /\ level' = level
               /\ WritesOwn(t, x, l) \/ WritesBack(t, x, l)
      <4>0. /\ pc[t] \in Inserting /\ pt[t] \in Points /\ stage[pt[t]] = "running"
            /\ found[t] \cup others[t] \cup todo[t] \subseteq Points
            /\ level[t] <= Level[pt[t]]
        BY <1>0, <3>4, ThreadFacts DEF Inserting, Linking, TypeOK, ThreadsInv, ThreadOk
      <4>1. \A v \in Points : v = pt[t] => Published(v, l)'
        BY <3>4, <4>0 DEF Published, Inserting
      <4>2. \A v \in found[t] \cup others[t] \cup todo[t] : Published(v, l)'
        BY <1>0, <2>1, <3>4, <4>0 DEF PublishedInv, Held, Pending
      <4>3. CASE WritesOwn(t, x, l)
        BY <3>2, <4>1, <4>2, <4>3 DEF WritesOwn
      <4>4. CASE WritesBack(t, x, l)
        BY <3>2, <4>0, <4>1, <4>2, <4>4 DEF WritesBack
      <4> QED BY <3>4, <4>3, <4>4
    <3> QED BY <1>0, <1>3, <3>3, <3>4, ListStep
  <2>3. ASSUME NEW u \in Threads, pc'[u] \in Inserting, NEW v \in Held(u)'
        PROVE  v # pt'[u] /\ Published(v, level[u])'
    <3>1. CASE u # t
      <4>1. UNCHANGED Registers(u)
        BY <1>0, <1>3, <3>1, OtherThreads
      <4>2. v \in Held(u) /\ pc[u] \in Inserting /\ v \in Points
        BY <1>0, <2>3, <4>1 DEF Registers, Held, Pending, TypeOK
      <4>3. v # pt[u] /\ Published(v, level[u])
        BY <1>0, <4>2 DEF PublishedInv
      <4>4. level[u] \in Levels
        <5>1. pc[u] # "level"
          BY <1>0, <4>2 DEF Held, Pending, ThreadsInv, ThreadOk, Linking
        <5> QED BY <1>0, <4>2, <5>1, ThreadFacts DEF Inserting
      <4>5. level'[u] = level[u] /\ pt'[u] = pt[u]
        BY <4>1 DEF Registers
      <4> QED BY <2>1, <4>2, <4>3, <4>4, <4>5
    <3>2. CASE u = t
      <4>1. /\ pc[t] \in Inserting /\ pt'[t] = pt[t] /\ level'[t] = level[t]
            /\ \/ v \in Held(t)
               \/ pc[t] = "level" /\ v = nearest[t]
               \/ pc[t] = "scan" /\ v \in Nbrs(cur[t], level[t])
        BY <1>0, <1>3, <2>3, <3>2, HeldStep
      <4>2. pt[t] \in Points /\ stage[pt[t]] = "running" /\ level[t] \in Levels
        <5>1. pc'[t] # "level"
          BY <2>3, <3>2 DEF Held, Pending, ThreadsInv, ThreadOk, Linking
        <5>2. level'[t] \in Levels
          <6>1. level'[t] \in Int /\ 0 <= level'[t] /\ level'[t] <= Level[pt'[t]]
            BY <1>0, <2>3, <3>2, <4>1, <5>1, LevelAssumption
               DEF ThreadsInv, ThreadOk, Inserting, TypeOK, Levels
          <6>2. Level[pt'[t]] \in Levels
            BY <1>0, <4>1, ThreadFacts DEF Inserting, Linking
          <6> QED BY <6>1, <6>2, LevelAssumption DEF Levels
        <5> QED BY <1>0, <4>1, <5>2, ThreadFacts DEF ThreadsInv, ThreadOk, Inserting, Linking
      <4>3. CASE v \in Held(t)
        <5>1. v \in Points /\ v # pt[t] /\ Published(v, level[t])
          BY <1>0, <4>1, <4>3 DEF PublishedInv, Held, Pending, TypeOK
        <5> QED BY <2>1, <3>2, <4>1, <4>2, <5>1
      <4>4. CASE pc[t] = "level" /\ v = nearest[t]
        <5>1. v \in Points /\ stage[v] = "linked"
          BY <1>0, <4>4 DEF ThreadsInv, ThreadOk, Inserting
        <5>2. Published(v, level[t])
          BY <5>1 DEF Published
        <5> QED BY <2>1, <3>2, <4>1, <4>2, <5>1, <5>2
      <4>5. CASE pc[t] = "scan" /\ v \in Nbrs(cur[t], level[t])
        <5>1. cur[t] \in Points
          BY <1>0, <4>5 DEF ThreadsInv, ThreadOk, TypeOK
        <5>2. v \in Points /\ Published(v, level[t])
          BY <1>0, <4>2, <4>5, <5>1 DEF PublishedInv, Nbrs, TypeOK
        <5>3. v # pt[t]
          BY <1>0, <4>5, <5>2, SearcherUnpublished
        <5> QED BY <2>1, <3>2, <4>1, <4>2, <5>2, <5>3
      <4> QED BY <4>1, <4>3, <4>4, <4>5
    <3> QED BY <3>1, <3>2
  <2> QED BY <2>2, <2>3 DEF PublishedInv
<1>4. CASE UNCHANGED vars
  BY <1>0, <1>4 DEF vars, graph, top, adding, position, search, PublishedInv, Published, Held,
                    Pending, Nbrs
<1> QED BY <1>1, <1>2, <1>3, <1>4 DEF Next

-----------------------------------------------------------------------------
(* Of two points inserted at once at most one finds the other               *)

\* A search adds points that are published, and its own point is not.
LEMMA MutualStep ==
  ASSUME IInv, [Next]_vars, ThreadsInv', PublishedInv'
  PROVE  MutualInv'
<1>0. /\ TypeOK /\ ThreadsInv /\ BatchInv /\ PublishedInv /\ MutualInv /\ SlotsSuffice
  BY DEF IInv
<1>1. CASE StartAdd \/ EndAdd \/ Throw \/ Reset
  <2>1. \A t \in Threads : pc'[t] = "idle"
    BY <1>0, <1>1 DEF StartAdd, EndAdd, Throw, Reset, BatchInv, StagesInv, AllIdle
  <2> QED BY <2>1 DEF MutualInv, Inserting, Linking
<1>2. ASSUME NEW t \in Threads, Step(t) PROVE MutualInv'
  <2>1. ASSUME NEW u \in Threads, u # t, pc'[t] \in Inserting, pc'[u] \in Inserting,
               level'[t] = level'[u], pt'[u] \in Held(t)', pt'[t] \in Held(u)'
        PROVE  FALSE
    <3>1. UNCHANGED Registers(u)
      BY <1>0, <1>2, <2>1, OtherThreads
    <3>2. /\ pc[t] \in Inserting /\ pt'[t] = pt[t] /\ level'[t] = level[t]
          /\ \/ pt[u] \in Held(t)
             \/ pc[t] = "level" /\ pt[u] = nearest[t]
             \/ pc[t] = "scan" /\ pt[u] \in Nbrs(cur[t], level[t])
      BY <1>0, <1>2, <2>1, <3>1, HeldStep DEF Registers
    <3>3. pt[t] \in Held(u) /\ pc[u] \in Inserting /\ level[u] = level[t]
      BY <2>1, <3>1, <3>2 DEF Registers, Held, Pending
    <3>4. pt[u] \notin Held(t)
      BY <1>0, <3>2, <3>3 DEF MutualInv
    <3>5. CASE pc[t] = "level" /\ pt[u] = nearest[t]
      BY <1>0, <3>3, <3>5 DEF ThreadsInv, ThreadOk, Inserting
    <3>6. CASE pc[t] = "scan" /\ pt[u] \in Nbrs(cur[t], level[t])
      <4>1. ~Published(pt[t], level[t])
        BY <1>0, <3>6, SearcherUnpublished
      <4>2. Published(pt[t], level[u])
        BY <1>0, <3>3 DEF PublishedInv
      <4> QED BY <3>3, <4>1, <4>2
    <3> QED BY <3>2, <3>4, <3>5, <3>6
  <2>2. ASSUME NEW u \in Threads, NEW w \in Threads, u # t, w # t,
               pc'[u] \in Inserting, pc'[w] \in Inserting, level'[u] = level'[w]
        PROVE  ~(pt'[w] \in Held(u)' /\ pt'[u] \in Held(w)')
    <3>1. UNCHANGED Registers(u) /\ UNCHANGED Registers(w)
      BY <1>0, <1>2, <2>2, OtherThreads
    <3> QED BY <1>0, <2>2, <3>1, ZenonT(40) DEF Registers, MutualInv, Held, Pending
  <2>3. pc'[t] \in Inserting => pt'[t] \notin Held(t)'
    BY DEF PublishedInv
  <2> QED BY <2>1, <2>2, <2>3 DEF MutualInv
<1>3. CASE UNCHANGED vars
  BY <1>0, <1>3 DEF vars, position, search, MutualInv, Held, Pending
<1> QED BY <1>1, <1>2, <1>3 DEF Next

-----------------------------------------------------------------------------
(* Links about to be written are new                                        *)

\* A step of t cannot make a link that another thread is about to write stale:
\* t would have to hold that thread's point, and that thread t's.
LEMMA OtherFreshOk ==
  ASSUME TypeOK, ThreadsInv, PublishedInv, MutualInv, SlotsSuffice, FreshInv,
         NEW t \in Threads, NEW u \in Threads, u # t, Step(t)
  PROVE  FreshOk(u)'
<1>1. UNCHANGED Registers(u) /\ FreshOk(u)
  BY OtherThreads DEF FreshInv
<1>2. CASE pc[u] \notin Linking
  BY <1>1, <1>2 DEF Registers, FreshOk, Pending, Linking
<1>3. CASE pc[u] \in Linking
  <2>1. /\ pt[u] \in Points /\ level[u] \in Levels /\ pc[u] \in Inserting
        /\ todo[u] \cup others[u] \subseteq Points
    BY <1>3, ThreadFacts DEF TypeOK, Inserting, Linking
  <2>2. PICK l \in Levels : l = level[u] /\ l = level'[u]
    BY <1>1, <2>1 DEF Registers
  <2>3. \A x \in Points :
          \/ Nbrs(x, l)' = Nbrs(x, l)
          \/ /\ l = level[t] /\ pc[t] \in {"pop"} \cup Linking
             /\ WritesOwn(t, x, l) \/ WritesBack(t, x, l)
    BY ListStep
  <2>4. pt[t] # pt[u]
    BY <1>3, <2>1, NullAssumption DEF ThreadsInv, ThreadOk, Linking
  <2>5. l = level[t] /\ pc[t] \in {"pop"} \cup Linking =>
          ~(/\ pt[u] \in found[t] \cup others[t] \cup todo[t]
            /\ pt[t] \in found[u] \cup others[u] \cup todo[u])
    BY <2>1, <2>2 DEF MutualInv, Held, Pending, Inserting
  <2>6. \A o \in todo[u] \cup others[u] : pt[u] \in Nbrs(o, l)' => pt[u] \in Nbrs(o, l)
    BY <2>1, <2>3, <2>4, <2>5 DEF WritesOwn, WritesBack
  <2>7. PICK q \in Points : q = pt[u] /\ q = pt'[u]
    BY <1>1, <2>1 DEF Registers
  <2>8. \A o \in others[u] : o \in Nbrs(q, l)' => o \in Nbrs(q, l)
    <3>1. \/ Nbrs(q, l)' = Nbrs(q, l)
          \/ /\ l = level[t] /\ pc[t] \in {"pop"} \cup Linking
             /\ q \in todo[t] /\ Nbrs(q, l)' \subseteq Nbrs(q, l) \cup {pt[t]}
      BY <2>3, <2>4, <2>7 DEF WritesOwn, WritesBack
    <3> QED BY <2>5, <2>7, <3>1
  <2>9. /\ pc'[u] = pc[u] /\ found'[u] = found[u]
        /\ others'[u] = others[u] /\ todo'[u] = todo[u]
    BY <1>1 DEF Registers
  <2>10. /\ found[u] \cap others[u] = {} /\ others[u] \cap todo[u] = {}
         /\ \A o \in todo[u] : q \notin Nbrs(o, l)
         /\ pc[u] = "revDist" => /\ Nbrs(q, l) \cap others[u] = {}
                                 /\ \A o \in others[u] : q \notin Nbrs(o, l)
    BY <1>1, <1>3, <2>2, <2>7 DEF FreshOk
  <2>11. /\ \A o \in todo[u] : q \notin Nbrs(o, l)'
         /\ pc[u] = "revDist" => /\ Nbrs(q, l)' \cap others[u] = {}
                                 /\ \A o \in others[u] : q \notin Nbrs(o, l)'
    BY <2>6, <2>7, <2>8, <2>10
  <2> QED BY <1>3, <2>2, <2>7, <2>9, <2>10, <2>11 DEF FreshOk
<1> QED BY <1>2, <1>3

\* A thread's own step keeps its links to write new and distinct.
LEMMA OwnFreshOk ==
  ASSUME TypeOK, ThreadsInv, ThreadsInv', PublishedInv, PublishedInv', SlotsSuffice,
         FreshInv, NEW t \in Threads, Step(t)
  PROVE  FreshOk(t)'
<1>0. FreshOk(t) /\ ThreadOk(t)
  BY DEF FreshInv, ThreadsInv
<1>1. CASE pc'[t] \notin {"pop", "scan"} \cup Linking
  BY <1>1 DEF ThreadsInv, ThreadOk, FreshOk, Pending, Linking
<1>2. CASE StartSearch(t)
  BY <1>0, <1>2 DEF StartSearch, FreshOk, ThreadOk, Pending, TypeOK, Linking
<1>3. CASE Expand(t)
  <2>1. PICK c \in candidates[t] : candidates' = [candidates EXCEPT ![t] = @ \ {c}]
    BY <1>3 DEF Expand, Closest
  <2> QED BY <1>0, <1>3, <2>1 DEF Expand, FreshOk, Pending, TypeOK, Linking
<1>4. CASE Scan(t)
  <2>1. PICK v \in Readable(t) \ visited[t] :
          /\ visited' = [visited EXCEPT ![t] = @ \cup {v}]
          /\ ScanDist(t, v) \/ ScanExt(t, v) \/ ScanSkip(t, v)
    BY <1>4 DEF Scan
  <2>2. pc[t] = "scan" /\ UNCHANGED <<pc, pt, level, todo>>
    BY <1>4 DEF Scan, position
  <2>3. todo[t] = {} /\ v \notin found[t] \cup others[t] \cup candidates[t]
    BY <1>0, <2>1, <2>2 DEF ThreadOk, FreshOk, Pending, Linking
  <2>4. visited'[t] = visited[t] \cup {v}
    BY <2>1 DEF TypeOK
  <2>5. /\ found'[t] \cap others'[t] = {}
        /\ found'[t] \cup others'[t] \subseteq found[t] \cup others[t] \cup {v}
        /\ candidates'[t] \subseteq candidates[t] \cup {v}
    <3>1. CASE ScanDist(t, v)
      <4>1. PICK K \in KeepNearest(pt[t], found[t] \cup {v}, efConstruction) :
              /\ found' = [found EXCEPT ![t] = K]
              /\ others' = [others EXCEPT ![t] = @ \cup ((found[t] \cup {v}) \ K)]
        BY <3>1 DEF ScanDist
      <4>2. K \subseteq found[t] \cup {v}
        BY SelectionsAreSubsets
      <4> QED BY <1>0, <2>3, <3>1, <4>1, <4>2 DEF ScanDist, FreshOk, TypeOK
    <3>2. CASE ScanExt(t, v)
      BY <1>0, <2>3, <3>2 DEF ScanExt, FreshOk, TypeOK
    <3>3. CASE ScanSkip(t, v)
      BY <1>0, <3>3 DEF ScanSkip, FreshOk
    <3> QED BY <2>1, <3>1, <3>2, <3>3
  <2> QED BY <1>0, <2>2, <2>3, <2>4, <2>5 DEF FreshOk, Pending, Linking
<1>5. CASE EndScan(t)
  BY <1>0, <1>5 DEF EndScan, FreshOk, Pending, TypeOK, Linking
<1>6. CASE LinkDist(t)
  <2>1. PICK D \in SUBSET found[t] :
           /\ SetsZones(pt[t], level[t], D, {})
           /\ todo' = [todo EXCEPT ![t] = D]
           /\ others' = [others EXCEPT ![t] = others[t] \cup (found[t] \ D)]
    BY <1>6, LinkDistEffect
  <2>2. /\ pc[t] = "pop" /\ pc'[t] = "revDist" /\ found'[t] = {} /\ pt' = pt /\ level' = level
        /\ pt[t] \in Points /\ level[t] \in Levels
    BY <1>6, ThreadFacts DEF LinkDist, SearchOver, position, TypeOK
  <2>3. D \cap (others[t] \cup (found[t] \ D)) = {}
    BY <1>0 DEF FreshOk
  <2>4. \A o \in found[t] \cup others[t] : /\ o \in Points /\ o # pt[t]
                                           /\ pt[t] \notin Nbrs(o, level[t])
    <3>1. ~Published(pt[t], level[t])
      BY <2>2, SearcherUnpublished
    <3>2. \A o \in found[t] \cup others[t] : o \in Points /\ o # pt[t]
      BY <2>2 DEF PublishedInv, Held, Pending, TypeOK, Inserting
    <3> QED BY <2>2, <3>1, <3>2 DEF PublishedInv
  <2>5. PICK l \in Levels : l = level[t] /\ l = level'[t]
    BY <2>2
  <2>6. Nbrs(pt[t], l)' = D
    BY <2>1, <2>2, <2>5 DEF SetsZones, Nbrs, TypeOK
  <2>7. \A o \in found[t] \cup others[t] : pt[t] \notin Nbrs(o, l)'
    BY <2>1, <2>2, <2>4, <2>5 DEF SetsZones, Nbrs, TypeOK
  <2>8. todo'[t] = D /\ others'[t] = others[t] \cup (found[t] \ D)
    BY <2>1 DEF TypeOK
  <2>9. pt'[t] = pt[t] /\ found'[t] = {} /\ pc'[t] = "revDist"
    BY <2>2
  <2> QED BY <2>3, <2>5, <2>6, <2>7, <2>8, <2>9 DEF FreshOk, Linking
<1>7. CASE ReverseDist(t)
  <2>1. PICK o \in todo[t] : o \in Points /\
           \E D \in SUBSET (dist[o][level[t]] \cup {pt[t]}),
              E \in SUBSET Nbrs(o, level[t]) :
             /\ SetsZones(o, level[t], D, E)
             /\ todo' = [todo EXCEPT ![t] = todo[t] \ {o}]
    BY <1>7, ReverseDistEffect
  <2>2. /\ pc[t] = "revDist" /\ pc' = pc /\ found' = found /\ others' = others
        /\ pt' = pt /\ level' = level /\ pt[t] \in Points /\ level[t] \in Levels
        /\ todo'[t] = todo[t] \ {o} /\ todo[t] \cup others[t] \subseteq Points
    BY <1>7, <2>1, ThreadFacts DEF ReverseDist, position, search, TypeOK, Linking
  <2>3. PICK l \in Levels : l = level[t] /\ l = level'[t]
    BY <2>2
  <2>4. o # pt[t] /\ o \notin others[t]
    BY <1>0, <2>1, <2>2 DEF PublishedInv, Held, Pending, Inserting, Linking, FreshOk
  <2>5. \A x \in Points \ {o} : Nbrs(x, l)' = Nbrs(x, l)
    BY <2>1, <2>3 DEF SetsZones, Nbrs, TypeOK
  <2>6. /\ \A x \in todo[t] \cup others[t] : pt[t] \notin Nbrs(x, l)
        /\ Nbrs(pt[t], l) \cap others[t] = {}
        /\ found[t] \cap others[t] = {} /\ others[t] \cap todo[t] = {}
    BY <1>0, <2>2, <2>3 DEF FreshOk, Linking
  <2>7. /\ \A x \in todo'[t] \cup others[t] : pt[t] \notin Nbrs(x, l)'
        /\ Nbrs(pt[t], l)' \cap others[t] = {}
    BY <2>2, <2>4, <2>5, <2>6
  <2> QED BY <2>2, <2>3, <2>6, <2>7 DEF FreshOk, Linking
<1>8. CASE LinkExt(t)
  <2>1. PICK E \in SUBSET (ext[pt[t]][level[t]] \cup others[t]) :
           /\ SetsZones(pt[t], level[t], dist[pt[t]][level[t]], E)
           /\ todo' = [todo EXCEPT ![t] = others[t]]
           /\ others' = [others EXCEPT ![t] = {}]
    BY <1>8, LinkExtEffect
  <2>2. /\ pc[t] = "revDist" /\ pc'[t] = "revExt" /\ found' = found /\ others'[t] = {}
        /\ pt' = pt /\ level' = level /\ pt[t] \in Points /\ level[t] \in Levels
        /\ todo'[t] = others[t] /\ others[t] \subseteq Points
    BY <1>8, <2>1, ThreadFacts DEF LinkExt, position, TypeOK, Linking
  <2>3. PICK l \in Levels : l = level[t] /\ l = level'[t]
    BY <2>2
  <2>4. pt[t] \notin others[t]
    BY <2>2 DEF PublishedInv, Held, Pending, Inserting, Linking
  <2>5. \A x \in Points \ {pt[t]} : Nbrs(x, l)' = Nbrs(x, l)
    BY <2>1, <2>3 DEF SetsZones, Nbrs, TypeOK
  <2>6. \A x \in others[t] : pt[t] \notin Nbrs(x, l)
    BY <1>0, <2>2, <2>3 DEF FreshOk, Linking
  <2>7. \A x \in others[t] : pt[t] \notin Nbrs(x, l)'
    BY <2>2, <2>4, <2>5, <2>6
  <2> QED BY <2>2, <2>3, <2>7 DEF FreshOk, Linking
<1>9. CASE ReverseExt(t)
  <2>1. PICK o \in todo[t] : o \in Points /\
           \E E \in SUBSET (ext[o][level[t]] \cup {pt[t]}) :
             /\ SetsZones(o, level[t], dist[o][level[t]], E)
             /\ todo' = [todo EXCEPT ![t] = todo[t] \ {o}]
    BY <1>9, ReverseExtEffect
  <2>2. /\ pc[t] = "revExt" /\ pc' = pc /\ found' = found /\ others' = others
        /\ pt' = pt /\ level' = level /\ pt[t] \in Points /\ level[t] \in Levels
        /\ todo'[t] = todo[t] \ {o} /\ todo[t] \subseteq Points
    BY <1>9, <2>1, ThreadFacts DEF ReverseExt, position, search, TypeOK, Linking
  <2>3. PICK l \in Levels : l = level[t] /\ l = level'[t]
    BY <2>2
  <2>4. \A x \in Points \ {o} : Nbrs(x, l)' = Nbrs(x, l)
    BY <2>1, <2>3 DEF SetsZones, Nbrs, TypeOK
  <2>5. /\ \A x \in todo[t] : pt[t] \notin Nbrs(x, l)
        /\ found[t] \cap others[t] = {} /\ others[t] \cap todo[t] = {}
    BY <1>0, <2>2, <2>3 DEF FreshOk, Linking
  <2>6. \A x \in todo'[t] : pt[t] \notin Nbrs(x, l)'
    BY <2>2, <2>4, <2>5
  <2> QED BY <2>2, <2>3, <2>5, <2>6 DEF FreshOk, Linking
<1>10. pc'[t] \in {"pop", "scan"} \cup Linking =>
         SearchStep(t) \/ LinkDist(t) \/ ReverseDist(t) \/ LinkExt(t) \/ ReverseExt(t)
  BY ZenonT(40)
     DEF Step, LinkStep, EnterFirst, Enter, LockAndReadLevel, GreedyHop, GreedyDrop,
         Descending, NextLevel, Unlock, CheckTop, RaiseLevel, RaiseEntry, Finish, TypeOK,
         Linking
<1> QED BY <1>1, <1>2, <1>3, <1>4, <1>5, <1>6, <1>7, <1>8, <1>9, <1>10 DEF SearchStep

\* The links still to be written stay new.
LEMMA FreshStep ==
  ASSUME IInv, [Next]_vars, ThreadsInv', PublishedInv'
  PROVE  FreshInv'
<1>0. /\ TypeOK /\ ThreadsInv /\ BatchInv /\ PublishedInv /\ MutualInv /\ SlotsSuffice
      /\ FreshInv
  BY DEF IInv
<1>1. CASE StartAdd \/ EndAdd \/ Throw \/ Reset
  <2>1. AllIdle /\ UNCHANGED <<pc, position, search, todo>>
    BY <1>0, <1>1 DEF StartAdd, EndAdd, Throw, Reset, BatchInv, StagesInv
  <2> QED BY <1>0, <2>1 DEF FreshInv, FreshOk, AllIdle, Pending, search, Linking
<1>2. ASSUME NEW t \in Threads, Step(t) PROVE FreshInv'
  BY <1>0, <1>2, OwnFreshOk, OtherFreshOk DEF FreshInv
<1>3. CASE UNCHANGED vars
  BY <1>0, <1>3 DEF vars, graph, position, search, FreshInv, FreshOk, Pending, Nbrs
<1> QED BY <1>1, <1>2, <1>3 DEF Next

-----------------------------------------------------------------------------
(* The lists: no own point, room for all                                    *)

\* Every write leaves a list without its own point and within its slots.
LEMMA WellFormedStep ==
  ASSUME IInv, [Next]_vars
  PROVE  NoSelfLinks' /\ SlotsSuffice'
<1>0. /\ TypeOK /\ ThreadsInv /\ BatchInv /\ PublishedInv /\ FreshInv /\ NoSelfLinks
      /\ SlotsSuffice
  BY DEF IInv
<1>1. CASE UNCHANGED graph
  BY <1>0, <1>1 DEF graph, NoSelfLinks, SlotsSuffice, Nbrs
<1>2. CASE Reset
  <2>1. \A x \in Points, l \in Levels : dist'[x][l] = {} /\ ext'[x][l] = {}
    BY <1>2 DEF Reset
  <2>2. NoSelfLinks'
    BY <2>1 DEF NoSelfLinks, Nbrs
  <2>3. Cardinality({}) = 0
    BY FS_EmptySet
  <2>4. ASSUME NEW x \in Points, NEW l \in Levels
        PROVE  /\ Cardinality(dist'[x][l]) <= DistCap(l)
               /\ Cardinality(dist'[x][l]) + Cardinality(ext'[x][l]) <= Total(l)
    <3>1. dist'[x][l] = {} /\ ext'[x][l] = {}
      BY <2>1
    <3>2. DistCap(l) \in Nat /\ Total(l) \in Nat
      BY Sizes
    <3> QED BY <2>3, <3>1, <3>2
  <2> QED BY <2>2, <2>4 DEF SlotsSuffice
\* one list gets new zones without its own point
<1>3. ASSUME NEW x \in Points, NEW l \in Levels, NEW D, NEW E, SetsZones(x, l, D, E),
             x \notin D \cup E
      PROVE  NoSelfLinks' /\ SlotsSuffice'
  <2>1. /\ dist'[x][l] = D /\ ext'[x][l] = E
        /\ \A y \in Points, k \in Levels :
             ~(y = x /\ k = l) => dist'[y][k] = dist[y][k] /\ ext'[y][k] = ext[y][k]
    BY <1>0, <1>3 DEF SetsZones, TypeOK
  <2> QED BY <1>0, <1>3, <2>1 DEF SetsZones, NoSelfLinks, SlotsSuffice, Nbrs
<1>4. ASSUME NEW t \in Threads, LinkDist(t) PROVE NoSelfLinks' /\ SlotsSuffice'
  <2>1. PICK D \in SUBSET found[t] : SetsZones(pt[t], level[t], D, {})
    BY <1>0, <1>4, LinkDistEffect
  <2>2. pc[t] = "pop" /\ pt[t] \in Points /\ level[t] \in Levels
    BY <1>0, <1>4, ThreadFacts DEF LinkDist, SearchOver
  <2>3. pt[t] \notin found[t]
    BY <1>0, <2>2 DEF PublishedInv, Held, Pending, Inserting
  <2> QED BY <1>3, <2>1, <2>2, <2>3
<1>5. ASSUME NEW t \in Threads, ReverseDist(t) PROVE NoSelfLinks' /\ SlotsSuffice'
  <2>1. PICK o \in todo[t] : o \in Points /\
           \E D \in SUBSET (dist[o][level[t]] \cup {pt[t]}),
              E \in SUBSET Nbrs(o, level[t]) : SetsZones(o, level[t], D, E)
    BY <1>0, <1>5, ReverseDistEffect
  <2>2. PICK D \in SUBSET (dist[o][level[t]] \cup {pt[t]}),
             E \in SUBSET Nbrs(o, level[t]) : SetsZones(o, level[t], D, E)
    BY <2>1
  <2>3. pc[t] = "revDist" /\ pt[t] \in Points /\ level[t] \in Levels
    BY <1>0, <1>5, ThreadFacts DEF ReverseDist, Linking
  <2>4. o # pt[t] /\ pt[t] \notin Nbrs(o, level[t])
    BY <1>0, <2>1, <2>3 DEF PublishedInv, Held, Pending, FreshInv, FreshOk, Inserting, Linking
  <2>5. o \notin Nbrs(o, level[t])
    BY <1>0, <2>1, <2>3 DEF NoSelfLinks
  <2>6. o \notin D \cup E
    BY <2>2, <2>4, <2>5 DEF Nbrs
  <2> QED BY <1>3, <2>1, <2>2, <2>3, <2>6
<1>6. ASSUME NEW t \in Threads, LinkExt(t) PROVE NoSelfLinks' /\ SlotsSuffice'
  <2>1. PICK E \in SUBSET (ext[pt[t]][level[t]] \cup others[t]) :
          SetsZones(pt[t], level[t], dist[pt[t]][level[t]], E)
    BY <1>0, <1>6, LinkExtEffect
  <2>2. pc[t] = "revDist" /\ pt[t] \in Points /\ level[t] \in Levels
    BY <1>0, <1>6, ThreadFacts DEF LinkExt, Linking
  <2>3. pt[t] \notin others[t] /\ Nbrs(pt[t], level[t]) \cap others[t] = {}
    BY <1>0, <2>2 DEF PublishedInv, Held, Pending, FreshInv, FreshOk, Inserting, Linking
  <2>4. pt[t] \notin Nbrs(pt[t], level[t])
    BY <1>0, <2>2 DEF NoSelfLinks
  <2>5. pt[t] \notin dist[pt[t]][level[t]] \cup E
    BY <2>1, <2>3, <2>4 DEF Nbrs
  <2> QED BY <1>3, <2>1, <2>2, <2>5
<1>7. ASSUME NEW t \in Threads, ReverseExt(t) PROVE NoSelfLinks' /\ SlotsSuffice'
  <2>1. PICK o \in todo[t] : o \in Points /\
           \E E \in SUBSET (ext[o][level[t]] \cup {pt[t]}) :
             SetsZones(o, level[t], dist[o][level[t]], E)
    BY <1>0, <1>7, ReverseExtEffect
  <2>2. PICK E \in SUBSET (ext[o][level[t]] \cup {pt[t]}) :
          SetsZones(o, level[t], dist[o][level[t]], E)
    BY <2>1
  <2>3. pc[t] = "revExt" /\ pt[t] \in Points /\ level[t] \in Levels
    BY <1>0, <1>7, ThreadFacts DEF ReverseExt, Linking
  <2>4. o # pt[t] /\ pt[t] \notin Nbrs(o, level[t])
    BY <1>0, <2>1, <2>3 DEF PublishedInv, Held, Pending, FreshInv, FreshOk, Inserting, Linking
  <2>5. o \notin Nbrs(o, level[t])
    BY <1>0, <2>1, <2>3 DEF NoSelfLinks
  <2>6. o \notin dist[o][level[t]] \cup E
    BY <2>2, <2>4, <2>5 DEF Nbrs
  <2> QED BY <1>3, <2>1, <2>2, <2>3, <2>6
<1>8. \/ UNCHANGED graph \/ Reset
      \/ \E t \in Threads : LinkDist(t) \/ ReverseDist(t) \/ LinkExt(t) \/ ReverseExt(t)
  <2>1. CASE StartAdd \/ EndAdd \/ Throw
    BY <2>1 DEF StartAdd, EndAdd, Throw
  <2>2. ASSUME NEW t \in Threads, Step(t)
        PROVE  \/ UNCHANGED graph
               \/ LinkDist(t) \/ ReverseDist(t) \/ LinkExt(t) \/ ReverseExt(t)
    <3>1. CASE SearchStep(t) \/ NextLevel(t)
      BY <3>1 DEF SearchStep, StartSearch, Expand, Scan, EndScan, NextLevel
    <3>2. CASE \/ EnterFirst(t) \/ Enter(t) \/ LockAndReadLevel(t)
               \/ GreedyHop(t) \/ GreedyDrop(t)
      BY <3>2 DEF EnterFirst, Enter, LockAndReadLevel, GreedyHop, GreedyDrop
    <3>3. CASE Unlock(t) \/ CheckTop(t) \/ RaiseLevel(t) \/ RaiseEntry(t) \/ Finish(t)
      BY <3>3 DEF Unlock, CheckTop, RaiseLevel, RaiseEntry, Finish
    <3> QED BY <2>2, <3>1, <3>2, <3>3 DEF Step, LinkStep
  <2> QED BY <2>1, <2>2 DEF Next, vars
<1> QED BY <1>1, <1>2, <1>4, <1>5, <1>6, <1>7, <1>8

-----------------------------------------------------------------------------
(* Batches, locks and the top of the hierarchy                              *)

\* what the steps of one thread do to its control and its point
LEMMA ControlStep ==
  ASSUME TypeOK, NEW t \in Threads, Step(t)
  PROVE  /\ batch' = batch
         /\ pc[t] = "idle" => EnterFirst(t) \/ Enter(t)
         /\ ~EnterFirst(t) /\ ~Enter(t) /\ ~Finish(t) =>
              pt' = pt /\ interrupt' = interrupt /\ pc'[t] # "idle"
         /\ ~EnterFirst(t) /\ ~Enter(t) /\ ~Unlock(t) => stage' = stage
         /\ ~EnterFirst(t) /\ ~RaiseLevel(t) => max_level' = max_level
         /\ ~EnterFirst(t) /\ ~RaiseEntry(t) => entry_point' = entry_point
         /\ pc[t] \in {"check", "raise", "raiseEntry", "done"} =>
              CheckTop(t) \/ RaiseLevel(t) \/ RaiseEntry(t) \/ Finish(t)
         /\ pc'[t] \in {"raise", "raiseEntry"} => CheckTop(t) \/ RaiseLevel(t)
<1> USE DEF TypeOK, adding, top, position
<1>1. CASE EnterFirst(t) \/ Enter(t)
  BY <1>1 DEF EnterFirst, Enter
<1>2. CASE LockAndReadLevel(t) \/ GreedyHop(t) \/ GreedyDrop(t)
  BY <1>2 DEF LockAndReadLevel, GreedyHop, GreedyDrop, Descending
<1>3. CASE SearchStep(t)
  BY <1>3 DEF SearchStep, StartSearch, Expand, Scan, EndScan
<1>4. CASE LinkStep(t)
  BY <1>4 DEF LinkStep, LinkDist, SearchOver, ReverseDist, LinkExt, ReverseExt, NextLevel
<1>5. CASE Unlock(t) \/ CheckTop(t) \/ Finish(t)
  BY <1>5 DEF Unlock, CheckTop, Finish
<1>6. CASE RaiseLevel(t) \/ RaiseEntry(t)
  BY <1>6 DEF RaiseLevel, RaiseEntry
<1> QED BY <1>1, <1>2, <1>3, <1>4, <1>5, <1>6 DEF Step

\* Batches and stages go on agreeing.
LEMMA StagesStep ==
  ASSUME IInv, [Next]_vars
  PROVE  StagesInv'
<1>0. TypeOK /\ ThreadsInv /\ StagesInv /\ TopInv
  BY DEF IInv, BatchInv
<1>1. CASE StartAdd
  BY <1>0, <1>1 DEF StartAdd, StagesInv, AllIdle, position
<1>2. CASE EndAdd \/ Reset
  BY <1>0, <1>2 DEF EndAdd, Reset, Queued, StagesInv, AllIdle, position
<1>5. CASE Throw
  BY <1>0, <1>5 DEF Throw, Queued, StagesInv, AllIdle, position
<1>3. ASSUME NEW t \in Threads, Step(t) PROVE StagesInv'
  <2>1. batch' = {} => AllIdle' /\ ~interrupt'
    <3>1. pc[t] # "idle" => batch # {}
      BY <1>0 DEF StagesInv, AllIdle
    <3>2. EnterFirst(t) \/ Enter(t) => batch # {}
      BY DEF EnterFirst, Enter, MayRun, Queued
    <3> QED BY <1>0, <1>3, <3>1, <3>2, ControlStep
  <2>2. ASSUME NEW x \in Points PROVE stage'[x] = "queued" => x \in batch'
    <3>1. batch' = batch /\ (~EnterFirst(t) /\ ~Enter(t) /\ ~Unlock(t) => stage' = stage)
      BY <1>0, <1>3, ControlStep
    <3>2. stage \in [Points -> {"absent", "queued", "running", "linked", "orphan"}]
      BY <1>0 DEF TypeOK
    <3>3. \/ stage' = stage
          \/ \E p, s : s \in {"running", "linked"} /\ stage' = [stage EXCEPT ![p] = s]
      BY <3>1 DEF EnterFirst, Enter, Unlock
    <3>5. stage'[x] = "queued" => stage[x] = "queued"
      BY <3>2, <3>3
    <3>4. stage[x] = "queued" => x \in batch
      <4>1. StagesInv
        BY <1>0
      <4> QED BY <4>1 DEF StagesInv
    <3> QED BY <3>1, <3>4, <3>5
  <2>3. ASSUME NEW x \in Points, stage'[x] = "running"
        PROVE  \E u \in Threads : pt'[u] = x
    <3>1. CASE Enter(t)
      <4>1. PICK p \in Points : /\ stage' = [stage EXCEPT ![p] = "running"]
                                /\ pt' = [pt EXCEPT ![t] = p] /\ pc[t] = "idle"
        BY <3>1 DEF Enter
      <4>2. CASE x = p
        BY <1>0, <4>1, <4>2 DEF TypeOK
      <4>3. CASE x # p
        <5>1. PICK u \in Threads : pt[u] = x
          BY <1>0, <2>3, <4>1, <4>3 DEF StagesInv, TypeOK
        <5>2. u # t
          BY <1>0, <4>1, <5>1, NullAssumption DEF ThreadsInv, ThreadOk
        <5> QED BY <1>0, <4>1, <5>1, <5>2 DEF TypeOK
      <4> QED BY <4>2, <4>3
    <3>2. CASE EnterFirst(t)
      <4>1. /\ stage[x] \in {"absent", "queued"}
            /\ \E p \in Points : stage' = [stage EXCEPT ![p] = "linked"]
        BY <1>0, <3>2 DEF EnterFirst, TopInv
      <4> QED BY <1>0, <2>3, <4>1 DEF TypeOK
    <3>3. CASE Finish(t)
      <4>1. PICK u \in Threads : pt[u] = x
        BY <1>0, <1>3, <2>3, <3>3 DEF Finish, StagesInv
      <4>2. u # t
        BY <1>0, <2>3, <3>3, <4>1 DEF Finish, ThreadsInv, ThreadOk, Ending
      <4> QED BY <1>0, <3>3, <4>1, <4>2 DEF Finish, TypeOK
    <3>4. CASE ~(EnterFirst(t) \/ Enter(t) \/ Finish(t))
      <4>1. stage[x] = "running" /\ pt' = pt
        BY <1>0, <1>3, <2>3, <3>4, ControlStep DEF Unlock, TypeOK
      <4> QED BY <1>0, <4>1 DEF StagesInv
    <3> QED BY <3>1, <3>2, <3>3, <3>4
  <2> QED BY <2>1, <2>2, <2>3 DEF StagesInv
<1>4. CASE UNCHANGED vars
  BY <1>0, <1>4 DEF vars, adding, position, StagesInv, AllIdle
<1> QED BY <1>1, <1>2, <1>3, <1>4, <1>5 DEF Next

\* A lock stays with the thread that inserts its point.
LEMMA LocksStep ==
  ASSUME IInv, [Next]_vars
  PROVE  LocksInv'
<1>0. TypeOK /\ ThreadsInv /\ LocksInv
  BY DEF IInv, BatchInv
<1>1. CASE StartAdd \/ EndAdd \/ Throw \/ Reset
  BY <1>0, <1>1 DEF StartAdd, EndAdd, Throw, Reset, LocksInv, position
<1>2. ASSUME NEW t \in Threads, Step(t), NEW x \in Points, lock'[x] # NoThread
      PROVE  pt'[lock'[x]] = x /\ pc'[lock'[x]] \in {"level", "pop", "scan"}
  <2>1. CASE LockAndReadLevel(t) \/ NextLevel(t)
    <3>1. /\ lock' = [lock EXCEPT ![pt[t]] = t] /\ pc' = [pc EXCEPT ![t] = "level"]
          /\ pt' = pt /\ pc[t] \in {"lock", "revExt"}
      BY <2>1 DEF LockAndReadLevel, NextLevel, position
    <3>2. CASE x = pt[t]
      BY <1>0, <3>1, <3>2 DEF TypeOK
    <3>3. CASE x # pt[t]
      BY <1>0, <1>2, <3>1, <3>3 DEF LocksInv, TypeOK
    <3> QED BY <3>2, <3>3
  <2>2. CASE LinkDist(t) \/ Unlock(t)
    <3>1. lock' = [lock EXCEPT ![pt[t]] = NoThread] /\ pt' = pt
      BY <2>2 DEF LinkDist, Unlock, position
    <3>2. x # pt[t] /\ lock[x] # NoThread /\ lock'[x] = lock[x]
      BY <1>0, <1>2, <3>1 DEF TypeOK
    <3>3. pt[lock[x]] = x /\ pc[lock[x]] \in {"level", "pop", "scan"} /\ lock[x] # t
      BY <1>0, <3>2 DEF LocksInv
    <3>4. pc'[lock[x]] = pc[lock[x]]
      BY <1>0, <2>2, <3>2, <3>3 DEF LinkDist, Unlock, TypeOK
    <3> QED BY <3>1, <3>2, <3>3, <3>4
  <2>3. CASE ~(LockAndReadLevel(t) \/ NextLevel(t) \/ LinkDist(t) \/ Unlock(t))
    <3>1. lock' = lock
      BY <1>2, <2>3 DEF Step, EnterFirst, Enter, GreedyHop, GreedyDrop, SearchStep,
         StartSearch, Expand, Scan, EndScan, LinkStep, ReverseDist, LinkExt, ReverseExt,
         CheckTop, RaiseLevel, RaiseEntry, Finish
    <3>2. lock[x] \in Threads /\ pt[lock[x]] = x /\ pc[lock[x]] \in {"level", "pop", "scan"}
      BY <1>0, <1>2, <3>1 DEF LocksInv, TypeOK
    <3>3. CASE lock[x] # t
      BY <1>0, <1>2, <3>1, <3>2, <3>3, OtherThreads DEF Registers
    <3>4. CASE lock[x] = t
      <4>1. GreedyHop(t) \/ GreedyDrop(t) \/ SearchStep(t)
        BY <1>2, <2>3, <3>2, <3>4 DEF Step, EnterFirst, Enter, LinkStep, ReverseDist,
           LinkExt, ReverseExt, CheckTop, RaiseLevel, RaiseEntry, Finish
      <4> QED BY <1>0, <3>1, <3>2, <3>4, <4>1 DEF GreedyHop, GreedyDrop, SearchStep,
              StartSearch, Expand, Scan, EndScan, position, TypeOK
    <3> QED BY <3>3, <3>4
  <2> QED BY <2>1, <2>2, <2>3
<1>3. CASE UNCHANGED vars
  BY <1>0, <1>3 DEF vars, position, LocksInv
<1> QED BY <1>1, <1>2, <1>3 DEF Next, LocksInv

\* max_level counts every linked point, but for those of a thread about to
\* raise it, and entry_point is of that level, but for a thread in between.
LEMMA TopStep ==
  ASSUME IInv, [Next]_vars, ThreadsInv'
  PROVE  TopInv'
<1>0. TypeOK /\ ThreadsInv /\ StagesInv /\ TopInv
  BY DEF IInv, BatchInv
<1>1. CASE StartAdd
  BY <1>0, <1>1 DEF StartAdd, TopInv, StagesInv, AllIdle, top, position, TypeOK
<1>2. CASE EndAdd \/ Reset
  BY <1>0, <1>2 DEF EndAdd, Reset, TopInv, StagesInv, AllIdle, top, position
<1>3. CASE Throw
  BY <1>0, <1>3 DEF Throw, Queued, TopInv, AllIdle, top, position, TypeOK
<1>4. CASE UNCHANGED vars
  BY <1>0, <1>4 DEF vars, adding, top, position, TopInv, AllIdle
<1>5. ASSUME NEW t \in Threads, Step(t) PROVE TopInv'
  <2>0. /\ \A x \in Points : Level[x] \in Nat
        /\ max_level \in Int
        /\ pc[t] # "idle" => /\ entry_point # NoPoint /\ stage[entry_point] = "linked"
                             /\ pt[t] \in Points /\ entry_point \in Points
    BY <1>0, LevelAssumption DEF TopInv, AllIdle, TypeOK, ThreadsInv, ThreadOk, Levels
  <2> DEFINE Raising(x) == \E u \in Threads : pt[u] = x /\ pc[u] \in {"check", "raise"}
             Entering   == \E u \in Threads : pc[u] = "raiseEntry" /\ Level[pt[u]] = max_level
             Accounted(x) == Level[x] <= max_level \/ Raising(x)
             TopAgrees  == Level[entry_point] = max_level \/ Entering
  <2>1. CASE EnterFirst(t)
    <3>1. PICK p \in Points :
            /\ entry_point' = p /\ max_level' = Level[p]
            /\ stage' = [stage EXCEPT ![p] = "linked"]
            /\ pc' = [pc EXCEPT ![t] = "done"]
      BY <2>1 DEF EnterFirst
    <3>2. AllIdle /\ \A x \in Points : stage[x] # "linked"
      BY <1>0, <2>1 DEF EnterFirst, TopInv
    <3> QED BY <1>0, <2>0, <3>1, <3>2, NullAssumption DEF TopInv, AllIdle, TypeOK
  <2>2. CASE ~EnterFirst(t)
    <3>1. pc[t] # "idle" \/ Enter(t)
      BY <1>0, <1>5, <2>2, ControlStep
    <3>2. entry_point # NoPoint /\ entry_point \in Points /\ stage[entry_point] = "linked"
      BY <1>0, <2>0, <3>1 DEF Enter, TopInv, TypeOK
    <3>3. entry_point' # NoPoint
      BY <1>0, <1>5, <2>0, <2>2, <3>2, ControlStep, NullAssumption DEF RaiseEntry
    <3>4. \A u \in Threads : u # t => pc'[u] = pc[u] /\ pt'[u] = pt[u]
      BY <1>0, <1>5, OtherThreads DEF Registers
    <3>5. \A u \in Threads : pc[u] # "idle" /\ pc[t] # "idle" => Level[pt[u]] = Level[pt[t]]
      BY <1>0 DEF ThreadsInv
    <3>6. ASSUME NEW x \in Points, stage'[x] = "linked" PROVE Accounted(x)'
      <4>1. CASE Unlock(t) /\ x = pt[t]
        BY <1>0, <4>1 DEF Unlock, position, TypeOK
      <4>2. CASE ~(Unlock(t) /\ x = pt[t])
        <5>1. Accounted(x)
          <6>1. stage[x] = "linked"
            BY <1>0, <1>5, <2>2, <3>6, <4>2, ControlStep DEF Enter, Unlock, TypeOK
          <6> QED BY <1>0, <6>1 DEF TopInv
        <5>2. CASE RaiseLevel(t)
          <6>1. max_level' = Level[pt[t]] /\ max_level <= Level[pt[t]] /\ pc[t] = "raise"
            BY <1>0, <5>2 DEF RaiseLevel, TopInv
          <6> QED BY <2>0, <3>5, <5>1, <6>1
        <5>3. CASE CheckTop(t)
          <6>1. max_level' = max_level /\ pt' = pt
                /\ pc' = [pc EXCEPT ![t] = IF Level[pt[t]] > max_level THEN "raise" ELSE "done"]
            BY <5>3 DEF CheckTop, top, position
          <6> QED BY <1>0, <2>0, <5>1, <6>1 DEF TypeOK
        <5>4. CASE ~RaiseLevel(t) /\ ~CheckTop(t)
          <6>1. max_level' = max_level /\ pc[t] \notin {"check", "raise"}
            <7>1. pc[t] \in {"check", "raise"} => RaiseEntry(t) \/ Finish(t)
              BY <1>0, <1>5, <5>4, ControlStep
            <7>2. pc[t] \notin {"check", "raise"}
              BY <7>1 DEF RaiseEntry, Finish
            <7> QED BY <1>0, <1>5, <2>2, <5>4, <7>2, ControlStep
          <6> QED BY <3>4, <5>1, <6>1
        <5> QED BY <5>2, <5>3, <5>4
      <4> QED BY <4>1, <4>2
    <3>7. ASSUME NEW u \in Threads, pc'[u] \in {"raise", "raiseEntry"}
          PROVE  max_level' <= Level[pt'[u]]
      <4>1. CASE u = t
        <5>1. CheckTop(t) \/ RaiseLevel(t)
          BY <1>0, <1>5, <3>7, <4>1, ControlStep
        <5> QED BY <1>0, <2>0, <3>7, <4>1, <5>1
                DEF CheckTop, RaiseLevel, top, position, TypeOK
      <4>2. CASE u # t
        <5>1. pc[u] \in {"raise", "raiseEntry"} /\ pt'[u] = pt[u] /\ pt[u] \in Points
          BY <1>0, <3>4, <3>7, <4>2, ThreadFacts
        <5>2. max_level <= Level[pt[u]]
          BY <1>0, <5>1 DEF TopInv
        <5>3. CASE RaiseLevel(t)
          BY <2>0, <3>5, <5>1, <5>3 DEF RaiseLevel
        <5>4. CASE ~RaiseLevel(t)
          BY <1>0, <1>5, <2>2, <5>1, <5>2, <5>4, ControlStep
        <5> QED BY <5>3, <5>4
      <4> QED BY <4>1, <4>2
    <3>8. stage'[entry_point'] = "linked"
      <4>1. CASE RaiseEntry(t)
        BY <1>0, <4>1 DEF RaiseEntry, adding, ThreadsInv, ThreadOk, Ending
      <4>2. CASE ~RaiseEntry(t)
        BY <1>0, <1>5, <2>2, <3>2, <4>2, ControlStep, StageStep
      <4> QED BY <4>1, <4>2
    <3>9. TopAgrees'
      <4>1. CASE RaiseLevel(t)
        BY <1>0, <4>1 DEF RaiseLevel, position, TypeOK
      <4>2. CASE RaiseEntry(t)
        <5>1. pc[t] = "raiseEntry" /\ entry_point' = pt[t] /\ max_level' = max_level
              /\ stage[pt[t]] = "linked"
          BY <1>0, <4>2 DEF RaiseEntry, ThreadsInv, ThreadOk, Ending
        <5>2. max_level <= Level[pt[t]] /\ Accounted(pt[t])
          BY <1>0, <2>0, <5>1 DEF TopInv
        <5>3. \A u \in Threads : pt[u] = pt[t] => u = t
          BY <1>0, <2>0, <5>1, NullAssumption DEF ThreadsInv, ThreadOk
        <5>4. Level[pt[t]] = max_level
          BY <2>0, <5>1, <5>2, <5>3
        <5> QED BY <5>1, <5>4
      <4>3. CASE ~RaiseLevel(t) /\ ~RaiseEntry(t)
        <5>1. max_level' = max_level /\ entry_point' = entry_point
          BY <1>0, <1>5, <2>2, <4>3, ControlStep
        <5>2. TopAgrees
          BY <1>0, <3>2 DEF TopInv
        <5>3. pc[t] # "raiseEntry"
          <6>1. pc[t] = "raiseEntry" => CheckTop(t) \/ Finish(t)
            BY <1>0, <1>5, <4>3, ControlStep
          <6> QED BY <6>1 DEF CheckTop, Finish
        <5> QED BY <3>4, <5>1, <5>2, <5>3
      <4> QED BY <4>1, <4>2, <4>3
    <3> QED BY <3>3, <3>6, <3>7, <3>8, <3>9 DEF TopInv
  <2> QED BY <2>1, <2>2
<1> QED BY <1>1, <1>2, <1>3, <1>4, <1>5 DEF Next

-----------------------------------------------------------------------------
(* Levels, as long as no later add() is taller than the index               *)

\* No step raises the top, when no later add() is taller.
LEMMA TopFixedStep ==
  ASSUME IInv, [Next]_vars, ~TallerLater
  PROVE  TopFixed'
<1>0. TypeOK /\ ThreadsInv /\ StagesInv /\ TopInv /\ TopFixed
  BY DEF IInv, BatchInv, RangeInv
<1>1. \A x \in Points : Level[x] \in Nat
  BY LevelAssumption DEF Levels
<1>2. CASE StartAdd
  BY <1>0, <1>2 DEF StartAdd, TopFixed, top
<1>3. CASE EndAdd \/ Reset \/ UNCHANGED vars
  BY <1>0, <1>3 DEF EndAdd, Reset, vars, adding, top, TopFixed, StagesInv, AllIdle
<1>4. CASE Throw
  BY <1>0, <1>4 DEF Throw, Queued, TopFixed, top, TypeOK
<1>5. ASSUME NEW t \in Threads, EnterFirst(t) PROVE TopFixed'
  <2>1. PICK p \in Points : /\ MayRun(p)
                            /\ entry_point' = p /\ max_level' = Level[p]
                            /\ stage' = [stage EXCEPT ![p] = "linked"]
    BY <1>5 DEF EnterFirst
  <2>2. AllIdle /\ pc' = [pc EXCEPT ![t] = "done"]
        /\ \A x \in Points : stage[x] \in {"absent", "queued"}
    BY <1>0, <1>5 DEF EnterFirst, TopInv
  <2>3. \A x \in Points : stage[x] = "queued" => Level[x] <= Level[p]
    BY <1>0, <2>1 DEF MayRun, Queued, StagesInv
  <2> QED BY <1>0, <1>1, <2>1, <2>2, <2>3 DEF TopFixed, AllIdle, TypeOK
<1>6. ASSUME NEW t \in Threads, Step(t), ~EnterFirst(t) PROVE TopFixed'
  <2>1. ~RaiseLevel(t) /\ ~RaiseEntry(t)
    BY <1>0 DEF TopFixed, RaiseLevel, RaiseEntry
  <2>2. max_level' = max_level /\ entry_point' = entry_point
    BY <1>0, <1>6, <2>1, ControlStep
  <2>3. ASSUME NEW x \in Points, entry_point' # NoPoint,
               stage'[x] \in {"queued", "running", "linked"}
        PROVE  Level[x] <= max_level'
    <3>1. stage[x] \in {"queued", "running", "linked"}
      <4>1. CASE Enter(t)
        BY <1>0, <2>3, <4>1 DEF Enter, MayRun, Queued, TypeOK
      <4>2. CASE Unlock(t)
        <5>1. stage[pt[t]] = "running" /\ stage' = [stage EXCEPT ![pt[t]] = "linked"]
          BY <1>0, <4>2 DEF Unlock, ThreadsInv, ThreadOk, Inserting
        <5> QED BY <1>0, <2>3, <5>1 DEF TypeOK
      <4>3. CASE ~Enter(t) /\ ~Unlock(t)
        BY <1>0, <1>6, <2>3, <4>3, ControlStep
      <4> QED BY <4>1, <4>2, <4>3
    <3> QED BY <1>0, <2>2, <2>3, <3>1 DEF TopFixed
  <2>4. ASSUME NEW u \in Threads PROVE pc'[u] \notin {"raise", "raiseEntry"}
    <3>1. CASE u # t
      BY <1>0, <1>6, <3>1, OtherThreads DEF Registers, TopFixed
    <3>2. CASE u = t /\ pc'[t] \in {"raise", "raiseEntry"}
      <4>1. CheckTop(t)
        BY <1>0, <1>6, <2>1, <3>2, ControlStep
      <4>2. stage[pt[t]] = "linked" /\ pt[t] \in Points /\ entry_point # NoPoint
        BY <1>0, <4>1 DEF CheckTop, ThreadsInv, ThreadOk, Ending, TopInv, AllIdle, TypeOK
      <4>3. Level[pt[t]] <= max_level /\ max_level \in Int /\ Level[pt[t]] \in Int
        BY <1>0, <1>1, <4>2, LevelAssumption DEF TopFixed, TypeOK, Levels
      <4> QED BY <1>0, <3>2, <4>1, <4>3 DEF CheckTop, TypeOK
    <3> QED BY <3>1, <3>2
  <2> QED BY <1>0, <2>2, <2>3, <2>4 DEF TopFixed
<1> QED BY <1>2, <1>3, <1>4, <1>5, <1>6 DEF Next

\* what a thread works on reaches its level
Reaches(t) == pc[t] \in Inserting /\ level[t] >= 0 =>
                \A x \in {nearest[t]} \cup Held(t) : level[t] <= Level[x]

\* A thread's step leads it to points that reach its level.
LEMMA OwnReach ==
  ASSUME TypeOK, TypeOK', ThreadsInv, ThreadsInv', PublishedInv, SlotsSuffice,
         LevelsReached, NEW t \in Threads, Step(t)
  PROVE  Reaches(t)'
<1> SUFFICES ASSUME pc'[t] \in Inserting, level'[t] >= 0,
                    NEW x \in {nearest'[t]} \cup Held(t)'
             PROVE  level'[t] <= Level[x]
  BY DEF Reaches
<1>0. /\ nearest'[t] \in Points /\ Held(t)' \subseteq Points /\ level'[t] \in Int
      /\ level[t] \in Int /\ max_level \in Int /\ \A p \in Points : Level[p] \in Int
  BY ThreadFacts, LevelAssumption DEF TypeOK, Held, Pending, Levels, ThreadsInv, ThreadOk
<1>1. CASE x \in Held(t)'
  <2>1. /\ pc[t] \in Inserting /\ level'[t] = level[t]
        /\ \/ x \in Held(t)
           \/ x = nearest[t]
           \/ pc[t] = "scan" /\ x \in Nbrs(cur[t], level[t])
    BY <1>1, HeldStep
  <2>2. pc[t] = "scan" => cur[t] \in Points /\ level[t] \in Levels
    BY ThreadFacts DEF ThreadsInv, ThreadOk, TypeOK
  <2> QED BY <2>1, <2>2 DEF LevelsReached, AccessInRange
<1>2. CASE x = nearest'[t]
  <2>1. CASE LockAndReadLevel(t)
    BY <1>0, <1>2, <2>1 DEF LockAndReadLevel, LevelsReached, TypeOK
  <2>2. CASE GreedyHop(t)
    <3>1. nearest[t] \in Points /\ level[t] \in Levels /\ level' = level
      BY <2>2, ThreadFacts DEF GreedyHop, Descending, Inserting
    <3>2. nearest'[t] \in Nbrs(nearest[t], level[t])
      <4>1. PICK v \in Closest(pt[t], Closer(t)) : nearest' = [nearest EXCEPT ![t] = v]
        BY <2>2 DEF GreedyHop
      <4>2. v \in dist[nearest[t]][level[t]]
        BY <4>1 DEF Closest, Closer
      <4> QED BY <4>1, <4>2 DEF Nbrs, TypeOK
    <3> QED BY <1>2, <3>1, <3>2 DEF LevelsReached
  <2>3. CASE GreedyDrop(t) \/ NextLevel(t)
    <3>1. /\ pc[t] \in Inserting /\ level[t] >= 0 /\ level'[t] = level[t] - 1
          /\ nearest' = nearest
      BY <1>0, <2>3, ThreadFacts DEF GreedyDrop, Descending, NextLevel, TypeOK, Inserting,
         Linking, Levels
    <3>2. level[t] <= Level[nearest[t]]
      BY <3>1 DEF LevelsReached, AccessInRange
    <3> QED BY <1>0, <1>2, <3>1, <3>2
  <2>4. CASE SearchStep(t) \/ LinkDist(t) \/ ReverseDist(t) \/ LinkExt(t) \/ ReverseExt(t)
    <3>1. nearest' = nearest /\ level' = level /\ pc[t] \in Inserting
      BY <2>4 DEF SearchStep, StartSearch, Expand, Scan, EndScan, LinkDist, SearchOver,
         ReverseDist, LinkExt, ReverseExt, position, Inserting, Linking
    <3> QED BY <1>2, <3>1 DEF LevelsReached, AccessInRange
  <2>5. ~(\/ EnterFirst(t) \/ Enter(t) \/ Unlock(t) \/ CheckTop(t) \/ RaiseLevel(t)
          \/ RaiseEntry(t) \/ Finish(t))
    <3>1. pc \in [Threads -> {"idle", "lock"} \cup Inserting \cup Ending]
      BY DEF TypeOK
    <3>2. pc'[t] \notin {"idle", "lock", "check", "raise", "raiseEntry", "done"}
      BY DEF Inserting, Linking
    <3> QED BY <3>1, <3>2
            DEF EnterFirst, Enter, Unlock, CheckTop, RaiseLevel, RaiseEntry, Finish
  <2> QED BY <2>1, <2>2, <2>3, <2>4, <2>5 DEF Step, LinkStep
<1> QED BY <1>1, <1>2

\* The points met at a level go on reaching it.
LEMMA LevelsReachedStep ==
  ASSUME IInv, [Next]_vars, TypeOK', ThreadsInv', ~TallerLater
  PROVE  LevelsReached'
<1>0. /\ TypeOK /\ ThreadsInv /\ StagesInv /\ TopInv /\ PublishedInv /\ SlotsSuffice
      /\ TopFixed /\ LevelsReached
  BY DEF IInv, BatchInv, RangeInv
<1>1. CASE StartAdd \/ EndAdd \/ Throw
  BY <1>0, <1>1 DEF StartAdd, EndAdd, Throw, top, graph, position, search, LevelsReached,
     AccessInRange, Held, Pending, Nbrs
<1>2. CASE Reset
  BY <1>0, <1>2 DEF Reset, LevelsReached, AccessInRange, StagesInv, AllIdle, Inserting,
     Linking, Nbrs
<1>3. CASE UNCHANGED vars
  BY <1>0, <1>3 DEF vars, top, graph, position, search, LevelsReached, AccessInRange,
     Held, Pending, Nbrs
<1>4. ASSUME NEW t \in Threads, Step(t) PROVE LevelsReached'
  <2>1. ASSUME NEW x \in Points, NEW l \in Levels, NEW v \in Nbrs(x, l)'
        PROVE  l <= Level[v]
    <3>1. CASE v \in Nbrs(x, l)
      BY <1>0, <3>1 DEF LevelsReached
    <3>2. CASE v \notin Nbrs(x, l)
      <4>1. /\ l = level[t] /\ pc[t] \in {"pop"} \cup Linking
            /\ v \in Held(t) \/ v = pt[t]
        BY <1>0, <1>4, <2>1, <3>2, ListStep DEF WritesOwn, WritesBack, Held, Pending
      <4>2. v \in Held(t) => l <= Level[v]
        BY <1>0, <4>1, LevelAssumption DEF LevelsReached, AccessInRange, Inserting, Levels
      <4>3. l <= Level[pt[t]]
        BY <1>0, <4>1 DEF ThreadsInv, ThreadOk
      <4> QED BY <4>1, <4>2, <4>3
    <3> QED BY <3>1, <3>2
  <2>2. ASSUME NEW u \in Threads PROVE Reaches(u)'
    <3>1. CASE u = t
      BY <1>0, <1>4, <3>1, OwnReach
    <3>2. CASE u # t
      <4>1. UNCHANGED Registers(u)
        BY <1>0, <1>4, <3>2, OtherThreads
      <4> QED BY <1>0, <4>1 DEF Registers, Reaches, LevelsReached, AccessInRange, Held, Pending
    <3> QED BY <3>1, <3>2
  <2>3. ASSUME NEW u \in Threads, pc'[u] = "lock" PROVE max_level' <= Level[nearest'[u]]
    <3>1. CASE EnterFirst(t)
      BY <1>0, <2>3, <3>1 DEF EnterFirst, TopInv, AllIdle, TypeOK
    <3>2. CASE ~EnterFirst(t)
      <4>1. max_level' = max_level
        BY <1>0, <1>4, <3>2, ControlStep DEF TopFixed, RaiseLevel
      <4>2. CASE u # t
        BY <1>0, <1>4, <2>3, <4>1, <4>2, OtherThreads DEF Registers, LevelsReached
      <4>3. CASE u = t
        <5>1. Enter(t)
          BY <1>0, <1>4, <2>3, <3>2, <4>3, ZenonT(40) DEF Step, LockAndReadLevel, GreedyHop,
             GreedyDrop, Descending, SearchStep, StartSearch, Expand, Scan, EndScan, LinkStep,
             LinkDist, SearchOver, ReverseDist, LinkExt, ReverseExt, NextLevel, Unlock,
             CheckTop, RaiseLevel, RaiseEntry, Finish, TypeOK
        <5> QED BY <1>0, <4>1, <4>3, <5>1 DEF Enter, TopFixed, TypeOK
      <4> QED BY <4>2, <4>3
    <3> QED BY <3>1, <3>2
  <2> QED BY <2>1, <2>2, <2>3 DEF LevelsReached, AccessInRange, Reaches
<1> QED BY <1>1, <1>2, <1>3, <1>4 DEF Next

-----------------------------------------------------------------------------
(* The invariant                                                            *)

\* The invariant holds of the empty index.
LEMMA InitInvariant == Init => IInv
<1> SUFFICES ASSUME Init PROVE IInv
  OBVIOUS
<1>1. TypeOK
  BY InitType
<1>2. ThreadsInv /\ FreshInv
  BY DEF Init, ThreadsInv, ThreadOk, FreshInv, FreshOk, Pending, Inserting, Linking, Ending
<1>3. BatchInv
  BY NullAssumption DEF Init, BatchInv, StagesInv, LocksInv, TopInv, AllIdle
<1>4. \A x \in Points, l \in Levels : dist[x][l] = {} /\ ext[x][l] = {}
  BY DEF Init
<1>5. PublishedInv /\ MutualInv
  BY <1>4 DEF Init, PublishedInv, MutualInv, Nbrs, Inserting, Linking
<1>6. RangeInv
  BY <1>4 DEF Init, RangeInv, TopFixed, LevelsReached, AccessInRange, Nbrs, Inserting, Linking
<1>7. NoSelfLinks
  BY <1>4 DEF NoSelfLinks, Nbrs
<1>8. SlotsSuffice
  <2>1. Cardinality({}) = 0
    BY FS_EmptySet
  <2>2. ASSUME NEW x \in Points, NEW l \in Levels
        PROVE  /\ Cardinality(dist[x][l]) <= DistCap(l)
               /\ Cardinality(dist[x][l]) + Cardinality(ext[x][l]) <= Total(l)
    <3>1. DistCap(l) \in Nat /\ Total(l) \in Nat
      BY Sizes
    <3>2. Cardinality(dist[x][l]) = 0 /\ Cardinality(ext[x][l]) = 0
      BY <1>4, <2>1
    <3> QED BY <3>1, <3>2
  <2> QED BY <2>2 DEF SlotsSuffice
<1> QED BY <1>1, <1>2, <1>3, <1>5, <1>6, <1>7, <1>8 DEF IInv

\* Every step preserves the invariant.
LEMMA StepInvariant == IInv /\ [Next]_vars => IInv'
<1> SUFFICES ASSUME IInv, [Next]_vars PROVE IInv'
  OBVIOUS
<1>0. TypeOK /\ ThreadsInv /\ BatchInv /\ PublishedInv /\ SlotsSuffice
  BY DEF IInv
<1>1. TypeOK'
  BY <1>0, TypeStep
<1>2. ThreadsInv'
  BY <1>0, ThreadsStep
<1>3. BatchInv'
  BY <1>2, StagesStep, LocksStep, TopStep DEF BatchInv
<1>4. PublishedInv'
  BY <1>2, PublishedStep
<1>5. FreshInv' /\ MutualInv'
  BY <1>2, <1>4, FreshStep, MutualStep
<1>6. RangeInv'
  BY <1>1, <1>2, TopFixedStep, LevelsReachedStep DEF RangeInv
<1>7. NoSelfLinks' /\ SlotsSuffice'
  BY WellFormedStep
<1> QED BY <1>1, <1>2, <1>3, <1>4, <1>5, <1>6, <1>7 DEF IInv

-----------------------------------------------------------------------------
(* Links are never lost                                                     *)

\* no list loses its closest dist-oriented link but to a closer one
KeepsClosest == \A x \in Points, l \in Levels : \A v \in dist[x][l] :
                  \E w \in dist'[x][l] : Dist[x][w] <= Dist[x][v]

\* Only reset() takes the closest dist-oriented link of a list away.
LEMMA ClosestStep ==
  ASSUME IInv, [Next]_vars, ~Reset
  PROVE  KeepsClosest
<1>0. TypeOK /\ ThreadsInv /\ PublishedInv /\ SlotsSuffice
  BY DEF IInv
<1>1. \A x \in Points, l \in Levels : \A v \in dist[x][l] : Dist[x][v] <= Dist[x][v]
  BY <1>0, DistAssumption DEF TypeOK
<1>2. ASSUME NEW t \in Threads, LinkDist(t) PROVE KeepsClosest
  <2>1. /\ pt[t] \in Points /\ level[t] \in Levels /\ dist[pt[t]][level[t]] = {}
    BY <1>0, <1>2, ThreadFacts, SearcherUnpublished DEF LinkDist, SearchOver
  <2>2. PICK D \in SUBSET found[t] : SetsZones(pt[t], level[t], D, {})
    BY <1>0, <1>2, LinkDistEffect
  <2>3. \A x \in Points, l \in Levels :
          ~(x = pt[t] /\ l = level[t]) => dist'[x][l] = dist[x][l]
    BY <1>0, <2>1, <2>2 DEF SetsZones, TypeOK
  <2> QED BY <1>1, <2>1, <2>3 DEF KeepsClosest
<1>3. ASSUME NEW t \in Threads, ReverseDist(t) PROVE KeepsClosest
  <2>1. level[t] \in Levels
    BY <1>0, <1>3, ThreadFacts DEF ReverseDist, Linking
  <2>2. PICK o \in todo[t] : o \in Points /\
           \E D \in SUBSET (dist[o][level[t]] \cup {pt[t]}),
              E \in SUBSET Nbrs(o, level[t]) :
             /\ SetsZones(o, level[t], D, E)
             /\ \A v \in dist[o][level[t]] : \E w \in D : Dist[o][w] <= Dist[o][v]
    BY <1>0, <1>3, ReverseDistEffect
  <2>3. /\ \A v \in dist[o][level[t]] :
             \E w \in dist'[o][level[t]] : Dist[o][w] <= Dist[o][v]
        /\ \A x \in Points, l \in Levels :
             ~(x = o /\ l = level[t]) => dist'[x][l] = dist[x][l]
    BY <1>0, <2>1, <2>2 DEF SetsZones, TypeOK
  <2> QED BY <1>1, <2>3 DEF KeepsClosest
<1>4. ASSUME dist' = dist PROVE KeepsClosest
  BY <1>1, <1>4 DEF KeepsClosest
<1>5. ASSUME NEW t \in Threads, Step(t), ~LinkDist(t), ~ReverseDist(t) PROVE dist' = dist
  <2>1. CASE SearchStep(t) \/ LinkExt(t) \/ ReverseExt(t) \/ NextLevel(t)
    BY <2>1 DEF SearchStep, StartSearch, Expand, Scan, EndScan, LinkExt, ReverseExt,
       NextLevel, graph
  <2>2. CASE \/ EnterFirst(t) \/ Enter(t) \/ LockAndReadLevel(t)
             \/ GreedyHop(t) \/ GreedyDrop(t)
    BY <2>2 DEF EnterFirst, Enter, LockAndReadLevel, GreedyHop, GreedyDrop, graph
  <2>3. CASE Unlock(t) \/ CheckTop(t) \/ RaiseLevel(t) \/ RaiseEntry(t) \/ Finish(t)
    BY <2>3 DEF Unlock, CheckTop, RaiseLevel, RaiseEntry, Finish, graph
  <2> QED BY <1>5, <2>1, <2>2, <2>3 DEF Step, LinkStep
<1>6. CASE StartAdd \/ EndAdd \/ Throw \/ UNCHANGED vars
  BY <1>4, <1>6 DEF StartAdd, EndAdd, Throw, vars, graph
<1> QED BY <1>2, <1>3, <1>4, <1>5, <1>6 DEF Next

-----------------------------------------------------------------------------
(* No dead ends                                                             *)

\* A first write of links writes some if the search found any.
LEMMA OwnLinksWritten ==
  ASSUME TypeOK, ThreadsInv, PublishedInv, NEW t \in Threads, LinkDist(t), found[t] # {}
  PROVE  dist'[pt[t]][level[t]] # {}
<1> DEFINE p == pt[t]
           l == level[t]
<1>1. /\ p \in Points /\ l \in Levels /\ dist[p][l] = {} /\ found[t] \in SUBSET Points
      /\ dist \in [Points -> [Levels -> SUBSET Points]]
  BY ThreadFacts, SearcherUnpublished DEF LinkDist, SearchOver, TypeOK
<1>2. DistCap(l) \in Nat \ {0}
  BY <1>1, Sizes
<1>3. \A S \in SUBSET Points : S # {} => \A K \in Shrunk(p, S, DistCap(l)) : K # {}
  BY <1>1, <1>2, ShrunkKeepsClosest
<1>4. PICK links \in Shrunk(p, found[t], DistCap(l)) :
        \E D \in Batched(p, dist[p][l], links, DistCap(l)) :
          dist' = [dist EXCEPT ![p][l] = D]
  BY DEF LinkDist
<1>5. links # {} /\ links \cup dist[p][l] = links /\ links \in SUBSET Points
  BY <1>1, <1>3, <1>4, SelectionsAreSubsets
<1>6. PICK D \in Batched(p, dist[p][l], links, DistCap(l)) :
        dist' = [dist EXCEPT ![p][l] = D]
  BY <1>4
<1>7. D # {}
  BY <1>3, <1>5, <1>6 DEF Batched
<1> QED BY <1>1, <1>6, <1>7

\* The target of a reverse link has links afterwards.
LEMMA BackLinkWritten ==
  ASSUME TypeOK, ThreadsInv, NEW t \in Threads, ReverseDist(t)
  PROVE  \E o \in todo[t] : dist'[o][level[t]] # {}
<1> DEFINE p == pt[t]
           l == level[t]
<1>1. /\ p \in Points /\ l \in Levels /\ todo[t] \in SUBSET Points
      /\ dist \in [Points -> [Levels -> SUBSET Points]]
  BY ThreadFacts DEF ReverseDist, TypeOK, Linking
<1>2. PICK o \in Farthest(p, todo[t]) :
        \E D \in Added(o, dist[o][l], p, DistCap(l)) : dist' = [dist EXCEPT ![o][l] = D]
  BY DEF ReverseDist
<1>3. o \in todo[t] /\ o \in Points /\ dist[o][l] \cup {p} \in SUBSET Points
  <2>1. o \in todo[t]
    BY <1>2, SelectionsAreSubsets
  <2> QED BY <1>1, <2>1
<1>4. PICK D \in Added(o, dist[o][l], p, DistCap(l)) : dist' = [dist EXCEPT ![o][l] = D]
  BY <1>2
<1>5. D # {}
  <2>1. \A K \in Shrunk(o, dist[o][l] \cup {p}, DistCap(l)) : K # {}
    <3>1. DistCap(l) \in Nat \ {0} /\ p \in dist[o][l] \cup {p}
      BY <1>1, Sizes
    <3> QED BY <1>3, <3>1, ShrunkKeepsClosest
  <2> QED BY <1>4, <2>1 DEF Added
<1> QED BY <1>1, <1>3, <1>4, <1>5

\* A search has something to link, at least its entry, and no more than its
\* result heap holds.
FoundOk(t) == pc[t] \in {"pop", "scan"} =>
                found[t] # {} /\ Cardinality(found[t]) <= efConstruction
FoundInv == \A t \in Threads : FoundOk(t)

\* The scan of a list keeps it so,
LEMMA FoundStays ==
  ASSUME TypeOK, ThreadsInv, NEW t \in Threads, Step(t), FoundOk(t), pc'[t] \in {"pop", "scan"}
  PROVE  found'[t] # {} /\ Cardinality(found'[t]) <= efConstruction
<1>1. CASE StartSearch(t)
  <2>1. found'[t] = {nearest[t]}
    BY <1>1 DEF StartSearch, TypeOK
  <2>2. Cardinality({nearest[t]}) = 1
    BY FS_Singleton
  <2> QED BY <2>1, <2>2, SizeAssumption
<1>2. CASE Expand(t) \/ EndScan(t)
  BY <1>2 DEF Expand, EndScan, FoundOk
<1>3. CASE Scan(t)
  <2>1. /\ pc[t] = "scan" /\ found[t] # {} /\ found[t] \in SUBSET Points
        /\ Cardinality(found[t]) <= efConstruction
    BY <1>3 DEF Scan, TypeOK, FoundOk
  <2>2. PICK v \in Readable(t) : ScanDist(t, v) \/ ScanExt(t, v) \/ ScanSkip(t, v)
    BY <1>3 DEF Scan
  <2>3. CASE ScanDist(t, v)
    <3>1. PICK K \in KeepNearest(pt[t], found[t] \cup {v}, efConstruction) :
            found' = [found EXCEPT ![t] = K]
      BY <2>3 DEF ScanDist
    <3>2. K # {} /\ Cardinality(K) <= efConstruction
      <4>1. Cardinality({}) = 0 /\ efConstruction \in Nat \ {0}
        BY FS_EmptySet, SizeAssumption
      <4> QED BY <3>1, <4>1 DEF KeepNearest
    <3> QED BY <3>1, <3>2 DEF TypeOK
  <2>4. CASE ScanExt(t, v) \/ ScanSkip(t, v)
    BY <2>1, <2>4 DEF ScanExt, ScanSkip
  <2> QED BY <2>2, <2>3, <2>4
<1>4. ~(\/ EnterFirst(t) \/ Enter(t) \/ LockAndReadLevel(t) \/ GreedyHop(t) \/ GreedyDrop(t)
        \/ LinkStep(t) \/ Unlock(t) \/ CheckTop(t) \/ RaiseLevel(t) \/ RaiseEntry(t)
        \/ Finish(t))
  <2>1. pc \in [Threads -> {"idle", "lock"} \cup Inserting \cup Ending]
    BY DEF TypeOK
  <2>2. ~(\/ EnterFirst(t) \/ Enter(t) \/ LockAndReadLevel(t) \/ GreedyHop(t)
          \/ GreedyDrop(t))
    BY <2>1 DEF EnterFirst, Enter, LockAndReadLevel, GreedyHop, GreedyDrop, Descending
  <2>3. ~LinkStep(t)
    BY <2>1 DEF LinkStep, LinkDist, ReverseDist, LinkExt, ReverseExt, NextLevel
  <2>4. ~(Unlock(t) \/ CheckTop(t) \/ RaiseLevel(t) \/ RaiseEntry(t) \/ Finish(t))
    BY <2>1 DEF Unlock, CheckTop, RaiseLevel, RaiseEntry, Finish
  <2> QED BY <2>2, <2>3, <2>4
<1> QED BY <1>1, <1>2, <1>3, <1>4 DEF Step, SearchStep

\* and so does every step.
LEMMA FoundStep ==
  ASSUME IInv, FoundInv, [Next]_vars
  PROVE  FoundInv'
<1>0. TypeOK /\ ThreadsInv
  BY DEF IInv
<1>1. CASE StartAdd \/ EndAdd \/ Throw \/ Reset \/ UNCHANGED vars
  BY <1>1 DEF StartAdd, EndAdd, Throw, Reset, vars, search, FoundInv, FoundOk
<1>2. ASSUME NEW t \in Threads, Step(t), NEW u \in Threads PROVE FoundOk(u)'
  <2>1. CASE u = t
    BY <1>0, <1>2, <2>1, FoundStays DEF FoundInv, FoundOk
  <2>2. CASE u # t
    BY <1>0, <1>2, <2>2, OtherThreads DEF Registers, FoundInv, FoundOk
  <2> QED BY <2>1, <2>2
<1> QED BY <1>1, <1>2 DEF Next, FoundInv

\* Besides the entry point of an empty index, only the first write of links
\* publishes a point, at the level of the write.
LEMMA NewlyPublished ==
  ASSUME IInv, ~TallerLater, NEW t \in Threads, Step(t), NEW x \in Points, NEW l \in Levels,
         x # entry_point', l <= Level[x], Published(x, l)'
  PROVE  Published(x, l) \/ (LinkDist(t) /\ x = pt[t] /\ l = level[t])
<1>0. TypeOK /\ ThreadsInv /\ TopInv /\ TopFixed /\ StagesInv
  BY DEF IInv, BatchInv, RangeInv
<1>1. l \in Int /\ Level[x] \in Int /\ max_level \in Int /\ \A u \in Threads : level[u] \in Int
  BY <1>0, LevelAssumption DEF TypeOK, Levels
<1>2. CASE stage'[x] = "linked"
  <2>1. CASE stage[x] = "linked"
    BY <2>1 DEF Published
  <2>2. CASE stage[x] # "linked"
    <3>1. ~EnterFirst(t)
      BY <1>0, <1>2, <2>2 DEF EnterFirst, TypeOK
    <3>2. ~Enter(t)
      <4>1. ASSUME NEW p \in Points, stage' = [stage EXCEPT ![p] = "running"] PROVE FALSE
        BY <1>0, <1>2, <2>2, <4>1 DEF TypeOK
      <4> QED BY <4>1 DEF Enter
    <3>3. Unlock(t)
      BY <1>0, <1>2, <2>2, <3>1, <3>2, ControlStep
    <3>4. x = pt[t] /\ pc[t] = "level" /\ level[t] = -1
      BY <1>0, <1>2, <2>2, <3>3 DEF Unlock, TypeOK
    <3>5. level[t] < l
      BY <3>4, LevelAssumption DEF Levels
    <3> QED BY <3>4, <3>5 DEF Published, Inserting
  <2> QED BY <2>1, <2>2
<1>3. CASE stage'[x] # "linked"
  <2>1. PICK u \in Threads : /\ pt'[u] = x /\ pc'[u] \in Inserting
                             /\ level'[u] < l \/ (level'[u] = l /\ pc'[u] \in Linking)
    BY <1>3 DEF Published
  <2>2. CASE u # t
    BY <1>0, <2>1, <2>2, OtherThreads DEF Registers, Published
  <2>3. CASE u = t
    <3>1. CASE LockAndReadLevel(t)
      <4>1. level'[t] = max_level /\ pc'[t] = "level" /\ pt[t] = x /\ pc[t] = "lock"
        BY <1>0, <2>1, <2>3, <3>1 DEF LockAndReadLevel, TypeOK
      <4>2. stage[x] = "running" /\ entry_point # NoPoint
        BY <1>0, <4>1 DEF ThreadsInv, ThreadOk, TopInv, AllIdle
      <4>3. Level[x] <= max_level
        BY <1>0, <4>2 DEF TopFixed
      <4> QED BY <1>1, <2>1, <2>3, <4>1, <4>3 DEF Linking
    <3>2. CASE GreedyHop(t)
      <4>1. pt[t] = x /\ pc[t] = "level" /\ pc' = pc /\ level' = level
        BY <2>1, <2>3, <3>2 DEF GreedyHop, Descending
      <4> QED BY <2>1, <2>3, <4>1 DEF Published, Inserting, Linking
    <3>3. CASE GreedyDrop(t)
      <4>1. pt[t] = x /\ pc'[t] = "level" /\ level'[t] = level[t] - 1 /\ level[t] > Level[x]
        BY <1>0, <2>1, <2>3, <3>3 DEF GreedyDrop, Descending, TypeOK
      <4> QED BY <1>1, <2>1, <2>3, <4>1 DEF Linking
    <3>4. CASE SearchStep(t)
      <4>1. /\ pt[t] = x /\ pc[t] \in {"level", "pop", "scan"} /\ level' = level
            /\ pc'[t] \notin Linking
        BY <1>0, <2>1, <2>3, <3>4 DEF SearchStep, StartSearch, Expand, Scan, EndScan, position,
                               TypeOK, Linking
      <4> QED BY <2>1, <2>3, <4>1 DEF Published, Inserting
    <3>5. CASE LinkDist(t)
      <4>1. pt[t] = x /\ pc[t] = "pop" /\ level' = level
        BY <2>1, <2>3, <3>5 DEF LinkDist, SearchOver, position
      <4> QED BY <2>1, <2>3, <3>5, <4>1 DEF Published, Inserting
    <3>6. CASE ReverseDist(t) \/ LinkExt(t) \/ ReverseExt(t)
      <4>1. pt[t] = x /\ pc[t] \in Linking /\ level' = level
        BY <2>1, <2>3, <3>6 DEF ReverseDist, LinkExt, ReverseExt, position, Linking
      <4> QED BY <2>1, <2>3, <4>1 DEF Published, Inserting
    <3>7. CASE NextLevel(t)
      <4>1. /\ pt[t] = x /\ pc[t] = "revExt" /\ level'[t] = level[t] - 1
            /\ pc'[t] = "level"
        BY <1>0, <2>1, <2>3, <3>7 DEF NextLevel, TypeOK
      <4>2. level[t] < l \/ level[t] = l
        BY <1>1, <2>1, <2>3, <4>1 DEF Linking
      <4> QED BY <4>1, <4>2 DEF Published, Inserting, Linking
    <3>8. ~(\/ EnterFirst(t) \/ Enter(t) \/ Unlock(t) \/ CheckTop(t) \/ RaiseLevel(t)
            \/ RaiseEntry(t) \/ Finish(t))
      <4>1. pc \in [Threads -> {"idle", "lock"} \cup Inserting \cup Ending]
        BY <1>0 DEF TypeOK
      <4>2. pc'[t] \notin {"idle", "lock", "check", "raise", "raiseEntry", "done"}
        BY <2>1, <2>3 DEF Inserting, Linking
      <4> QED BY <4>1, <4>2
              DEF EnterFirst, Enter, Unlock, CheckTop, RaiseLevel, RaiseEntry, Finish
    <3> QED BY <3>1, <3>2, <3>3, <3>4, <3>5, <3>6, <3>7, <3>8 DEF Step, LinkStep
  <2> QED BY <2>2, <2>3
<1> QED BY <1>2, <1>3

\* A list that has dist-oriented links keeps some in every step of a thread.
LEMMA DistStays ==
  ASSUME IInv, NEW t \in Threads, Step(t), NEW x \in Points, NEW l \in Levels,
         dist[x][l] # {}
  PROVE  dist'[x][l] # {}
<1>1. CASE Reset
  <2>1. batch = {} /\ pc[t] = "idle" /\ TypeOK
    BY <1>1 DEF Reset, IInv, BatchInv, StagesInv, AllIdle
  <2>2. ~(EnterFirst(t) \/ Enter(t))
    BY <2>1 DEF EnterFirst, Enter, MayRun, Queued
  <2> QED BY <2>1, <2>2, ControlStep
<1>2. CASE ~Reset
  <2>1. KeepsClosest
    BY <1>2, ClosestStep DEF Next
  <2> QED BY <2>1 DEF KeepsClosest
<1> QED BY <1>1, <1>2

\* a published point other than the entry point has links
LinkedInv ==
  \A x \in Points, l \in Levels :
    x # entry_point /\ l <= Level[x] /\ Published(x, l) => dist[x][l] # {}

\* the entry point has no links at level l
Alone(l) == entry_point # NoPoint /\ dist[entry_point][l] = {}

\* Then whoever inserts a point there still has its search or its reverse link
\* to the entry point before it, and has met nothing else.
AloneOk(t, l) ==
  pc[t] \in Inserting =>
    /\ l <= Level[pt[t]] => l <= level[t]
    /\ level[t] = l => /\ pc[t] # "revExt"
                       /\ Held(t) \subseteq {entry_point}
                       /\ pc[t] = "revDist" => todo[t] # {} /\ others[t] = {}

\* And no other point is linked there.
AloneInv ==
  \A l \in Levels : Alone(l) =>
    /\ Nbrs(entry_point, l) = {}
    /\ \A x \in Points : x # entry_point /\ l <= Level[x] => stage[x] # "linked"
    /\ \A t \in Threads : AloneOk(t, l)

\* Published points go on having links.
LEMMA LinkedStep ==
  ASSUME IInv, ~TallerLater, FoundInv, LinkedInv, [Next]_vars
  PROVE  LinkedInv'
<1>0. TypeOK /\ ThreadsInv /\ StagesInv /\ TopInv /\ PublishedInv /\ TopFixed
  BY DEF IInv, BatchInv, RangeInv
<1>1. CASE StartAdd \/ EndAdd \/ Throw \/ UNCHANGED vars
  <2>1. /\ UNCHANGED <<dist, entry_point, pc, pt, level, found>>
        /\ \A x \in Points : stage'[x] = "linked" => stage[x] = "linked"
    BY <1>0, <1>1 DEF StartAdd, EndAdd, Throw, vars, graph, top, adding, position, search,
       TypeOK
  <2>2. \A x \in Points, l \in Levels : Published(x, l)' => Published(x, l)
    BY <2>1 DEF Published
  <2> QED BY <2>1, <2>2 DEF LinkedInv
<1>2. CASE Reset
  <2>1. \A t \in Threads : pc'[t] = "idle"
    BY <1>0, <1>2 DEF Reset, StagesInv, AllIdle
  <2>2. \A x \in Points : stage'[x] = "absent"
    BY <1>2 DEF Reset
  <2> QED BY <2>1, <2>2 DEF LinkedInv, Published, Inserting, Linking
<1>3. ASSUME NEW t \in Threads, Step(t) PROVE LinkedInv'
  <2>1. ASSUME NEW x \in Points, NEW l \in Levels, x # entry_point', l <= Level[x],
               Published(x, l)'
        PROVE  dist'[x][l] # {}
    <3>1. CASE Published(x, l)
      <4>1. x # entry_point
        <5>1. CASE EnterFirst(t)
          BY <5>1, NullAssumption DEF EnterFirst
        <5>2. CASE ~EnterFirst(t)
          <6>1. ~RaiseEntry(t)
            BY <1>0 DEF RaiseEntry, TopFixed
          <6> QED BY <1>0, <1>3, <2>1, <5>2, <6>1, ControlStep
        <5> QED BY <5>1, <5>2
      <4>2. dist[x][l] # {}
        BY <2>1, <3>1, <4>1 DEF LinkedInv
      <4> QED BY <1>3, <4>2, DistStays
    <3>2. CASE LinkDist(t) /\ x = pt[t] /\ l = level[t]
      <4>1. found[t] # {}
        BY <3>2 DEF LinkDist, SearchOver, FoundInv, FoundOk
      <4> QED BY <1>0, <3>2, <4>1, OwnLinksWritten
    <3> QED BY <1>3, <2>1, <3>1, <3>2, NewlyPublished
  <2> QED BY <2>1 DEF LinkedInv
<1> QED BY <1>1, <1>2, <1>3 DEF Next

\* What a thread does at a level where the entry point is alone.
LEMMA OwnAlone ==
  ASSUME IInv, ThreadsInv', ~TallerLater, FoundInv, AloneInv, NEW t \in Threads, Step(t),
         ~EnterFirst(t), NEW l \in Levels, Alone(l), dist'[entry_point][l] = {},
         entry_point' = entry_point
  PROVE  AloneOk(t, l)'
<1> DEFINE e == entry_point
<1>0. /\ TypeOK /\ ThreadsInv /\ StagesInv /\ TopInv /\ PublishedInv /\ FreshInv /\ TopFixed
      /\ LevelsReached /\ SlotsSuffice
  BY DEF IInv, BatchInv, RangeInv
<1>1. /\ Nbrs(e, l) = {} /\ AloneOk(t, l) /\ e \in Points
      /\ \A x \in Points : x # e /\ l <= Level[x] => stage[x] # "linked"
  BY <1>0 DEF AloneInv, Alone, TypeOK
<1>2. l \in Int /\ l >= 0 /\ level[t] \in Int /\ max_level \in Int
      /\ \A x \in Points : Level[x] \in Int
  BY <1>0, LevelAssumption DEF TypeOK, Levels
<1> SUFFICES ASSUME pc'[t] \in Inserting
             PROVE  /\ l <= Level[pt'[t]] => l <= level'[t]
                    /\ level'[t] = l => /\ pc'[t] # "revExt"
                                        /\ Held(t)' \subseteq {e}
                                        /\ pc'[t] = "revDist" => todo'[t] # {} /\ others'[t] = {}
  BY DEF AloneOk
<1>3. CASE LockAndReadLevel(t)
  <2>1. /\ pc[t] = "lock" /\ level'[t] = max_level /\ pt' = pt /\ pc'[t] = "level"
        /\ pt[t] \in Points
    BY <1>0, <1>3, ThreadFacts DEF LockAndReadLevel, TypeOK
  <2>2. stage[pt[t]] = "running" /\ entry_point # NoPoint
    BY <1>0, <2>1 DEF ThreadsInv, ThreadOk, TopInv, AllIdle
  <2>3. Level[pt[t]] <= max_level
    BY <1>0, <2>1, <2>2 DEF TopFixed
  <2>4. Held(t)' = {}
    <3>1. ThreadOk(t)'
      BY DEF ThreadsInv
    <3> QED BY <2>1, <3>1 DEF ThreadOk, Held, Pending, Linking
  <2> QED BY <1>2, <2>1, <2>3, <2>4
<1>4. CASE GreedyHop(t) \/ GreedyDrop(t)
  <2>1. /\ pc[t] = "level" /\ pc'[t] = "level" /\ pt' = pt /\ pt[t] \in Points
        /\ Level[pt[t]] <= level'[t]
    <3>1. CASE GreedyHop(t)
      BY <1>0, <1>2, <3>1, ThreadFacts DEF GreedyHop, Descending
    <3>2. CASE GreedyDrop(t)
      <4>1. level'[t] = level[t] - 1 /\ level[t] > Level[pt[t]] /\ pt[t] \in Points
        BY <1>0, <3>2, ThreadFacts DEF GreedyDrop, Descending, TypeOK
      <4> QED BY <1>2, <3>2, <4>1 DEF GreedyDrop, Descending
    <3> QED BY <1>4, <3>1, <3>2
  <2>2. Held(t)' = {}
    <3>1. ThreadOk(t)'
      BY DEF ThreadsInv
    <3> QED BY <2>1, <3>1 DEF ThreadOk, Held, Pending, Linking
  <2>3. level'[t] \in Int
    BY <1>0, <1>2, <1>4 DEF GreedyHop, GreedyDrop, TypeOK
  <2> QED BY <1>2, <2>1, <2>2, <2>3
<1>5. CASE SearchStep(t)
  <2>1. /\ pc[t] \in {"level", "pop", "scan"} /\ pc'[t] \in {"pop", "scan"}
        /\ pt' = pt /\ level' = level /\ nearest' = nearest
    BY <1>0, <1>5 DEF SearchStep, StartSearch, Expand, Scan, EndScan, position, TypeOK
  <2>2. l <= Level[pt'[t]] => l <= level'[t]
    BY <1>1, <2>1 DEF AloneOk, Inserting
  <2>3. ASSUME level'[t] = l, NEW v \in Held(t)' PROVE v = e
    <3>1. /\ pc[t] \in Inserting /\ level[t] = l
          /\ \/ v \in Held(t)
             \/ pc[t] = "level" /\ v = nearest[t]
             \/ pc[t] = "scan" /\ v \in Nbrs(cur[t], level[t])
      BY <1>0, <1>5, <2>3, HeldStep
    <3>2. Held(t) \subseteq {e}
      BY <1>1, <3>1 DEF AloneOk
    <3>3. CASE v = nearest[t]
      <4>1. v \in Points /\ stage[v] = "linked" /\ l <= Level[v]
        BY <1>0, <1>2, <3>1, <3>3 DEF ThreadsInv, ThreadOk, LevelsReached, AccessInRange
      <4> QED BY <1>1, <4>1
    <3>4. CASE pc[t] = "scan" /\ v \in Nbrs(cur[t], level[t])
      <4>1. cur[t] # NoPoint
        BY <1>0, <3>4 DEF ThreadsInv, ThreadOk
      <4>2. cur[t] = e
        BY <3>2, <4>1 DEF Held
      <4> QED BY <1>1, <3>1, <3>4, <4>2
    <3> QED BY <3>1, <3>2, <3>3, <3>4
  <2> QED BY <2>1, <2>2, <2>3
<1>6. CASE LinkDist(t)
  <2>1. /\ pc[t] = "pop" /\ pc'[t] = "revDist" /\ pt' = pt /\ level' = level
        /\ pt[t] \in Points /\ level[t] \in Levels
    BY <1>0, <1>6, ThreadFacts DEF LinkDist, SearchOver, position, TypeOK
  <2>2. l <= Level[pt'[t]] => l <= level'[t]
    BY <1>1, <2>1 DEF AloneOk, Inserting
  <2>3. ASSUME level[t] = l
        PROVE  Held(t)' \subseteq {e} /\ todo'[t] # {} /\ others'[t] = {}
    <3>1. Held(t) \subseteq {e}
      BY <1>1, <2>1, <2>3 DEF AloneOk, Inserting
    <3>2. PICK D \in SUBSET found[t] :
             /\ SetsZones(pt[t], level[t], D, {})
             /\ todo' = [todo EXCEPT ![t] = D]
             /\ others' = [others EXCEPT ![t] = others[t] \cup (found[t] \ D)]
      BY <1>0, <1>6, LinkDistEffect
    <3>3. found[t] # {} /\ found[t] \cap others[t] = {}
      BY <1>0, <2>1 DEF FoundInv, FoundOk, FreshInv, FreshOk
    <3>4. D # {}
      <4>1. dist'[pt[t]][level[t]] = D
        BY <1>0, <2>1, <3>2 DEF SetsZones, TypeOK
      <4> QED BY <1>0, <1>6, <3>3, <4>1, OwnLinksWritten
    <3>5. found[t] = {e} /\ others[t] = {} /\ D = {e}
      BY <3>1, <3>3, <3>4 DEF Held, Pending
    <3>6. todo'[t] = {e} /\ others'[t] = {}
      BY <1>0, <3>2, <3>5 DEF TypeOK
    <3>7. Held(t)' \subseteq {e}
      <4>1. ThreadOk(t)'
        BY DEF ThreadsInv
      <4> QED BY <2>1, <3>6, <4>1 DEF ThreadOk, Held, Pending
    <3> QED BY <3>6, <3>7
  <2> QED BY <2>1, <2>2, <2>3
<1>7. CASE ReverseDist(t)
  <2>1. /\ pc[t] = "revDist" /\ pc' = pc /\ pt' = pt /\ level' = level
    BY <1>7 DEF ReverseDist, position
  <2>2. l <= Level[pt'[t]] => l <= level'[t]
    BY <1>1, <2>1 DEF AloneOk, Inserting, Linking
  <2>3. level[t] # l
    <3>1. ASSUME level[t] = l PROVE FALSE
      <4>1. todo[t] \subseteq {e}
        BY <1>1, <2>1, <3>1 DEF AloneOk, Held, Pending, Inserting, Linking
      <4>2. \E o \in todo[t] : dist'[o][level[t]] # {}
        BY <1>0, <1>7, BackLinkWritten
      <4> QED BY <3>1, <4>1, <4>2
    <3> QED BY <3>1
  <2> QED BY <2>1, <2>2, <2>3
<1>8. CASE LinkExt(t)
  <2>1. pc[t] = "revDist" /\ todo[t] = {} /\ pt' = pt /\ level' = level
    BY <1>8 DEF LinkExt, position
  <2>2. level[t] # l /\ (l <= Level[pt'[t]] => l <= level'[t])
    BY <1>1, <2>1 DEF AloneOk, Inserting, Linking
  <2> QED BY <2>1, <2>2
<1>9. CASE ReverseExt(t)
  <2>1. pc[t] = "revExt" /\ pt' = pt /\ level' = level
    BY <1>9 DEF ReverseExt, position
  <2>2. level[t] # l /\ (l <= Level[pt'[t]] => l <= level'[t])
    BY <1>1, <2>1 DEF AloneOk, Inserting, Linking
  <2> QED BY <2>1, <2>2
<1>10. CASE NextLevel(t)
  <2>1. /\ pc[t] = "revExt" /\ pt' = pt /\ level'[t] = level[t] - 1
        /\ pc'[t] = "level"
    BY <1>0, <1>10 DEF NextLevel, TypeOK
  <2>2. level[t] # l /\ (l <= Level[pt[t]] => l <= level[t])
    BY <1>1, <2>1 DEF AloneOk, Inserting, Linking
  <2>3. Held(t)' = {}
    <3>1. ThreadOk(t)'
      BY DEF ThreadsInv
    <3> QED BY <2>1, <3>1 DEF ThreadOk, Held, Pending, Linking
  <2> QED BY <1>2, <2>1, <2>2, <2>3
<1>11. ~(\/ Enter(t) \/ Unlock(t) \/ CheckTop(t) \/ RaiseLevel(t)
         \/ RaiseEntry(t) \/ Finish(t))
  <2>1. pc \in [Threads -> {"idle", "lock"} \cup Inserting \cup Ending]
    BY <1>0 DEF TypeOK
  <2>2. pc'[t] \notin {"idle", "lock", "check", "raise", "raiseEntry", "done"}
    BY DEF Inserting, Linking
  <2> QED BY <2>1, <2>2
          DEF Enter, Unlock, CheckTop, RaiseLevel, RaiseEntry, Finish
<1> QED BY <1>3, <1>4, <1>5, <1>6, <1>7, <1>8, <1>9, <1>10, <1>11 DEF Step, LinkStep

\* The entry point of an index goes on being alone in this way.
LEMMA AloneStep ==
  ASSUME IInv, ThreadsInv', ~TallerLater, FoundInv, AloneInv, [Next]_vars
  PROVE  AloneInv'
<1>0. /\ TypeOK /\ ThreadsInv /\ StagesInv /\ TopInv /\ PublishedInv /\ TopFixed
      /\ SlotsSuffice
  BY DEF IInv, BatchInv, RangeInv
<1>1. CASE StartAdd \/ EndAdd \/ Throw \/ UNCHANGED vars
  <2>1. /\ UNCHANGED <<dist, ext, entry_point>>
        /\ \A x \in Points : stage'[x] = "linked" => stage[x] = "linked"
    BY <1>0, <1>1 DEF StartAdd, EndAdd, Throw, vars, graph, top, adding, TypeOK
  <2>2. UNCHANGED <<pc, position, search, todo>>
    BY <1>1 DEF StartAdd, EndAdd, Throw, vars
  <2>3. \A t \in Threads, l \in Levels : AloneOk(t, l) => AloneOk(t, l)'
    BY <2>1, <2>2 DEF position, search, AloneOk, Held, Pending
  <2> QED BY <2>1, <2>3 DEF AloneInv, Alone, Nbrs
<1>2. CASE Reset
  BY <1>2 DEF Reset, AloneInv, Alone
<1>3. ASSUME NEW t \in Threads, EnterFirst(t) PROVE AloneInv'
  <2>1. PICK p \in Points : /\ MayRun(p) /\ entry_point' = p
                            /\ stage' = [stage EXCEPT ![p] = "linked"]
    BY <1>3 DEF EnterFirst
  <2>2. /\ AllIdle /\ pc' = [pc EXCEPT ![t] = "done"] /\ UNCHANGED graph
        /\ \A x \in Points : stage[x] \in {"absent", "queued"}
    BY <1>0, <1>3 DEF EnterFirst, TopInv
  <2>3. \A x \in Points : x # p => stage'[x] # "linked"
    BY <1>0, <2>1, <2>2 DEF TypeOK
  <2>4. \A u \in Threads : pc[u] = "idle" /\ pc'[u] \notin Inserting
    BY <1>0, <2>2 DEF AllIdle, TypeOK, Inserting, Linking
  <2>5. ASSUME NEW l \in Levels PROVE Nbrs(p, l)' = {}
    <3>1. ~Published(p, l)
      BY <2>2, <2>4 DEF Published, Inserting, Linking
    <3> QED BY <1>0, <2>2, <3>1 DEF PublishedInv, Nbrs, graph
  <2> QED BY <2>1, <2>3, <2>4, <2>5 DEF AloneInv, AloneOk
<1>4. ASSUME NEW t \in Threads, Step(t), ~EnterFirst(t) PROVE AloneInv'
  <2>1. entry_point' = entry_point
    <3>1. ~RaiseEntry(t)
      BY <1>0 DEF RaiseEntry, TopFixed
    <3> QED BY <1>0, <1>4, <3>1, ControlStep
  <2> SUFFICES ASSUME NEW l \in Levels, Alone(l)'
               PROVE  /\ Nbrs(entry_point, l)' = {}
                      /\ \A x \in Points : x # entry_point /\ l <= Level[x]
                                             => stage'[x] # "linked"
                      /\ \A u \in Threads : AloneOk(u, l)'
    BY <2>1 DEF AloneInv
  <2> DEFINE e == entry_point
  <2>2. e \in Points /\ dist'[e][l] = {} /\ Alone(l)
    <3>1. e # NoPoint /\ e \in Points /\ dist'[e][l] = {}
      BY <1>0, <2>1 DEF Alone, TypeOK
    <3>2. dist[e][l] = {}
      BY <1>4, <3>1, DistStays
    <3> QED BY <3>1, <3>2 DEF Alone
  <2>3. /\ Nbrs(e, l) = {}
        /\ \A x \in Points : x # e /\ l <= Level[x] => stage[x] # "linked"
        /\ \A u \in Threads : AloneOk(u, l)
    BY <2>2 DEF AloneInv
  <2>4. Nbrs(e, l)' = {}
    <3>1. ASSUME l = level[t], pc[t] \in {"pop"} \cup Linking,
                 e = pt[t] \/ (e \in todo[t] /\ pc[t] \in Linking)
          PROVE  FALSE
      <4>1. stage[pt[t]] = "running" /\ stage[e] = "linked"
        BY <1>0, <2>2, <3>1 DEF ThreadsInv, ThreadOk, TopInv, Alone, Inserting, Linking
      <4>2. e \in todo[t] /\ pc[t] \in Linking
        BY <3>1, <4>1
      <4>3. pc[t] = "revDist" /\ todo[t] \subseteq {e}
        BY <2>3, <3>1, <4>2 DEF AloneOk, Held, Pending, Inserting, Linking
      <4>4. ReverseDist(t)
        <5>1. todo[t] # {}
          BY <4>2
        <5>2. ~(\/ EnterFirst(t) \/ Enter(t) \/ LockAndReadLevel(t) \/ GreedyHop(t)
                \/ GreedyDrop(t) \/ SearchStep(t))
          BY <4>3 DEF EnterFirst, Enter, LockAndReadLevel, GreedyHop, GreedyDrop, Descending,
             SearchStep, StartSearch, Expand, Scan, EndScan
        <5>3. ~(LinkDist(t) \/ LinkExt(t) \/ ReverseExt(t) \/ NextLevel(t))
          BY <4>3, <5>1 DEF LinkDist, SearchOver, LinkExt, ReverseExt, NextLevel
        <5>4. ~(Unlock(t) \/ CheckTop(t) \/ RaiseLevel(t) \/ RaiseEntry(t) \/ Finish(t))
          BY <4>3 DEF Unlock, CheckTop, RaiseLevel, RaiseEntry, Finish
        <5> QED BY <1>4, <5>2, <5>3, <5>4 DEF Step, LinkStep
      <4>5. PICK o \in todo[t] : dist'[o][level[t]] # {}
        BY <1>0, <4>4, BackLinkWritten
      <4>6. o = e /\ level[t] = l
        BY <3>1, <4>3, <4>5
      <4> QED BY <2>2, <4>5, <4>6
    <3>2. ASSUME NEW x \in Points, x = e PROVE Nbrs(x, l)' = {}
      <4>1. \/ Nbrs(x, l)' = Nbrs(x, l)
            \/ /\ l = level[t] /\ pc[t] \in {"pop"} \cup Linking
               /\ WritesOwn(t, x, l) \/ WritesBack(t, x, l)
        BY <1>0, <1>4, ListStep
      <4>2. ~(/\ l = level[t] /\ pc[t] \in {"pop"} \cup Linking
              /\ WritesOwn(t, x, l) \/ WritesBack(t, x, l))
        BY <3>1, <3>2 DEF WritesOwn, WritesBack
      <4> QED BY <2>3, <3>2, <4>1, <4>2
    <3> QED BY <2>1, <2>2, <3>2 DEF Nbrs
  <2>5. ASSUME NEW x \in Points, x # e, l <= Level[x], stage'[x] = "linked" PROVE FALSE
    <3>1. stage[x] # "linked"
      BY <2>3, <2>5
    <3>2. ~Enter(t)
      <4>1. ASSUME NEW p \in Points, stage' = [stage EXCEPT ![p] = "running"] PROVE FALSE
        BY <1>0, <2>5, <3>1, <4>1 DEF TypeOK
      <4> QED BY <4>1 DEF Enter
    <3>3. Unlock(t)
      BY <1>0, <1>4, <2>5, <3>1, <3>2, ControlStep
    <3>4. x = pt[t] /\ pc[t] = "level" /\ level[t] = -1
      BY <1>0, <2>5, <3>1, <3>3 DEF Unlock, TypeOK
    <3>5. l <= -1
      <4>1. AloneOk(t, l)
        BY <2>3
      <4> QED BY <2>5, <3>4, <4>1 DEF AloneOk, Inserting
    <3> QED BY <3>5, LevelAssumption DEF Levels
  <2>6. ASSUME NEW u \in Threads PROVE AloneOk(u, l)'
    <3>1. CASE u = t
      BY <1>4, <2>1, <2>2, <3>1, OwnAlone
    <3>2. CASE u # t
      <4>1. UNCHANGED Registers(u)
        BY <1>0, <1>4, <3>2, OtherThreads
      <4> QED BY <2>1, <2>3, <4>1 DEF Registers, AloneOk, Held, Pending
    <3> QED BY <3>1, <3>2
  <2> QED BY <2>1, <2>4, <2>5, <2>6
<1> QED BY <1>1, <1>2, <1>3, <1>4 DEF Next

-----------------------------------------------------------------------------
(* The theorems                                                             *)

\* The conjunction of the parts is an inductive invariant of the construction.
THEOREM Invariance == Spec => []IInv
BY InitInvariant, StepInvariant, PTL DEF Spec

\* Every variable keeps its type: no thread goes below level -1 or above the
\* top, no list holds anything but points.
THEOREM TypeCorrect == Spec => []TypeOK
<1>1. IInv => TypeOK
  BY DEF IInv
<1> QED BY <1>1, Invariance, PTL

\* No list ever holds its own point, although no writer looks for it.
THEOREM NoSelfLinksEver == Spec => []NoSelfLinks
<1>1. IInv => NoSelfLinks
  BY DEF IInv
<1> QED BY <1>1, Invariance, PTL

\* The slots that prepare_level_tab reserves suffice, for every order of the
\* threads' writes.
THEOREM SlotsNeverOverflow == Spec => []SlotsSuffice
<1>1. IInv => SlotsSuffice
  BY DEF IInv
<1> QED BY <1>1, Invariance, PTL

\* A link leads to a point whose own links at that level have been written.
THEOREM LinksLeadSomewhere == Spec => []EntriesPublished
<1>1. IInv => EntriesPublished
  <2>1. ASSUME IInv, NEW x \in Points, NEW l \in Levels, NEW v \in Nbrs(x, l)
        PROVE  Published(v, l) /\ stage[v] \in {"running", "linked"}
    <3>1. /\ Published(v, l) /\ v \in Points
          /\ \A t \in Threads : pc[t] \in Inserting => stage[pt[t]] = "running"
      BY <2>1 DEF IInv, PublishedInv, ThreadsInv, ThreadOk, TypeOK, Nbrs
    <3> QED BY <3>1 DEF Published
  <2> QED BY <2>1 DEF EntriesPublished
<1> QED BY <1>1, Invariance, PTL

\* A reverse link about to be written is not there yet.
THEOREM LinksAreFresh == Spec => []FreshLinks
<1>1. IInv => FreshLinks
  BY DEF IInv, FreshInv, FreshOk, FreshLinks
<1> QED BY <1>1, Invariance, PTL

\* Two points inserted at once never find each other.
THEOREM NeverMutual == Spec => []NoMutualDiscovery
<1>1. IInv => NoMutualDiscovery
  BY DEF IInv, MutualInv, NoMutualDiscovery, Held
<1> QED BY <1>1, Invariance, PTL

\* As long as no later add() is taller than the index, no thread reads or
\* writes a list that a point does not have.
THEOREM RangesRespected == ASSUME ~TallerLater PROVE Spec => []AccessInRange
<1>1. IInv => AccessInRange
  BY DEF IInv, RangeInv, LevelsReached
<1> QED BY <1>1, Invariance, PTL

\* Between two calls all locks are free, every point is in the graph or out of
\* it, and the entry point is of the highest level.
THEOREM QuiescentTopHolds == Spec => []QuiescentTop
<1>1. IInv => QuiescentTop
  <2> SUFFICES ASSUME IInv, batch = {} PROVE QuiescentTop
    BY DEF QuiescentTop
  <2>1. AllIdle /\ TypeOK /\ ThreadsInv /\ StagesInv /\ LocksInv /\ TopInv
    BY DEF IInv, BatchInv, StagesInv
  <2>2. \A t \in Threads : pc[t] = "idle" /\ pt[t] = NoPoint
    BY <2>1 DEF AllIdle, ThreadsInv, ThreadOk
  <2>3. ASSUME NEW x \in Points
        PROVE  /\ stage[x] \in {"absent", "linked", "orphan"}
               /\ stage[x] = "linked" => Level[x] <= max_level
               /\ lock[x] = NoThread
    <3>1. stage[x] \notin {"queued", "running"}
      BY <2>1, <2>2, NullAssumption DEF StagesInv
    <3>2. stage[x] = "linked" => Level[x] <= max_level
      BY <2>1, <2>2 DEF TopInv
    <3>3. lock[x] = NoThread
      <4>1. lock[x] \in Threads \cup {NoThread}
        BY <2>1 DEF TypeOK
      <4>2. lock[x] # NoThread => pc[lock[x]] \in {"level", "pop", "scan"}
        BY <2>1 DEF LocksInv
      <4> QED BY <2>2, <4>1, <4>2
    <3> QED BY <2>1, <3>1, <3>2, <3>3 DEF TypeOK
  <2>4. entry_point # NoPoint => stage[entry_point] = "linked" /\ max_level = Level[entry_point]
    BY <2>1, <2>2 DEF TopInv
  <2> QED BY <2>3, <2>4 DEF QuiescentTop
<1> QED BY <1>1, Invariance, PTL

\* No step of any thread loses the closest dist-oriented link of a list.
THEOREM ClosestKept == Spec => ClosestLinkKept
<1>1. IInv /\ [Next]_vars => [Reset \/ KeepsClosest]_vars
  BY ClosestStep
<1> QED BY <1>1, Invariance, PTL DEF Spec, ClosestLinkKept, KeepsClosest

\* As long as no later add() is taller than the index, no linked point is a
\* dead end at a level that has another one: reverse links reach the first
\* point before the second is linked, and no pruning takes a list's last link.
THEOREM NoDeadEnds == ASSUME ~TallerLater PROVE Spec => []NoDeadEnd
<1>1. Init => FoundInv /\ LinkedInv /\ AloneInv
  <2> SUFFICES ASSUME Init PROVE FoundInv /\ LinkedInv /\ AloneInv
    OBVIOUS
  <2>1. FoundInv /\ LinkedInv
    BY DEF Init, FoundInv, FoundOk, LinkedInv, Published, Inserting, Linking
  <2>2. AloneInv
    BY DEF Init, AloneInv, Alone
  <2> QED BY <2>1, <2>2
<1>2. IInv /\ FoundInv /\ LinkedInv /\ AloneInv /\ [Next]_vars
        => FoundInv' /\ LinkedInv' /\ AloneInv'
  <2> SUFFICES ASSUME IInv, FoundInv, LinkedInv, AloneInv, [Next]_vars
               PROVE  FoundInv' /\ LinkedInv' /\ AloneInv'
    OBVIOUS
  <2>1. ThreadsInv'
    BY StepInvariant DEF IInv
  <2> QED BY <2>1, FoundStep, LinkedStep, AloneStep
<1>3. IInv /\ LinkedInv /\ AloneInv => NoDeadEnd
  <2> SUFFICES ASSUME IInv, LinkedInv, AloneInv,
                      NEW x \in Points, NEW y \in Points, NEW l \in Levels,
                      x # y, stage[x] = "linked", stage[y] = "linked",
                      l <= Level[x], l <= Level[y]
               PROVE  dist[x][l] # {}
    BY DEF NoDeadEnd
  <2>1. CASE x # entry_point
    BY <2>1 DEF LinkedInv, Published
  <2>2. CASE x = entry_point
    <3>1. x # NoPoint
      BY NullAssumption
    <3> QED BY <2>2, <3>1 DEF AloneInv, Alone
  <2> QED BY <2>1, <2>2
<1> QED BY <1>1, <1>2, <1>3, Invariance, PTL DEF Spec
=============================================================================
