----------------------- MODULE CandidateSearchProofs -----------------------
(***************************************************************************)
(* The search never takes a candidate out of a heap that has none, for     *)
(* every graph, every query and every efSearch, although nvalid may count  *)
(* fewer candidates than the heap holds; and both heaps hold the nearest   *)
(* of the points visited.                                                  *)
(***************************************************************************)
EXTENDS CandidateSearch, BoundedHeapProofs

\* Sets of points have a size, and what is not popped is a set of points.
LEMMA ValidIsFinite ==
  ASSUME TypeOK
  PROVE  /\ IsFiniteSet(held \ popped) /\ Cardinality(held \ popped) \in Nat
         /\ IsFiniteSet(held) /\ held \ popped \in SUBSET Points
<1>1. held \in SUBSET Points /\ held \ popped \in SUBSET Points
  BY DEF TypeOK
<1> QED BY <1>1, SearchAssumption, FS_Subset, FS_CardinalityType

\* A search starts with one candidate that is not popped.
LEMMA InitValid == Init => ValidInv
<1> SUFFICES ASSUME Init PROVE ValidInv
  OBVIOUS
<1>1. PICK nearest \in Points :
        held = {nearest} /\ popped = {} /\ nvalid = 1
        /\ visited = {nearest} /\ results = {nearest}
  BY DEF Init, Seed
<1>2. << >> \in Seq(Points)
  OBVIOUS
<1>3. TypeOK /\ PopFindsOne
  BY <1>1, <1>2 DEF Init, TypeOK, PopFindsOne
<1>4. held \ popped = {nearest}
  BY <1>1
<1>5. Cardinality(held \ popped) = 1
  BY <1>4, FS_Singleton, Zenon
<1>6. nvalid <= Cardinality(held \ popped)
  BY <1>1, <1>5
<1> QED BY <1>3, <1>6 DEF ValidInv

\* Popping takes one candidate, and there is one to take.
LEMMA PopValid == ASSUME ValidInv, Pop PROVE ValidInv'
<1>0. TypeOK /\ nvalid <= Cardinality(held \ popped) /\ nvalid > 0 /\ nvalid \in Int
  BY DEF ValidInv, Pop, TypeOK
<1>1. ~(held \subseteq popped)
  <2>1. held \subseteq popped => Cardinality(held \ popped) = 0
    <3>1. held \subseteq popped => held \ popped = {}
      OBVIOUS
    <3> QED BY <3>1, FS_EmptySet
  <2> QED BY <1>0, <2>1
<1>2. PICK v0 \in Nearest(held \ popped) :
        /\ popped' = popped \cup {v0} /\ nvalid' = nvalid - 1
        /\ IF do_dis_check /\ count_below(v0) >= efSearch
           THEN pc' = "done" /\ UNCHANGED todo
           ELSE pc' = "scan" /\ todo' = neighbors[v0]
  BY <1>1 DEF Pop, PopMin
<1>3. v0 \in held \ popped /\ v0 \in Points /\ neighbors[v0] \in Seq(Points)
  BY <1>0, <1>2, SearchAssumption DEF Nearest, TypeOK
<1>4. /\ UNCHANGED <<query, held, visited, results, nstep>>
      /\ pc' \in {"done", "scan"} /\ (todo' = todo \/ todo' = neighbors[v0])
  BY <1>2 DEF Pop, query
<1>5. TypeOK'
  BY <1>0, <1>2, <1>3, <1>4 DEF TypeOK, query
<1>6. Cardinality((held \ popped)') = Cardinality(held \ popped) - 1
  <2>1. (held \ popped)' = (held \ popped) \ {v0}
    BY <1>2, <1>4
  <2>2. IsFiniteSet(held \ popped)
    BY <1>0, ValidIsFinite
  <2>3. Cardinality((held \ popped) \ {v0}) = Cardinality(held \ popped) - 1
    BY <1>3, <2>2, FS_RemoveElement, Zenon
  <2> QED BY <2>1, <2>3, Zenon
<1>7. nvalid' <= Cardinality((held \ popped)')
  BY <1>0, <1>2, <1>6, ValidIsFinite
<1> QED BY <1>4, <1>5, <1>7 DEF ValidInv, PopFindsOne

\* A push adds one to nvalid only when it adds a candidate; what it evicts, be
\* it popped or not, is taken off nvalid.
LEMMA VisitValid == ASSUME ValidInv, Visit PROVE ValidInv'
<1> DEFINE v == Head(todo)
<1>0. TypeOK /\ nvalid <= Cardinality(held \ popped) /\ nvalid \in Int /\ pc = "scan"
  BY DEF ValidInv, Visit, TypeOK
<1>1. /\ v \in Points /\ v \notin held /\ v \notin visited /\ todo' \in Seq(Points)
      /\ UNCHANGED <<query, nstep, pc>> /\ visited' = visited \cup {v}
  BY <1>0 DEF Visit, TypeOK
<1>2. results' \in SUBSET visited'
  <2>1. results' \subseteq results \cup {v}
    BY DEF Visit, Record
  <2> QED BY <1>0, <1>1, <2>1 DEF TypeOK
<1>3. \/ held' = held \cup {v} /\ nvalid' = nvalid + 1 /\ popped' = popped
      \/ UNCHANGED <<held, popped, nvalid>>
      \/ \E f \in held :
           held' = (held \ {f}) \cup {v} /\ popped' = popped \ {f} /\ nvalid' = nvalid
  BY DEF Visit, Push, Farthest
<1>4. TypeOK'
  <2>1. /\ held' \in SUBSET Points /\ popped' \in SUBSET held' /\ nvalid' \in Int
        /\ held' \subseteq visited'
    BY <1>0, <1>1, <1>3 DEF TypeOK
  <2> QED BY <1>0, <1>1, <1>2, <2>1 DEF TypeOK, query
<1>5. nvalid' <= Cardinality((held \ popped)')
  <2>1. CASE held' = held \cup {v} /\ nvalid' = nvalid + 1 /\ popped' = popped
    <3>1. (held \ popped)' = (held \ popped) \cup {v} /\ v \notin held \ popped
      BY <1>0, <1>1, <2>1 DEF TypeOK
    <3>2. Cardinality((held \ popped)') = Cardinality(held \ popped) + 1
      BY <1>0, <3>1, ValidIsFinite, FS_AddElement
    <3> QED BY <1>0, <2>1, <3>2, ValidIsFinite
  <2>2. CASE UNCHANGED <<held, popped, nvalid>>
    BY <1>0, <2>2
  <2>3. CASE \E f \in held : /\ held' = (held \ {f}) \cup {v}
                             /\ popped' = popped \ {f} /\ nvalid' = nvalid
    <3>1. PICK f \in held : /\ held' = (held \ {f}) \cup {v}
                            /\ popped' = popped \ {f} /\ nvalid' = nvalid
      BY <2>3
    <3> DEFINE rest == (held \ popped) \ {f}
    <3>2. (held \ popped)' = rest \cup {v} /\ v \notin rest
      BY <1>0, <1>1, <3>1 DEF TypeOK
    <3>3. IsFiniteSet(rest) /\ Cardinality(rest) \in Nat
          /\ Cardinality(rest) >= Cardinality(held \ popped) - 1
      <4>1. CASE f \in held \ popped
        <5>1. IsFiniteSet(held \ popped) /\ Cardinality(held \ popped) \in Nat
          BY <1>0, ValidIsFinite
        <5>2. IsFiniteSet(rest) /\ Cardinality(rest) = Cardinality(held \ popped) - 1
          BY <4>1, <5>1, FS_RemoveElement, Zenon
        <5>3. Cardinality(rest) \in Nat
          BY <5>2, FS_CardinalityType, Zenon
        <5> HIDE DEF rest
        <5> QED BY <5>1, <5>2, <5>3
      <4>2. CASE f \notin held \ popped
        <5>1. rest = held \ popped
          BY <4>2
        <5> QED BY <1>0, <5>1, ValidIsFinite
      <4> QED BY <4>1, <4>2
    <3>4. Cardinality((held \ popped)') = Cardinality(rest) + 1
      <4> HIDE DEF rest
      <4> QED BY <3>2, <3>3, FS_AddElement
    <3> HIDE DEF rest
    <3> QED BY <1>0, <3>1, <3>3, <3>4, ValidIsFinite
  <2> QED BY <1>3, <2>1, <2>2, <2>3
<1> QED BY <1>0, <1>1, <1>4, <1>5 DEF ValidInv, PopFindsOne

\* No step breaks it.
LEMMA ValidStep == ASSUME ValidInv, [Next]_vars PROVE ValidInv'
<1>1. CASE Skip \/ EndScan \/ RunDry
  <2>1. /\ UNCHANGED <<query, held, popped, nvalid, visited, results>>
        /\ todo' \in Seq(Points) /\ nstep' \in Nat
        /\ pc' \in {"pop", "scan", "done"}
    BY <1>1 DEF Skip, EndScan, RunDry, ValidInv, TypeOK
  <2>2. TypeOK' /\ PopFindsOne'
    BY <2>1 DEF ValidInv, TypeOK, PopFindsOne, query
  <2> QED BY <2>1, <2>2 DEF ValidInv
<1>2. CASE UNCHANGED vars
  BY <1>2 DEF vars, query, ValidInv, TypeOK, PopFindsOne
<1> QED BY <1>1, <1>2, PopValid, VisitValid DEF Next

\* nvalid never promises more candidates than the heap holds.
THEOREM ValidNeverTooMany == Spec => []ValidInv
<1>1. ValidInv /\ [Next]_vars => ValidInv'
  BY ValidStep
<1> QED BY <1>1, InitValid, PTL DEF Spec

\* The search always finds the candidate that size() announces.
THEOREM PopAlwaysFinds == Spec => []PopFindsOne
<1>1. ValidInv => PopFindsOne
  BY DEF ValidInv
<1> QED BY <1>1, ValidNeverTooMany, PTL
-----------------------------------------------------------------------------
(* Both heaps keep the nearest points visited                               *)

\* What both heaps hold, with what ValidInv says of their sets.
NearestInv ==
  ValidInv /\ KeepsNearest(held, visited, n, QDist) /\ KeepsNearest(results, visited, k, QDist)

\* Both heaps start with the seed, which is all that is visited.
LEMMA InitNearest == Init => NearestInv
<1> SUFFICES ASSUME Init PROVE NearestInv
  OBVIOUS
<1>1. PICK nearest \in Points :
        held = {nearest} /\ visited = {nearest} /\ results = {nearest}
  BY DEF Init, Seed
<1>2. n \in Nat \ {0} /\ k \in Nat \ {0}
  BY SearchAssumption DEF n
<1> QED BY <1>1, <1>2, OneKept, InitValid DEF NearestInv

\* A visited point is offered to both heaps.
LEMMA VisitNearest == ASSUME NearestInv, Visit PROVE NearestInv'
<1> DEFINE v == Head(todo)
<1>1. /\ TypeOK /\ KeepsNearest(held, visited, n, QDist)
      /\ KeepsNearest(results, visited, k, QDist)
  BY DEF NearestInv, ValidInv
<1>2. /\ visited \in SUBSET Points /\ held \in SUBSET visited /\ results \in SUBSET visited
      /\ v \in Points \ visited /\ visited' = visited \cup {v} /\ IsFiniteSet(visited)
  BY <1>1, SearchAssumption, FS_Subset DEF Visit, TypeOK
<1>3. n \in Nat /\ k \in Nat
  BY SearchAssumption DEF n
<1>4. \A x \in Points : QDist[x] \in Int
  BY SearchAssumption
<1>5. TakesIn(held, held', v, n, QDist)
  <2>1. \/ \A h \in held : QDist[v] >= QDist[h]
        \/ \E h \in held : QDist[v] < QDist[h]
    BY <1>2, <1>4
  <2> QED BY <2>1 DEF Visit, Push, Farthest, TakesIn
<1>6. TakesIn(results, results', v, k, QDist)
  <2>1. \/ \A h \in results : QDist[v] >= QDist[h]
        \/ \E h \in results : QDist[v] < QDist[h]
    BY <1>2, <1>4
  <2>2. (\A h \in results : QDist[v] >= QDist[h]) => ~\E h \in results : QDist[v] < QDist[h]
    BY <1>2, <1>4
  <2> QED BY <2>1, <2>2 DEF Visit, Record, Farthest, TakesIn
<1> HIDE DEF v
<1>7. KeepsNearest(held', visited', n, QDist) /\ KeepsNearest(results', visited', k, QDist)
  BY <1>1, <1>2, <1>3, <1>4, <1>5, <1>6, TakesInKeeps
<1>8. ValidInv'
  BY VisitValid DEF NearestInv
<1> QED BY <1>7, <1>8 DEF NearestInv, KeepsNearest, n

\* Nothing else changes what the heaps hold.
THEOREM NearestKept == Spec => []NearestInv
<1>1. NearestInv /\ [Next]_vars => NearestInv'
  <2> SUFFICES ASSUME NearestInv, [Next]_vars PROVE NearestInv'
    OBVIOUS
  <2>1. CASE Pop \/ Skip \/ EndScan \/ RunDry \/ UNCHANGED vars
    <3>1. UNCHANGED <<held, visited, results>>
      BY <2>1 DEF Pop, Skip, EndScan, RunDry, vars
    <3>2. ValidInv'
      BY ValidStep DEF NearestInv
    <3> QED BY <3>1, <3>2 DEF NearestInv, KeepsNearest, n
  <2> QED BY <2>1, VisitNearest DEF Next
<1> QED BY <1>1, InitNearest, PTL DEF Spec

\* The candidate heap holds the n nearest points visited, popped ones included:
\* count_below ranks a candidate among all the points the query has seen.
THEOREM HeapAlwaysNearest == Spec => []HeapIsNearest
<1>1. NearestInv => HeapIsNearest
  BY DEF NearestInv, KeepsNearest, HeapIsNearest
<1> QED BY <1>1, NearestKept, PTL

\* The results are the k nearest points visited, whatever the candidate heap
\* has evicted.
THEOREM ResultsAlwaysBest == Spec => []BestOfVisited
<1>1. NearestInv => BestOfVisited
  BY DEF NearestInv, KeepsNearest, BestOfVisited
<1> QED BY <1>1, NearestKept, PTL
=============================================================================
