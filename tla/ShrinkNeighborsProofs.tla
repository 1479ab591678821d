----------------------- MODULE ShrinkNeighborsProofs -----------------------
(***************************************************************************)
(* The pruning loop returns what Shrunk describes, for every set of points *)
(* and every distance.                                                     *)
(***************************************************************************)
EXTENDS ShrinkNeighbors, FiniteSetTheorems, TLAPS

\* A kept point adds one to the size of the list, whatever set it comes from.
LEMMA OneMore ==
  ASSUME TypeOK, PartsInv, NEW v1 \in input
  PROVE  /\ Cardinality(output) \in Nat /\ max_size \in Nat \ {0}
         /\ Cardinality(output \cup {v1}) = Cardinality(output) + 1
<1>1. output \in SUBSET Points /\ v1 \notin output
  BY DEF TypeOK, PartsInv
<1>2. IsFiniteSet(output)
  BY <1>1, PointsAssumption, FS_Subset
<1> QED BY <1>1, <1>2, FS_CardinalityType, FS_AddElement DEF TypeOK

\* The nearest candidates of the queue are candidates, and nothing is nearer.
LEMMA NearestOfQueue ==
  ASSUME TypeOK, NEW v1 \in Closest(src, input)
  PROVE  /\ v1 \in input /\ v1 \in Points
         /\ \A v \in input : Dist[src][v1] <= Dist[src][v]
BY DEF TypeOK, Closest

\* Distances between points are comparable, and the same in both directions.
LEMMA Distances ==
  ASSUME NEW x \in Points, NEW y \in Points
  PROVE  Dist[x][y] \in Int /\ Dist[x][y] = Dist[y][x]
BY DistAssumption

\* A call starts with the whole argument in the queue.
LEMMA InitInv == Init => IInv
<1> SUFFICES ASSUME Init PROVE IInv
  OBVIOUS
<1>1. TypeOK /\ PartsInv /\ OrderInv /\ ReasonInv /\ ReturnsShrunk
  BY DEF Init, TypeOK, PartsInv, OrderInv, ReasonInv, ReturnsShrunk
<1> QED BY <1>1 DEF IInv

\* A kept point shadows none of the others and is shadowed by none.
LEMMA KeptTogether ==
  ASSUME TypeOK, PartsInv, OrderInv, ReasonInv, pc = "loop",
         NEW v1 \in Closest(src, input), Good(v1)
  PROVE  \A u, v \in output \cup {v1} :
           u # v /\ Dist[src][u] <= Dist[src][v] => ~Shadows(src, u, v)
<1>1. v1 \in input /\ v1 \in Points /\ src \in Points
  BY NearestOfQueue DEF TypeOK
<1>2. SUFFICES ASSUME NEW u \in output \cup {v1}, NEW v \in output \cup {v1},
                      u # v, Dist[src][u] <= Dist[src][v]
               PROVE  ~Shadows(src, u, v)
  OBVIOUS
<1>3. CASE u \in output /\ v \in output
  BY <1>2, <1>3 DEF ReasonInv
<1>4. CASE v = v1
  BY <1>2, <1>4 DEF Good
<1>5. CASE u = v1 /\ v \in output
  <2>1. v \in given \ input /\ v \in Points
    BY <1>5 DEF TypeOK, PartsInv
  <2>2. Dist[src][v] <= Dist[src][v1]
    BY <1>1, <2>1 DEF OrderInv
  <2>3. Dist[src][v] = Dist[src][v1]
    BY <1>1, <1>2, <1>5, <2>1, <2>2, Distances
  <2>4. ~Shadows(src, v, v1)
    BY <1>5 DEF Good
  <2> QED BY <1>1, <1>5, <2>1, <2>3, <2>4, Distances DEF Shadows
<1> QED BY <1>2, <1>3, <1>4, <1>5

-----------------------------------------------------------------------------
(* Each step of the loop                                                    *)

\* A point that is kept with room for more is nearer than what is left.
LEMMA KeepNextStep == ASSUME IInv, KeepNext PROVE IInv'
<1>0. TypeOK /\ PartsInv /\ OrderInv /\ ReasonInv /\ pc = "loop" /\ pc' = "loop"
  BY DEF IInv, KeepNext
<1>1. PICK v1 \in Closest(src, input) :
        /\ Good(v1) /\ Cardinality(output) + 1 < max_size
        /\ output' = output \cup {v1}
        /\ input' = input \ {v1}
  BY DEF KeepNext
<1>2. UNCHANGED <<src, given, max_size, outsiders>>
  BY DEF KeepNext, args
<1>3. v1 \in input /\ v1 \in Points /\ \A v \in input : Dist[src][v1] <= Dist[src][v]
  BY <1>0, <1>1, NearestOfQueue
<1>4. TypeOK'
  BY <1>0, <1>1, <1>2, <1>3 DEF TypeOK
<1>5. PartsInv'
  <2>1. Cardinality(output') < max_size
    BY <1>0, <1>1, <1>3, OneMore
  <2> QED BY <1>0, <1>1, <1>2, <1>3, <2>1 DEF PartsInv, TypeOK
<1>6. OrderInv'
  BY <1>0, <1>1, <1>2, <1>3 DEF OrderInv, TypeOK
<1>7. ReasonInv'
  <2>1. \A u, v \in output' :
          u # v /\ Dist[src][u] <= Dist[src][v] => ~Shadows(src, u, v)
    BY <1>0, <1>1, KeptTogether
  <2>2. \A v \in outsiders' :
          \E u \in output' : Dist[src][u] <= Dist[src][v] /\ Shadows(src, u, v)
    BY <1>0, <1>1, <1>2 DEF ReasonInv
  <2> QED BY <1>2, <2>1, <2>2 DEF ReasonInv, Shadows
<1> QED BY <1>0, <1>4, <1>5, <1>6, <1>7 DEF IInv, ReturnsShrunk

\* A point that is dropped has a nearer kept one that shadows it.
LEMMA DropNextStep == ASSUME IInv, DropNext PROVE IInv'
<1>0. TypeOK /\ PartsInv /\ OrderInv /\ ReasonInv /\ pc = "loop" /\ pc' = "loop"
  BY DEF IInv, DropNext
<1>1. PICK v1 \in Closest(src, input) :
        /\ ~Good(v1)
        /\ outsiders' = outsiders \cup {v1}
        /\ input' = input \ {v1}
  BY DEF DropNext
<1>2. UNCHANGED <<src, given, max_size, output>>
  BY DEF DropNext, args
<1>3. v1 \in input /\ v1 \in Points /\ \A v \in input : Dist[src][v1] <= Dist[src][v]
  BY <1>0, <1>1, NearestOfQueue
<1>4. TypeOK'
  BY <1>0, <1>1, <1>2, <1>3 DEF TypeOK
<1>5. PartsInv'
  BY <1>0, <1>1, <1>2, <1>3 DEF PartsInv, TypeOK
<1>6. OrderInv'
  BY <1>0, <1>1, <1>2, <1>3 DEF OrderInv, TypeOK
<1>7. ReasonInv'
  <2>1. PICK u \in output : Shadows(src, u, v1)
    BY <1>1 DEF Good
  <2>2. u \in given \ input
    BY <1>0 DEF TypeOK, PartsInv
  <2>3. Dist[src][u] <= Dist[src][v1]
    BY <1>0, <1>3, <2>2 DEF OrderInv
  <2> QED BY <1>0, <1>1, <1>2, <2>1, <2>3 DEF ReasonInv, Shadows
<1> QED BY <1>0, <1>4, <1>5, <1>6, <1>7 DEF IInv, ReturnsShrunk

\* The point that fills the list ends the loop with a set that Shrunk allows.
LEMMA KeepLastStep == ASSUME IInv, KeepLast PROVE IInv'
<1>0. /\ TypeOK /\ PartsInv /\ OrderInv /\ ReasonInv
      /\ pc = "loop" /\ pc' = "done" /\ input' = {}
  BY DEF IInv, KeepLast
<1>1. PICK v1 \in Closest(src, input) :
        /\ Good(v1) /\ Cardinality(output) + 1 >= max_size
        /\ output' = output \cup {v1}
        /\ outsiders' = outsiders \cup (input \ {v1})
  BY DEF KeepLast
<1>2. UNCHANGED <<src, given, max_size>>
  BY DEF KeepLast, args
<1>3. v1 \in input /\ v1 \in Points /\ \A v \in input : Dist[src][v1] <= Dist[src][v]
  BY <1>0, <1>1, NearestOfQueue
<1>4. TypeOK'
  BY <1>0, <1>1, <1>2, <1>3 DEF TypeOK
<1>5. PartsInv'
  BY <1>0, <1>1, <1>2, <1>3 DEF PartsInv, TypeOK
<1>6. Cardinality(output') = max_size /\ Cardinality(given) >= max_size
  BY <1>0, <1>1, <1>3, OneMore DEF PartsInv
<1>7. \A u, v \in output' :
        u # v /\ Dist[src][u] <= Dist[src][v] => ~Shadows(src, u, v)
  BY <1>0, <1>1, KeptTogether
<1>8. ASSUME NEW v \in given \ output'
      PROVE  \/ \E u \in output' : Dist[src][u] <= Dist[src][v] /\ Shadows(src, u, v)
             \/ \A u \in output' : Dist[src][u] <= Dist[src][v]
  <2>1. CASE v \in outsiders
    BY <1>0, <1>1, <2>1 DEF ReasonInv
  <2>2. CASE v \in input
    BY <1>0, <1>1, <1>3, <2>2 DEF OrderInv, PartsInv, TypeOK
  <2> QED BY <1>0, <1>1, <1>8, <2>1, <2>2 DEF PartsInv
<1>9. output' \in Shrunk(src, given, max_size)
  <2>1. output' \in SUBSET given /\ max_size \in Nat /\ Cardinality(given) \in Nat
    <3>1. given \in SUBSET Points
      BY <1>0 DEF TypeOK
    <3> QED BY <1>0, <1>2, <1>4, <3>1, PointsAssumption, FS_Subset, FS_CardinalityType DEF TypeOK
  <2>2. ~(Cardinality(given) < max_size) /\ Cardinality(output') <= max_size
    BY <1>6, <2>1
  <2> QED BY <1>6, <1>7, <1>8, <2>1, <2>2 DEF Shrunk
<1> QED BY <1>0, <1>2, <1>4, <1>5, <1>9 DEF IInv, OrderInv, ReasonInv, ReturnsShrunk

\* A queue that runs dry leaves only kept points and points they shadow.
LEMMA ExhaustedStep == ASSUME IInv, Exhausted PROVE IInv'
<1>0. /\ TypeOK /\ PartsInv /\ ReasonInv /\ input = {}
      /\ pc = "loop" /\ pc' = "done"
      /\ UNCHANGED <<src, given, max_size, input, output, outsiders>>
  BY DEF IInv, Exhausted, args
<1>1. TypeOK' /\ PartsInv'
  BY <1>0 DEF TypeOK, PartsInv
<1>2. output \in Shrunk(src, given, max_size)
  <2>1. /\ Cardinality(output) \in Nat /\ Cardinality(given) \in Nat /\ max_size \in Nat
        /\ output \in SUBSET given
    <3>1. given \in SUBSET Points /\ output \in SUBSET Points
      BY <1>0 DEF TypeOK
    <3> QED BY <1>0, <3>1, PointsAssumption, FS_Subset, FS_CardinalityType DEF TypeOK
  <2>2. ~(Cardinality(given) < max_size) /\ Cardinality(output) <= max_size
    BY <1>0, <2>1 DEF PartsInv
  <2>3. given \ output = outsiders
    BY <1>0 DEF PartsInv, TypeOK
  <2> QED BY <1>0, <2>1, <2>2, <2>3 DEF Shrunk, ReasonInv
<1> QED BY <1>0, <1>1, <1>2 DEF IInv, OrderInv, ReasonInv, ReturnsShrunk

\* The invariant of the loop holds throughout a call.
THEOREM LoopInvariant == Spec => []IInv
<1>1. IInv /\ [Next]_vars => IInv'
  <2> SUFFICES ASSUME IInv, [Next]_vars PROVE IInv'
    OBVIOUS
  <2>1. CASE ReturnEarly
    <3>1. /\ TypeOK /\ PartsInv /\ pc = "call" /\ pc' = "done"
          /\ Cardinality(given) < max_size /\ output' = given /\ input' = {}
          /\ UNCHANGED <<src, given, max_size, outsiders>>
      BY <2>1 DEF IInv, ReturnEarly, args
    <3>2. outsiders = {}
      BY <3>1 DEF TypeOK, PartsInv
    <3>3. TypeOK' /\ PartsInv' /\ given \in Shrunk(src, given, max_size)
      BY <3>1, <3>2 DEF TypeOK, PartsInv, Shrunk
    <3> QED BY <3>1, <3>3 DEF IInv, OrderInv, ReasonInv, ReturnsShrunk
  <2>2. CASE EnterLoop
    <3>1. /\ TypeOK /\ PartsInv /\ pc = "call" /\ pc' = "loop"
          /\ Cardinality(given) >= max_size
          /\ UNCHANGED <<src, given, max_size, input, output, outsiders>>
      BY <2>2 DEF IInv, EnterLoop, args
    <3>2. input = given /\ output = {} /\ outsiders = {}
      BY <3>1 DEF TypeOK, PartsInv
    <3>3. Cardinality(output) < max_size
      BY <3>1, <3>2, FS_EmptySet DEF TypeOK
    <3>4. TypeOK' /\ PartsInv'
      BY <3>1, <3>2, <3>3 DEF TypeOK, PartsInv
    <3>5. OrderInv' /\ ReasonInv' /\ ReturnsShrunk'
      BY <3>1, <3>2 DEF OrderInv, ReasonInv, ReturnsShrunk
    <3> QED BY <3>4, <3>5 DEF IInv
  <2>3. CASE UNCHANGED vars
    BY <2>3 DEF vars, args, IInv, TypeOK, PartsInv, OrderInv, ReasonInv, ReturnsShrunk
  <2> QED BY <2>1, <2>2, <2>3, KeepNextStep, KeepLastStep, DropNextStep, ExhaustedStep
          DEF Next
<1> QED BY <1>1, InitInv, PTL DEF Spec

\* A finished call has kept a set that Shrunk allows: the one step in which the
\* construction prunes a list is what the two loops compute.
THEOREM ShrinkIsShrunk == Spec => []ReturnsShrunk
<1>1. IInv => ReturnsShrunk
  BY DEF IInv
<1> QED BY <1>1, LoopInvariant, PTL

\* A finished call hands back every candidate it has not kept, and only those.
THEOREM ShrinkLosesNothing == Spec => []NothingLost
<1>1. IInv => NothingLost
  <2> SUFFICES ASSUME IInv, pc = "done" PROVE outsiders = given \ output
    BY DEF NothingLost
  <2>1. PartsInv
    BY DEF IInv
  <2> QED BY <2>1 DEF PartsInv
<1> QED BY <1>1, LoopInvariant, PTL
=============================================================================
