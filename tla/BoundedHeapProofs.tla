------------------------- MODULE BoundedHeapProofs -------------------------
(***************************************************************************)
(* What MinimaxHeap::push and the replacement of the top of a result heap   *)
(* have in common: a set of bounded size that takes in points one by one,   *)
(* and gives up a farthest member for a nearer point, holds the nearest of  *)
(* all the points it was offered.  The modules on the two searches use it.  *)
(***************************************************************************)
EXTENDS Integers, FiniteSetTheorems, TLAPS

\* H holds the c members of V that `dist` puts nearest, or all if V has fewer.
KeepsNearest(H, V, c, dist) ==
  /\ \A h \in H, v \in V \ H : dist[h] <= dist[v]
  /\ Cardinality(H) = IF Cardinality(V) < c THEN Cardinality(V) ELSE c

\* H becomes G: v is added while there is room, refused if no member is
\* farther, and else takes the place of a farthest one.
TakesIn(H, G, v, c, dist) ==
  \/ Cardinality(H) < c /\ G = H \cup {v}
  \/ ~(Cardinality(H) < c) /\ (\A h \in H : dist[v] >= dist[h]) /\ G = H
  \/ /\ ~(Cardinality(H) < c) /\ \E h \in H : dist[v] < dist[h]
     /\ \E f \in H : (\A h \in H : dist[f] >= dist[h]) /\ G = (H \ {f}) \cup {v}

\* The nearest stay the nearest when one more point is offered.
LEMMA TakesInKeeps ==
  ASSUME NEW V, IsFiniteSet(V), NEW H \in SUBSET V, NEW v, v \notin V, NEW c \in Nat, NEW G,
         NEW dist, \A x \in V \cup {v} : dist[x] \in Int,
         KeepsNearest(H, V, c, dist), TakesIn(H, G, v, c, dist)
  PROVE  KeepsNearest(G, V \cup {v}, c, dist)
<1> DEFINE W == V \cup {v}
<1>1. IsFiniteSet(H)
  BY FS_Subset
<1>2. /\ Cardinality(V) \in Nat /\ Cardinality(H) \in Nat
      /\ Cardinality(H) = Cardinality(V) => H = V
  BY <1>1, FS_Subset, FS_CardinalityType
<1>3. Cardinality(W) = Cardinality(V) + 1
  BY FS_AddElement
<1>4. /\ \A h \in H, x \in V \ H : dist[h] <= dist[x]
      /\ Cardinality(H) = IF Cardinality(V) < c THEN Cardinality(V) ELSE c
  BY DEF KeepsNearest
<1> SUFFICES /\ \A g \in G, x \in W \ G : dist[g] <= dist[x]
             /\ Cardinality(G) = IF Cardinality(W) < c THEN Cardinality(W) ELSE c
  BY DEF KeepsNearest
<1>5. CASE Cardinality(H) < c /\ G = H \cup {v}
  <2>1. H = V /\ Cardinality(V) < c
    BY <1>2, <1>4, <1>5
  <2>2. G = W
    BY <1>5, <2>1
  <2> HIDE DEF W
  <2> QED BY <1>2, <1>3, <2>1, <2>2
<1>6. CASE ~(Cardinality(H) < c) /\ (\A h \in H : dist[v] >= dist[h]) /\ G = H
  <2>1. Cardinality(H) = c /\ ~(Cardinality(V) < c)
    BY <1>2, <1>4, <1>6
  <2>2. Cardinality(G) = IF Cardinality(W) < c THEN Cardinality(W) ELSE c
    <3> HIDE DEF W
    <3> QED BY <1>2, <1>3, <1>6, <2>1
  <2>3. \A g \in G, x \in W \ G : dist[g] <= dist[x]
    BY <1>4, <1>6
  <2> QED BY <2>2, <2>3
<1>7. CASE /\ ~(Cardinality(H) < c) /\ \E h \in H : dist[v] < dist[h]
           /\ \E f \in H : (\A h \in H : dist[f] >= dist[h]) /\ G = (H \ {f}) \cup {v}
  <2>1. Cardinality(H) = c /\ ~(Cardinality(V) < c)
    BY <1>2, <1>4, <1>7
  <2>2. PICK f \in H : (\A h \in H : dist[f] >= dist[h]) /\ G = (H \ {f}) \cup {v}
    BY <1>7
  <2>3. \A h \in H : dist[h] <= dist[f]
    BY <2>2
  <2>4. dist[v] <= dist[f]
    BY <1>7, <2>3
  <2>5. Cardinality(G) = c
    <3>1. IsFiniteSet(H \ {f}) /\ Cardinality(H \ {f}) = Cardinality(H) - 1
      BY <1>1, <2>2, FS_RemoveElement, Zenon
    <3>2. v \notin H \ {f}
      OBVIOUS
    <3>3. Cardinality(G) = Cardinality(H \ {f}) + 1
      BY <2>2, <3>1, <3>2, FS_AddElement, Zenon
    <3> QED BY <1>2, <2>1, <3>1, <3>3
  <2>6. Cardinality(G) = IF Cardinality(W) < c THEN Cardinality(W) ELSE c
    <3> HIDE DEF W
    <3> QED BY <1>2, <1>3, <2>1, <2>5
  <2>7. ASSUME NEW g \in G, NEW x \in W \ G PROVE dist[g] <= dist[x]
    <3>1. x = f \/ x \in V \ H
      BY <2>2
    <3>2. g = v \/ g \in H
      BY <2>2
    <3>3. dist[g] <= dist[f]
      BY <2>3, <2>4, <3>2
    <3>4. dist[f] <= dist[x]
      BY <1>4, <2>2, <3>1
    <3>5. /\ dist[g] \in Int /\ dist[f] \in Int /\ dist[x] \in Int
      BY <2>2, <3>1, <3>2
    <3> QED BY <3>3, <3>4, <3>5
  <2> QED BY <2>6, <2>7
<1> QED BY <1>5, <1>6, <1>7 DEF TakesIn

\* A heap that holds the only point offered.
LEMMA OneKept ==
  ASSUME NEW x, NEW c \in Nat \ {0}, NEW dist
  PROVE  KeepsNearest({x}, {x}, c, dist)
<1>1. Cardinality({x}) = 1
  BY FS_Singleton
<1> QED BY <1>1 DEF KeepsNearest

\* An empty heap holds all of nothing.
LEMMA NoneKept ==
  ASSUME NEW c \in Nat, NEW dist
  PROVE  KeepsNearest({}, {}, c, dist)
<1>1. Cardinality({}) = 0
  BY FS_EmptySet
<1> QED BY <1>1 DEF KeepsNearest
=============================================================================
