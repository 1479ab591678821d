------------------------- MODULE NeighborSelection -------------------------
(***************************************************************************)
(* Points, their distances, and which of a set of points the priority      *)
(* queues and the pruning of PathSeer's construction select.               *)
(***************************************************************************)
EXTENDS Integers, FiniteSets

CONSTANTS
  Points,                 \* the vectors that may be added (storage ids)
  Dist                    \* Dist[x][y]: symmetric_dis of two vectors

ASSUME PointsAssumption == IsFiniteSet(Points)
ASSUME DistAssumption == /\ Dist \in [Points -> [Points -> Int]]
                         /\ \A x, y \in Points : Dist[x][y] = Dist[y][x]

\* Ties are broken arbitrarily: NodeDistCloser and NodeDistFarther compare
\* distances only.
Closest(q, S)  == {x \in S : \A y \in S : Dist[q][x] <= Dist[q][y]}
Farthest(q, S) == {x \in S : \A y \in S : Dist[q][x] >= Dist[q][y]}

\* the possible results of popping the farthest until at most n are left
KeepNearest(q, S, n) ==
  IF Cardinality(S) <= n THEN {S}
  ELSE {K \in SUBSET S : /\ Cardinality(K) = n
                         /\ \A k \in K, d \in S \ K : Dist[q][k] <= Dist[q][d]}

\* v is closer to u than to the list's owner q
Shadows(q, u, v) == Dist[u][v] < Dist[q][v]

\* Wrong: candidates are dropped whatever the order in which they come.
Shrunk_Unordered(q, S, max) ==
  IF Cardinality(S) < max THEN {S}
  ELSE {{v \in S : \A u \in S \ {v} : ~Shadows(q, u, v)}}
\* Wrong: the queue yields the farthest first.
Shrunk_FarthestFirst(q, S, max) ==
  IF Cardinality(S) < max THEN {S}
  ELSE {K \in SUBSET S : /\ Cardinality(K) = max
                         /\ \A k \in K, d \in S \ K : Dist[q][k] >= Dist[q][d]}

\* The possible results of the two shrink_neighbor_list functions: a kept
\* point shadows no other, and a dropped one is shadowed by a closer kept
\* point or came when `max` were kept.  (Module ShrinkNeighbors has the loop.)
Shrunk(q, S, max) ==
  IF Cardinality(S) < max THEN {S}
  ELSE {K \in SUBSET S :
         /\ Cardinality(K) <= max
         /\ \A u, v \in K : u # v /\ Dist[q][u] <= Dist[q][v] => ~Shadows(q, u, v)
         /\ \A v \in S \ K :
              \/ \E u \in K : Dist[q][u] <= Dist[q][v] /\ Shadows(q, u, v)
              \/ Cardinality(K) = max /\ \A u \in K : Dist[q][u] <= Dist[q][v]}

-----------------------------------------------------------------------------
(* What the writes to one list make of its dist-oriented zone D0 and its    *)
(* extending zone E0, as sets                                               *)

\* add_link_dist_oriented_batched
Batched(q, D0, links, cap) ==
  IF Cardinality(D0) + Cardinality(links) < cap THEN {links \cup D0}
  ELSE Shrunk(q, links \cup D0, cap)

\* Wrong: a full zone takes one more link.
Added_OneMore(q, D0, p, cap) ==
  IF Cardinality(D0) <= cap THEN {D0 \cup {p}} ELSE Shrunk(q, D0 \cup {p}, cap)

\* add_link_dist_oriented_opt
Added(q, D0, p, cap) ==
  IF Cardinality(D0) < cap THEN {D0 \cup {p}} ELSE Shrunk(q, D0 \cup {p}, cap)

\* the last entries go; which these are is told by the order of the slots
FirstOf(S, n) == IF Cardinality(S) <= n THEN {S}
                 ELSE {K \in SUBSET S : Cardinality(K) = n}

\* An empty zone is left alone.  The slots that a shrunk dist-oriented zone
\* gives up then keep old entries of that zone, even those that stay in it.
LeftBehind(D0, D) == {K \in SUBSET D0 : Cardinality(K) =
  IF Cardinality(D0) > Cardinality(D) THEN Cardinality(D0) - Cardinality(D) ELSE 0}

\* move_the_extending_zone, when the dist-oriented zone becomes D
Moved(D0, E0, D, total) ==
  IF E0 = {} THEN LeftBehind(D0, D) ELSE FirstOf(E0, total - Cardinality(D))

\* add_link_extending_fast and add_link_extending into n slots.  The fast one
\* inserts by binary search and drops what is in the last slot, which is the
\* farthest link only while the zone is sorted.
Inserted(q, E0, p, n, fast) ==
  IF fast THEN FirstOf(E0 \cup {p}, n) ELSE KeepNearest(q, E0 \cup {p}, n)
=============================================================================
