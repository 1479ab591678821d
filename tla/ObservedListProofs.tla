------------------------- MODULE ObservedListProofs -------------------------
(***************************************************************************)
(* Every list of the concurrent construction is a NeighborList, whatever    *)
(* the threads do: for any owner, level, number of threads and distances.   *)
(***************************************************************************)
EXTENDS ObservedList, PathSeerBuildProofs

-----------------------------------------------------------------------------
(* The inductive invariant                                                  *)

\* who inserts a point that the list has met does not come back to the list
NotAgain(t) ==
  pc[t] \in Linking /\ level[t] = AtLevel /\ pt[t] \in offered =>
    Owner \notin todo[t] \cup others[t]

\* The list has met other points only, after its owner's search, and these have
\* links of their own.
MetInv ==
  /\ offered \subseteq Points \ {Owner}
  /\ ~Published(Owner, AtLevel) => offered = {}
  /\ \A v \in offered : Published(v, AtLevel)
  /\ \A t \in Threads : NotAgain(t)

ListInv == IInv /\ FoundInv /\ MetInv
-----------------------------------------------------------------------------
(* NeighborList is made of the same operators.                              *)

\* NeighborList counts as FiniteSets does,
LEMMA ListSize == \A S : List!Cardinality(S) = Cardinality(S)
BY DEF List!Cardinality, Cardinality

\* prunes as NeighborSlots does,
LEMMA ListShrunk == \A q, S, n : List!Shrunk(q, S, n) = Shrunk(q, S, n)
<1> SUFFICES ASSUME NEW q, NEW S, NEW n PROVE List!Shrunk(q, S, n) = Shrunk(q, S, n)
  OBVIOUS
<1> DEFINE May(K) ==
      /\ Cardinality(K) <= n
      /\ \A u, v \in K : u # v /\ Dist[q][u] <= Dist[q][v] => ~Shadows(q, u, v)
      /\ \A v \in S \ K :
           \/ \E u \in K : Dist[q][u] <= Dist[q][v] /\ Shadows(q, u, v)
           \/ Cardinality(K) = n /\ \A u \in K : Dist[q][u] <= Dist[q][v]
<1>1. CASE Cardinality(S) < n
  BY <1>1, ListSize DEF Shrunk, List!Shrunk
<1>2. CASE ~(Cardinality(S) < n)
  <2>1. Shrunk(q, S, n) = {K \in SUBSET S : May(K)}
    BY <1>2 DEF Shrunk
  <2> HIDE DEF May
  <2>2. List!Shrunk(q, S, n) = {K \in SUBSET S : May(K)}
    <3> DEFINE ListMay(K) ==
          /\ List!Cardinality(K) <= n
          /\ \A u, v \in K : u # v /\ Dist[q][u] <= Dist[q][v] => ~List!Shadows(q, u, v)
          /\ \A v \in S \ K :
               \/ \E u \in K : Dist[q][u] <= Dist[q][v] /\ List!Shadows(q, u, v)
               \/ List!Cardinality(K) = n /\ \A u \in K : Dist[q][u] <= Dist[q][v]
    <3>1. List!Shrunk(q, S, n) = {K \in SUBSET S : ListMay(K)}
      BY <1>2, ListSize DEF List!Shrunk
    <3>2. \A u, v : List!Shadows(q, u, v) = Shadows(q, u, v)
      BY DEF List!Shadows, Shadows
    <3>3. ASSUME NEW K PROVE ListMay(K) = May(K)
      BY <3>2, ListSize DEF May
    <3> QED BY <3>1, <3>3
  <2> QED BY <2>1, <2>2
<1> QED BY <1>1, <1>2

\* keeps the nearest
LEMMA ListKeepNearest == \A q, S, n : List!KeepNearest(q, S, n) = KeepNearest(q, S, n)
BY ListSize DEF List!KeepNearest, KeepNearest

\* or those in the first slots,
LEMMA ListFirstOf == \A S, n : List!FirstOf(S, n) = FirstOf(S, n)
BY ListSize DEF List!FirstOf, FirstOf

\* moves the extending zone,
LEMMA ListMoved == \A D0, E0, D, n : List!Moved(D0, E0, D, n) = Moved(D0, E0, D, n)
<1>1. \A D0, D : List!LeftBehind(D0, D) = LeftBehind(D0, D)
  BY ListSize DEF List!LeftBehind, LeftBehind
<1> QED BY <1>1, ListSize, ListFirstOf DEF List!Moved, Moved

\* takes a point's own links,
LEMMA ListBatched == \A q, D0, S, n : List!Batched(q, D0, S, n) = Batched(q, D0, S, n)
BY ListSize, ListShrunk DEF List!Batched, Batched

\* a reverse link in the dist-oriented zone,
LEMMA ListAdded == \A q, D0, p, n : List!Added(q, D0, p, n) = Added(q, D0, p, n)
BY ListSize, ListShrunk DEF List!Added, Added

\* and one in the extending zone.
LEMMA ListInserted ==
  \A q, E0, p, n, fast : List!Inserted(q, E0, p, n, fast) = Inserted(q, E0, p, n, fast)
BY ListFirstOf, ListKeepNearest DEF List!Inserted, Inserted

-----------------------------------------------------------------------------
(* Phases of the list                                                       *)

\* Only the owner has its search behind and its second write before it, and then
\* it is published.
LEMMA OneOpening ==
  ASSUME TypeOK, ThreadsInv, NEW t \in Threads, Opening(t)
  PROVE  /\ Published(Owner, AtLevel)
         /\ Phase = "open" /\ PendingOthers = others[t]
<1>1. pt[t] \in Points /\ level[t] \in Levels /\ level[t] <= Level[pt[t]] /\ pc[t] # "idle"
  BY ThreadFacts, ObservedAssumption DEF Opening, Linking, ThreadsInv, ThreadOk
<1>2. Published(Owner, AtLevel)
  BY <1>1 DEF Opening, Published, Linking, Inserting
<1>3. \A u \in Threads : Opening(u) => u = t
  BY <1>1, ObservedAssumption, NullAssumption DEF Opening, ThreadsInv, ThreadOk
<1>4. {u \in Threads : Opening(u)} = {t}
  BY <1>3
<1>5. PendingOthers = others[t]
  BY <1>4 DEF PendingOthers
<1> QED BY <1>2, <1>5 DEF Phase

\* Nothing is pending otherwise.
LEMMA NoOpening ==
  ASSUME \A t \in Threads : ~Opening(t)
  PROVE  /\ PendingOthers = {}
         /\ Phase = IF Published(Owner, AtLevel) THEN "complete" ELSE "new"
<1>1. {u \in Threads : Opening(u)} = {}
  OBVIOUS
<1>2. PendingOthers = {}
  BY <1>1 DEF PendingOthers
<1> QED BY <1>2 DEF Phase

Zones == <<dist[Owner][AtLevel], ext[Owner][AtLevel]>>

SameOpening == \A u \in Threads : /\ Opening(u)' = Opening(u)
                                  /\ Opening(u) => others'[u] = others[u]

\* A step that leaves the zones and the owner's second write alone is the first
\* link of an empty index, or the like, or none of the list's business.
LEMMA PhaseStays ==
  ASSUME TypeOK, ThreadsInv, SameOpening, UNCHANGED <<Zones, offered>>,
         Published(Owner, AtLevel) => Published(Owner, AtLevel)'
  PROVE  List!First \/ UNCHANGED List!lvars
<1>1. CASE Published(Owner, AtLevel)
  <2>1. Phase' = Phase
    BY <1>1 DEF Phase, SameOpening
  <2>2. PendingOthers' = PendingOthers
    <3>1. \A v : v \in PendingOthers <=> \E u \in Threads : Opening(u) /\ v \in others[u]
      BY DEF PendingOthers
    <3>2. \A v : v \in PendingOthers' <=> \E u \in Threads : Opening(u)' /\ v \in others'[u]
      BY DEF PendingOthers
    <3>3. \A v : v \in PendingOthers' <=> v \in PendingOthers
      BY <3>1, <3>2 DEF SameOpening
    <3> QED BY <3>3
  <2> QED BY <2>1, <2>2 DEF Zones, List!lvars
<1>2. CASE ~Published(Owner, AtLevel)
  <2>1. \A u \in Threads : ~Opening(u) /\ ~Opening(u)'
    BY <1>2, OneOpening DEF SameOpening
  <2>2. Phase = "new" /\ PendingOthers = {}
    BY <1>2, <2>1, NoOpening
  <2>3. PendingOthers' = {}
    <3>1. {u \in Threads : Opening(u)'} = {}
      BY <2>1
    <3> QED BY <3>1 DEF PendingOthers
  <2>4. Phase' = "new" \/ Phase' = "complete"
    BY <2>1 DEF Phase
  <2> QED BY <2>2, <2>3, <2>4 DEF Zones, List!First, List!lvars
<1> QED BY <1>1, <1>2

-----------------------------------------------------------------------------
(* Steps that are none of the list's business                               *)

ListWrite(t) == LinkDist(t) \/ ReverseDist(t) \/ LinkExt(t) \/ ReverseExt(t)

\* Only four actions write lists, links to write back, or second writes.
LEMMA QuietStep ==
  ASSUME TypeOK, ThreadsInv, NEW t \in Threads, Step(t), ~ListWrite(t)
  PROVE  /\ UNCHANGED <<dist, ext, todo>>
         /\ pc[t] # "revDist" /\ pc'[t] \notin Linking
<1> USE DEF Linking, TypeOK, graph
<1>1. CASE EnterFirst(t) \/ Enter(t) \/ LockAndReadLevel(t)
  BY <1>1 DEF EnterFirst, Enter, LockAndReadLevel, search
<1>2. CASE GreedyHop(t) \/ GreedyDrop(t)
  BY <1>2 DEF GreedyHop, GreedyDrop, Descending
<1>3. CASE SearchStep(t)
  BY <1>3 DEF SearchStep, StartSearch, Expand, Scan, EndScan
<1>4. CASE NextLevel(t)
  BY <1>4 DEF NextLevel
<1>5. CASE Unlock(t) \/ CheckTop(t) \/ RaiseLevel(t) \/ RaiseEntry(t) \/ Finish(t)
  BY <1>5 DEF Unlock, CheckTop, RaiseLevel, RaiseEntry, Finish
<1> QED BY <1>1, <1>2, <1>3, <1>4, <1>5 DEF Step, LinkStep, ListWrite

\* The other threads' second writes do not change with a thread's step.
LEMMA OtherOpening ==
  ASSUME TypeOK, NEW t \in Threads, Step(t), NEW u \in Threads, u # t
  PROVE  Opening(u)' = Opening(u) /\ others'[u] = others[u]
BY OtherThreads DEF Registers, Opening

\* A write to another list leaves this one alone.
LEMMA OtherList ==
  ASSUME TypeOK, ThreadsInv, PublishedInv, SlotsSuffice, NEW t \in Threads, Step(t),
         ~(pt[t] = Owner /\ level[t] = AtLevel /\ (LinkDist(t) \/ LinkExt(t))),
         ~(level[t] = AtLevel /\ Owner \in todo[t] \ todo'[t])
  PROVE  UNCHANGED Zones /\ SameOpening /\ Meets(t) = {}
<1>0. Owner \in Points /\ AtLevel \in Levels
  BY ObservedAssumption
<1>1. SameOpening
  <2>1. Opening(t)' = Opening(t) /\ (Opening(t) => others'[t] = others[t])
    <3>1. CASE ~ListWrite(t)
      <4>1. pc[t] # "revDist" /\ pc'[t] # "revDist"
        BY <3>1, QuietStep DEF Linking
      <4> QED BY <4>1 DEF Opening
    <3>2. CASE LinkDist(t) \/ LinkExt(t)
      BY <3>2 DEF LinkDist, LinkExt, Opening, position
    <3>3. CASE ReverseDist(t) \/ ReverseExt(t)
      BY <3>3 DEF ReverseDist, ReverseExt, Opening, position, search
    <3> QED BY <3>1, <3>2, <3>3 DEF ListWrite
  <2> QED BY <2>1, OtherOpening DEF SameOpening
<1>2. UNCHANGED Zones
  <2>1. CASE ~ListWrite(t)
    BY <2>1, QuietStep DEF Zones
  <2>2. CASE LinkDist(t)
    <3>1. pt[t] \in Points /\ level[t] \in Levels
      BY <2>2, ThreadFacts DEF LinkDist, SearchOver
    <3>2. PICK D \in SUBSET found[t] : SetsZones(pt[t], level[t], D, {})
      BY <2>2, LinkDistEffect
    <3> QED BY <1>0, <2>2, <3>1, <3>2 DEF SetsZones, Zones, TypeOK
  <2>3. CASE LinkExt(t)
    <3>1. pt[t] \in Points /\ level[t] \in Levels
      BY <2>3, ThreadFacts DEF LinkExt, Linking
    <3>2. PICK E \in SUBSET (ext[pt[t]][level[t]] \cup others[t]) :
             SetsZones(pt[t], level[t], dist[pt[t]][level[t]], E)
      BY <2>3, LinkExtEffect
    <3> QED BY <1>0, <2>3, <3>1, <3>2 DEF SetsZones, Zones, TypeOK
  <2>4. CASE ReverseDist(t)
    <3>1. level[t] \in Levels
      BY <2>4, ThreadFacts DEF ReverseDist, Linking
    <3>2. PICK o \in todo[t] : o \in Points /\
           \E D \in SUBSET (dist[o][level[t]] \cup {pt[t]}),
              E \in SUBSET Nbrs(o, level[t]) :
             /\ SetsZones(o, level[t], D, E)
             /\ todo' = [todo EXCEPT ![t] = todo[t] \ {o}]
      BY <2>4, ReverseDistEffect
    <3>3. ~(o = Owner /\ level[t] = AtLevel)
      BY <3>2 DEF TypeOK
    <3> QED BY <1>0, <3>1, <3>2, <3>3 DEF SetsZones, Zones, TypeOK
  <2>5. CASE ReverseExt(t)
    <3>1. level[t] \in Levels
      BY <2>5, ThreadFacts DEF ReverseExt, Linking
    <3>2. PICK o \in todo[t] : o \in Points /\
           \E E \in SUBSET (ext[o][level[t]] \cup {pt[t]}) :
             /\ SetsZones(o, level[t], dist[o][level[t]], E)
             /\ todo' = [todo EXCEPT ![t] = todo[t] \ {o}]
      BY <2>5, ReverseExtEffect
    <3>3. ~(o = Owner /\ level[t] = AtLevel)
      BY <3>2 DEF TypeOK
    <3> QED BY <1>0, <3>1, <3>2, <3>3 DEF SetsZones, Zones, TypeOK
  <2> QED BY <2>1, <2>2, <2>3, <2>4, <2>5 DEF ListWrite
<1>3. Meets(t) = {}
  <2>1. ~WritesLinkBack(t)
    BY DEF WritesLinkBack
  <2>2. ~OwnSearchEnds(t)
    <3>1. CASE ~ListWrite(t)
      BY <3>1, QuietStep DEF OwnSearchEnds, Linking
    <3>2. CASE ListWrite(t)
      BY <3>2 DEF ListWrite, LinkDist, LinkExt, ReverseDist, ReverseExt, OwnSearchEnds
    <3> QED BY <3>1, <3>2
  <2> QED BY <2>1, <2>2 DEF Meets
<1> QED BY <1>1, <1>2, <1>3

-----------------------------------------------------------------------------
(* The writes to the list                                                   *)

\* The owner's search ends: add_link_dist_oriented_batched.
LEMMA FirstWrite ==
  ASSUME IInv, MetInv, FoundInv, NEW t \in Threads, Step(t), LinkDist(t),
         pt[t] = Owner, level[t] = AtLevel, offered' = offered \cup Meets(t)
  PROVE  List!LinkBatched /\ offered' = found[t] \cup others[t]
<1> DEFINE F == found[t]
           O == others[t]
           cap == DistCap(AtLevel)
           size == Total(AtLevel)
<1>0. /\ TypeOK /\ ThreadsInv /\ PublishedInv /\ Owner \in Points /\ AtLevel \in Levels
      /\ pc[t] = "pop" /\ FreshOk(t)
  BY ObservedAssumption DEF IInv, LinkDist, SearchOver, FreshInv
<1>1. /\ ~Published(Owner, AtLevel)
      /\ dist[Owner][AtLevel] = {} /\ ext[Owner][AtLevel] = {}
  BY <1>0, SearcherUnpublished
<1>2. /\ F \in SUBSET (Points \ {Owner}) /\ O \in SUBSET (Points \ {Owner}) /\ F \cap O = {}
  BY <1>0 DEF TypeOK, PublishedInv, Inserting, Held, Pending, FreshOk
<1>3. F # {} /\ Cardinality(F) <= efConstruction
  BY <1>0 DEF FoundInv, FoundOk
<1>4. PICK links \in Shrunk(Owner, F, cap) :
        \E D \in Batched(Owner, dist[Owner][AtLevel], links, cap) :
        \E E \in Moved(dist[Owner][AtLevel], ext[Owner][AtLevel], D, size) :
          /\ dist' = [dist EXCEPT ![Owner][AtLevel] = D]
          /\ ext' = [ext EXCEPT ![Owner][AtLevel] = E]
          /\ others' = [others EXCEPT ![t] = @ \cup ((F \cup dist[Owner][AtLevel]) \ D)]
  BY DEF LinkDist
<1>5. PICK D \in Batched(Owner, dist[Owner][AtLevel], links, cap) :
        \E E \in Moved(dist[Owner][AtLevel], ext[Owner][AtLevel], D, size) :
          /\ dist' = [dist EXCEPT ![Owner][AtLevel] = D]
          /\ ext' = [ext EXCEPT ![Owner][AtLevel] = E]
          /\ others' = [others EXCEPT ![t] = @ \cup ((F \cup dist[Owner][AtLevel]) \ D)]
  BY <1>4
<1>6. /\ dist'[Owner][AtLevel] = D
      /\ ext'[Owner][AtLevel] \in Moved(dist[Owner][AtLevel], ext[Owner][AtLevel], D, size)
      /\ others'[t] = O \cup (F \ D)
  BY <1>0, <1>1, <1>5 DEF TypeOK
<1>7. Opening(t)' /\ \A u \in Threads : Opening(u)' => u = t
  <2>1. Opening(t)'
    BY <1>0 DEF Opening, LinkDist, position, TypeOK
  <2>2. ASSUME NEW u \in Threads, Opening(u)', u # t PROVE FALSE
    <3>1. Opening(u)
      BY <1>0, <2>2, OtherOpening
    <3>2. \A x \in Points : Owner = x => x # NoPoint
      BY NullAssumption
    <3> QED BY <1>0, <2>2, <3>1, <3>2 DEF Opening, ThreadsInv, ThreadOk
  <2> QED BY <2>1, <2>2
<1>8. Phase = "new"
  BY <1>1 DEF Phase
<1>9. Phase' = "open" /\ PendingOthers' = O \cup (F \ D)
  <2>1. Published(Owner, AtLevel)'
    <3>1. AtLevel <= Level[Owner] /\ pt'[t] = Owner /\ level'[t] = AtLevel /\ pc'[t] = "revDist"
      BY <1>0 DEF LinkDist, position, TypeOK, ThreadsInv, ThreadOk
    <3> QED BY <3>1 DEF Published, Inserting, Linking
  <2>2. {u \in Threads : Opening(u)'} = {t}
    BY <1>7
  <2>3. PendingOthers' = others'[t]
    BY <2>2 DEF PendingOthers
  <2> QED BY <1>6, <1>7, <2>1, <2>3 DEF Phase
<1>10. offered' = F \cup O
  <2>1. offered = {}
    BY <1>1 DEF MetInv
  <2>2. OwnSearchEnds(t)
    <3>1. pc'[t] = "revDist"
      BY <1>0 DEF LinkDist, TypeOK
    <3> QED BY <1>0, <3>1 DEF OwnSearchEnds
  <2>3. ~WritesLinkBack(t)
    <3>1. todo[t] = {}
      BY <1>0 DEF ThreadsInv, ThreadOk, Linking
    <3> QED BY <3>1 DEF WritesLinkBack
  <2> QED BY <1>2, <2>1, <2>2, <2>3 DEF Meets
<1>11. /\ links \in List!Shrunk(Owner, F, cap)
       /\ D \in List!Batched(Owner, dist[Owner][AtLevel], links, cap)
       /\ ext'[Owner][AtLevel] \in
            List!Moved(dist[Owner][AtLevel], ext[Owner][AtLevel], D, size)
       /\ List!Cardinality(F) <= efConstruction
  BY <1>3, <1>5, <1>6, ListShrunk, ListBatched, ListMoved, ListSize
<1> HIDE DEF F, O, cap, size
<1>12. \E links_1 \in List!Shrunk(Owner, F, cap) :
       \E D_1 \in List!Batched(Owner, dist[Owner][AtLevel], links_1, cap) :
         /\ dist'[Owner][AtLevel] = D_1
         /\ ext'[Owner][AtLevel] \in
              List!Moved(dist[Owner][AtLevel], ext[Owner][AtLevel], D_1, size)
         /\ PendingOthers' = O \cup (F \ D_1)
  BY <1>6, <1>9, <1>11
<1> QED BY <1>2, <1>3, <1>8, <1>9, <1>10, <1>11, <1>12 DEF List!LinkBatched, cap, size, F, O

\* The owner comes back: add_link_extending_batched.
LEMMA SecondWrite ==
  ASSUME IInv, MetInv, NEW t \in Threads, Step(t), LinkExt(t),
         pt[t] = Owner, level[t] = AtLevel, offered' = offered \cup Meets(t)
  PROVE  List!LinkExt /\ offered' = offered
<1> DEFINE size == Total(AtLevel)
<1>0. /\ TypeOK /\ ThreadsInv /\ Owner \in Points /\ AtLevel \in Levels
      /\ pc[t] = "revDist" /\ todo[t] = {}
  BY ObservedAssumption DEF IInv, LinkExt
<1>1. Opening(t)
  BY <1>0 DEF Opening
<1>2. Phase = "open" /\ PendingOthers = others[t] /\ Published(Owner, AtLevel)
  BY <1>0, <1>1, OneOpening
<1>3. /\ dist'[Owner][AtLevel] = dist[Owner][AtLevel]
      /\ ext'[Owner][AtLevel] \in KeepNearest(Owner, ext[Owner][AtLevel] \cup others[t],
                                   size - Cardinality(dist[Owner][AtLevel]))
  BY <1>0 DEF LinkExt, TypeOK
<1>4. \A u \in Threads : ~Opening(u)'
  <2>1. ~Opening(t)'
    BY <1>0 DEF Opening, LinkExt, TypeOK
  <2>2. ASSUME NEW u \in Threads, Opening(u)', u # t PROVE FALSE
    <3>1. Opening(u)
      BY <1>0, <2>2, OtherOpening
    <3>2. \A x \in Points : Owner = x => x # NoPoint
      BY NullAssumption
    <3> QED BY <1>0, <2>2, <3>1, <3>2 DEF Opening, ThreadsInv, ThreadOk
  <2> QED BY <2>1, <2>2
<1>5. Phase' = "complete" /\ PendingOthers' = {}
  <2>1. Published(Owner, AtLevel)'
    BY <1>0, <1>2, PublishedStays
  <2>2. {u \in Threads : Opening(u)'} = {}
    BY <1>4
  <2>3. PendingOthers' = {}
    BY <2>2 DEF PendingOthers
  <2> QED BY <1>4, <2>1, <2>3 DEF Phase
<1>6. offered' = offered
  <2>1. ~OwnSearchEnds(t) /\ ~WritesLinkBack(t)
    BY <1>0 DEF OwnSearchEnds, WritesLinkBack
  <2> QED BY <2>1 DEF Meets
<1>7. ext'[Owner][AtLevel] \in
        List!KeepNearest(Owner, ext[Owner][AtLevel] \cup PendingOthers,
                         size - List!Cardinality(dist[Owner][AtLevel]))
  BY <1>2, <1>3, ListKeepNearest, ListSize
<1> QED BY <1>2, <1>3, <1>5, <1>6, <1>7 DEF List!LinkExt

\* A reverse link comes from a point that the list has not met.
LEMMA Newcomer ==
  ASSUME IInv, MetInv, NEW t \in Threads, Step(t), pc[t] \in Linking, level[t] = AtLevel,
         ReverseDist(t) \/ ReverseExt(t),
         Owner \in todo[t] \ todo'[t], offered' = offered \cup Meets(t)
  PROVE  /\ Phase # "new" /\ Phase' = Phase /\ PendingOthers' = PendingOthers
         /\ pt[t] \in Points /\ pt[t] \notin offered \cup {Owner}
         /\ offered' = offered \cup {pt[t]}
<1>0. TypeOK /\ ThreadsInv /\ PublishedInv /\ Owner \in Points /\ AtLevel \in Levels
  BY ObservedAssumption DEF IInv
<1>1. pt[t] \in Points /\ pt[t] # Owner /\ Published(Owner, AtLevel)
  <2>1. Owner \in Held(t) /\ pc[t] \in Inserting
    BY DEF Held, Pending, Inserting
  <2>2. pt[t] \in Points
    BY <1>0, ThreadFacts DEF Linking
  <2> QED BY <1>0, <2>1, <2>2 DEF PublishedInv
<1>2. pt[t] \notin offered
  BY DEF MetInv, NotAgain
<1>3. offered' = offered \cup {pt[t]}
  <2>1. ~OwnSearchEnds(t) /\ WritesLinkBack(t)
    BY <1>1 DEF OwnSearchEnds, WritesLinkBack
  <2> QED BY <1>1, <2>1 DEF Meets
<1>4. SameOpening
  <2>1. Opening(t)' = Opening(t) /\ (Opening(t) => others'[t] = others[t])
    BY <1>1 DEF ReverseDist, ReverseExt, Opening, position, search
  <2> QED BY <1>0, <2>1, OtherOpening DEF SameOpening
<1>5. Phase' = Phase
  BY <1>0, <1>1, <1>4, PublishedStays DEF Phase, SameOpening
<1>6. PendingOthers' = PendingOthers
  <2>1. \A v : v \in PendingOthers <=> \E u \in Threads : Opening(u) /\ v \in others[u]
    BY DEF PendingOthers
  <2>2. \A v : v \in PendingOthers' <=> \E u \in Threads : Opening(u)' /\ v \in others'[u]
    BY DEF PendingOthers
  <2>3. \A v : v \in PendingOthers' <=> v \in PendingOthers
    BY <1>4, <2>1, <2>2 DEF SameOpening
  <2> QED BY <2>3
<1> QED BY <1>1, <1>2, <1>3, <1>5, <1>6 DEF Phase

\* Another thread writes its reverse link: add_link_dist_oriented_opt,
LEMMA BackDist ==
  ASSUME IInv, MetInv, NEW t \in Threads, Step(t), ReverseDist(t), level[t] = AtLevel,
         Owner \in todo[t] \ todo'[t], offered' = offered \cup Meets(t)
  PROVE  List!ReverseDist(pt[t])
<1> DEFINE size == Total(AtLevel)
           cap == DistCap(AtLevel)
<1>0. /\ TypeOK /\ Owner \in Points /\ AtLevel \in Levels /\ pc[t] \in Linking
  BY ObservedAssumption DEF IInv, ReverseDist, Linking
<1>1. /\ Phase # "new" /\ Phase' = Phase /\ PendingOthers' = PendingOthers
      /\ pt[t] \notin offered \cup {Owner} /\ offered' = offered \cup {pt[t]}
  BY <1>0, Newcomer
<1>2. PICK o \in Farthest(pt[t], todo[t]) :
        /\ \E D \in Added(o, dist[o][AtLevel], pt[t], cap) :
           \E E \in Moved(dist[o][AtLevel], ext[o][AtLevel], D, size) :
             /\ dist' = [dist EXCEPT ![o][AtLevel] = D]
             /\ ext' = [ext EXCEPT ![o][AtLevel] = E]
        /\ todo' = [todo EXCEPT ![t] = @ \ {o}]
  BY DEF ReverseDist
<1>3. o = Owner
  BY <1>0, <1>2 DEF TypeOK
<1>4. PICK D \in Added(o, dist[o][AtLevel], pt[t], cap) :
        \E E \in Moved(dist[o][AtLevel], ext[o][AtLevel], D, size) :
          /\ dist' = [dist EXCEPT ![o][AtLevel] = D]
          /\ ext' = [ext EXCEPT ![o][AtLevel] = E]
  BY <1>2
<1>5. /\ D \in Added(o, dist[o][AtLevel], pt[t], cap)
      /\ dist'[o][AtLevel] = D
      /\ ext'[o][AtLevel] \in Moved(dist[o][AtLevel], ext[o][AtLevel], D, size)
  BY <1>0, <1>3, <1>4 DEF TypeOK
<1>6. /\ D \in List!Added(Owner, dist[Owner][AtLevel], pt[t], cap)
      /\ dist'[Owner][AtLevel] = D
      /\ ext'[Owner][AtLevel] \in
           List!Moved(dist[Owner][AtLevel], ext[Owner][AtLevel], D, size)
  <2> HIDE DEF cap, size
  <2> QED BY <1>3, <1>5, ListAdded, ListMoved
<1> QED BY <1>1, <1>6 DEF List!ReverseDist

\* or add_link_extending_fast and add_link_extending.
LEMMA BackExt ==
  ASSUME IInv, MetInv, NEW t \in Threads, Step(t), ReverseExt(t), level[t] = AtLevel,
         Owner \in todo[t] \ todo'[t], offered' = offered \cup Meets(t)
  PROVE  List!ReverseExt(pt[t])
<1> DEFINE size == Total(AtLevel)
<1>0. /\ TypeOK /\ Owner \in Points /\ AtLevel \in Levels /\ pc[t] \in Linking
  BY ObservedAssumption DEF IInv, ReverseExt, Linking
<1>1. /\ Phase # "new" /\ Phase' = Phase /\ PendingOthers' = PendingOthers
      /\ pt[t] \notin offered \cup {Owner} /\ offered' = offered \cup {pt[t]}
  BY <1>0, Newcomer
<1>2. PICK o \in Farthest(pt[t], todo[t]) :
        /\ \E E \in Inserted(o, ext[o][AtLevel], pt[t],
                             size - Cardinality(dist[o][AtLevel]), use_optimized_building) :
             ext' = [ext EXCEPT ![o][AtLevel] = E]
        /\ todo' = [todo EXCEPT ![t] = @ \ {o}]
  BY DEF ReverseExt
<1>3. o = Owner
  BY <1>0, <1>2 DEF TypeOK
<1>4. /\ ext'[Owner][AtLevel] \in
           Inserted(Owner, ext[Owner][AtLevel], pt[t],
                    size - Cardinality(dist[Owner][AtLevel]), use_optimized_building)
      /\ dist'[Owner][AtLevel] = dist[Owner][AtLevel]
  BY <1>0, <1>2, <1>3 DEF TypeOK, ReverseExt
<1>5. ext'[Owner][AtLevel] \in
        List!Inserted(Owner, ext[Owner][AtLevel], pt[t],
                      size - List!Cardinality(dist[Owner][AtLevel]), use_optimized_building)
  BY <1>4, ListInserted, ListSize
<1> QED BY <1>1, <1>4, <1>5 DEF List!ReverseExt

-----------------------------------------------------------------------------
(* The invariant and the mapping are kept by every step                     *)

\* The calls change no link and no thread.
LEMMA CallStep ==
  ASSUME TypeOK, StartAdd \/ EndAdd \/ Throw \/ UNCHANGED vars
  PROVE  /\ UNCHANGED <<dist, ext, pc, pt, level, others, todo>>
         /\ \A x \in Points, l \in Levels : Published(x, l)' = Published(x, l)
<1>1. /\ UNCHANGED <<dist, ext, pc, pt, level, others, todo>>
      /\ \A x \in Points : stage'[x] = "linked" <=> stage[x] = "linked"
  BY DEF StartAdd, EndAdd, Throw, Queued, vars, graph, adding, position, search, TypeOK
<1> QED BY <1>1 DEF Published

\* Links still to be written do not become more.
LEMMA NoNewTargets ==
  ASSUME TypeOK, ThreadsInv, NEW t \in Threads, Step(t), pc'[t] \in Linking, ~LinkDist(t)
  PROVE  /\ pc[t] \in Linking /\ pt'[t] = pt[t] /\ level'[t] = level[t]
         /\ todo'[t] \cup others'[t] \subseteq todo[t] \cup others[t]
<1>1. ReverseDist(t) \/ LinkExt(t) \/ ReverseExt(t)
  BY QuietStep DEF ListWrite
<1>2. CASE ReverseDist(t) \/ ReverseExt(t)
  BY <1>2 DEF ReverseDist, ReverseExt, position, search, Linking, TypeOK
<1>3. CASE LinkExt(t)
  BY <1>3 DEF LinkExt, position, Linking, TypeOK
<1> QED BY <1>1, <1>2, <1>3

\* A link is taken off the list of those to write by writing it.
LEMMA LinkTaken ==
  ASSUME TypeOK, ThreadsInv, NEW t \in Threads, Step(t), NEW o \in todo[t] \ todo'[t]
  PROVE  pc[t] \in Linking /\ (ReverseDist(t) \/ ReverseExt(t))
<1>1. pc[t] \in Linking
  BY DEF ThreadsInv, ThreadOk
<1>2. ~LinkDist(t) /\ ~LinkExt(t)
  BY <1>1 DEF LinkDist, SearchOver, LinkExt, Linking
<1> QED BY <1>1, <1>2, QuietStep DEF ListWrite

\* the steps that write the list
WritesList(t) == /\ level[t] = AtLevel
                 /\ \/ pt[t] = Owner /\ (LinkDist(t) \/ LinkExt(t))
                    \/ Owner \in todo[t] \ todo'[t]

LEMMA MetStep ==
  ASSUME IInv, FoundInv, MetInv, [ObservedNext]_ovars
  PROVE  MetInv'
<1>0. /\ TypeOK /\ ThreadsInv /\ PublishedInv /\ FreshInv /\ MutualInv /\ SlotsSuffice
      /\ Owner \in Points /\ AtLevel \in Levels
  BY ObservedAssumption DEF IInv
<1>1. CASE (StartAdd \/ EndAdd \/ Throw \/ UNCHANGED vars) /\ UNCHANGED offered
  BY <1>0, <1>1, CallStep DEF MetInv, NotAgain
<1>2. CASE Reset /\ offered' = {}
  BY <1>2 DEF MetInv, NotAgain
<1>3. ASSUME NEW t \in Threads, Step(t), offered' = offered \cup Meets(t) PROVE MetInv'
  <2>1. \A v \in Points : Published(v, AtLevel) => Published(v, AtLevel)'
    BY <1>0, <1>3, PublishedStays
  <2>2. ASSUME NEW u \in Threads, u # t
        PROVE  UNCHANGED <<pc[u], pt[u], level[u], todo[u], others[u]>>
    BY <1>0, <1>3, <2>2, OtherThreads DEF Registers
  <2>3. ASSUME pc'[t] \in Linking, level'[t] = AtLevel, pt'[t] \in offered
        PROVE  Owner \notin todo'[t] \cup others'[t]
    <3>1. ~LinkDist(t)
      <4>1. ASSUME LinkDist(t) PROVE FALSE
        <5>1. pc[t] = "pop" /\ pt'[t] = pt[t] /\ level'[t] = level[t]
          BY <4>1 DEF LinkDist, SearchOver, position
        <5> QED BY <1>0, <2>3, <5>1, SearcherUnpublished DEF MetInv
      <4> QED BY <4>1
    <3> QED BY <1>0, <1>3, <2>3, <3>1, NoNewTargets DEF MetInv, NotAgain
  <2>4. CASE UNCHANGED offered
    <3>1. offered \subseteq Points
      BY DEF MetInv
    <3>2. ASSUME NEW u \in Threads PROVE NotAgain(u)'
      BY <2>2, <2>3, <2>4 DEF MetInv, NotAgain
    <3> QED BY <1>0, <2>1, <2>4, <3>1, <3>2 DEF MetInv
  <2>5. CASE ~WritesList(t)
    <3>1. Meets(t) = {}
      BY <1>0, <1>3, <2>5, OtherList DEF WritesList
    <3> QED BY <1>3, <2>4, <3>1
  <2>6. CASE pt[t] = Owner /\ level[t] = AtLevel /\ LinkExt(t)
    BY <1>3, <2>4, <2>6, SecondWrite
  <2>7. CASE pt[t] = Owner /\ level[t] = AtLevel /\ LinkDist(t)
    <3>1. offered' = found[t] \cup others[t]
      BY <1>3, <2>7, FirstWrite
    <3>2. pc[t] \in Inserting /\ offered' \subseteq Held(t) /\ offered' \subseteq Points
      BY <1>0, <2>7, <3>1 DEF LinkDist, SearchOver, Inserting, Held, Pending, TypeOK
    <3>3. offered' \subseteq Points \ {Owner} /\ \A v \in offered' : Published(v, AtLevel)
      BY <1>0, <2>7, <3>2 DEF PublishedInv
    <3>4. Published(Owner, AtLevel)'
      <4>1. /\ AtLevel <= Level[Owner] /\ pt'[t] = Owner /\ level'[t] = AtLevel
            /\ pc'[t] = "revDist"
        BY <1>0, <2>7 DEF LinkDist, SearchOver, position, TypeOK, ThreadsInv, ThreadOk
      <4> QED BY <4>1 DEF Published, Inserting, Linking
    <3>5. ASSUME NEW u \in Threads PROVE NotAgain(u)'
      <4>1. CASE u = t
        <5>1. pt'[t] = Owner
          BY <2>7 DEF LinkDist, position
        <5> QED BY <3>3, <4>1, <5>1 DEF NotAgain
      <4>2. CASE u # t
        <5> SUFFICES ASSUME pc[u] \in Linking, level[u] = AtLevel, pt[u] \in offered'
                     PROVE  Owner \notin todo[u] \cup others[u]
          BY <2>2, <4>2 DEF NotAgain
        <5>1. pc[u] \in Inserting /\ pt[u] \in Held(t)
          BY <3>2 DEF Inserting
        <5>2. pt[t] \notin Held(u)
          BY <1>0, <2>7, <3>2, <5>1 DEF MutualInv
        <5> QED BY <2>7, <5>2 DEF Held, Pending
      <4> QED BY <4>1, <4>2
    <3> QED BY <2>1, <3>3, <3>4, <3>5 DEF MetInv
  <2>8. CASE level[t] = AtLevel /\ Owner \in todo[t] \ todo'[t]
    <3>1. pc[t] \in Linking /\ (ReverseDist(t) \/ ReverseExt(t))
      BY <1>0, <1>3, <2>8, LinkTaken
    <3>2. pt[t] \in Points /\ pt[t] # Owner /\ offered' = offered \cup {pt[t]}
      BY <1>3, <2>8, <3>1, Newcomer
    <3>3. Published(pt[t], AtLevel)
      <4>1. AtLevel <= Level[pt[t]]
        BY <1>0, <2>8, <3>1 DEF ThreadsInv, ThreadOk
      <4> QED BY <2>8, <3>1, <4>1 DEF Published, Inserting
    <3>4. Published(Owner, AtLevel)
      <4>1. Owner \in Held(t) /\ pc[t] \in Inserting
        BY <2>8, <3>1 DEF Held, Pending, Inserting
      <4> QED BY <1>0, <2>8, <4>1 DEF PublishedInv
    <3>5. ASSUME NEW u \in Threads PROVE NotAgain(u)'
      <4>1. CASE u = t
        <5>1. Owner \notin others[t] /\ others'[t] = others[t]
          BY <1>0, <2>8, <3>1 DEF FreshInv, FreshOk, ReverseDist, ReverseExt, search
        <5> QED BY <2>8, <4>1, <5>1 DEF NotAgain
      <4>2. CASE u # t
        <5>1. pc[u] \in Linking => pt[u] # pt[t]
          BY <1>0, <3>1, <4>2 DEF ThreadsInv, Linking
        <5> QED BY <2>2, <3>2, <4>2, <5>1 DEF MetInv, NotAgain
      <4> QED BY <4>1, <4>2
    <3> QED BY <1>0, <2>1, <3>2, <3>3, <3>4, <3>5 DEF MetInv
  <2> QED BY <2>5, <2>6, <2>7, <2>8 DEF WritesList
<1> QED BY <1>1, <1>2, <1>3 DEF ObservedNext, ovars

\* Every step writes the list as NeighborList does, or makes it anew, or leaves
\* it alone.
LEMMA MapStep ==
  ASSUME IInv, FoundInv, MetInv, [ObservedNext]_ovars
  PROVE  List!ListNext \/ (Reset /\ List!ListInit') \/ UNCHANGED List!lvars
<1>0. /\ TypeOK /\ ThreadsInv /\ StagesInv /\ PublishedInv /\ SlotsSuffice
      /\ Owner \in Points /\ AtLevel \in Levels
  BY ObservedAssumption DEF IInv, BatchInv
<1>1. CASE (StartAdd \/ EndAdd \/ Throw \/ UNCHANGED vars) /\ UNCHANGED offered
  <2>1. SameOpening /\ UNCHANGED Zones /\ Published(Owner, AtLevel)' = Published(Owner, AtLevel)
    BY <1>0, <1>1, CallStep DEF SameOpening, Opening, Zones
  <2> QED BY <1>0, <1>1, <2>1, PhaseStays DEF List!ListNext
<1>2. CASE Reset /\ offered' = {}
  <2>1. /\ \A t \in Threads : pc'[t] = "idle"
        /\ stage'[Owner] = "absent"
        /\ dist'[Owner][AtLevel] = {} /\ ext'[Owner][AtLevel] = {}
    BY <1>0, <1>2 DEF Reset, StagesInv, AllIdle
  <2>2. ~Published(Owner, AtLevel)'
    BY <2>1 DEF Published, Inserting, Linking
  <2>3. {u \in Threads : Opening(u)'} = {}
    BY <2>1 DEF Opening
  <2>4. PendingOthers' = {}
    BY <2>3 DEF PendingOthers
  <2>5. Phase' = "new"
    BY <2>2 DEF Phase
  <2> QED BY <1>2, <2>1, <2>4, <2>5, SizeAssumption DEF List!ListInit
<1>3. ASSUME NEW t \in Threads, Step(t), offered' = offered \cup Meets(t)
      PROVE  List!ListNext \/ UNCHANGED List!lvars
  <2>1. CASE ~WritesList(t)
    <3>1. UNCHANGED Zones /\ SameOpening /\ Meets(t) = {}
      BY <1>0, <1>3, <2>1, OtherList DEF WritesList
    <3>2. Published(Owner, AtLevel) => Published(Owner, AtLevel)'
      BY <1>0, <1>3, PublishedStays
    <3> QED BY <1>0, <1>3, <3>1, <3>2, PhaseStays DEF List!ListNext
  <2>2. CASE pt[t] = Owner /\ level[t] = AtLevel /\ LinkDist(t)
    BY <1>3, <2>2, FirstWrite DEF List!ListNext
  <2>3. CASE pt[t] = Owner /\ level[t] = AtLevel /\ LinkExt(t)
    BY <1>3, <2>3, SecondWrite DEF List!ListNext
  <2>4. CASE level[t] = AtLevel /\ Owner \in todo[t] \ todo'[t]
    <3>1. pc[t] \in Linking /\ (ReverseDist(t) \/ ReverseExt(t))
      BY <1>0, <1>3, <2>4, LinkTaken
    <3>2. pt[t] \in Points
      BY <1>0, <3>1, ThreadFacts DEF Linking
    <3>3. List!ReverseDist(pt[t]) \/ List!ReverseExt(pt[t])
      BY <1>3, <2>4, <3>1, BackDist, BackExt
    <3> QED BY <3>2, <3>3 DEF List!ListNext
  <2> QED BY <2>1, <2>2, <2>3, <2>4 DEF WritesList
<1> QED BY <1>1, <1>2, <1>3 DEF ObservedNext, ovars

-----------------------------------------------------------------------------
(* The theorem                                                              *)

\* Every list of the construction goes through the writes of NeighborList and
\* no others, whatever the threads do: a point meets it once and never is its
\* owner, and what the owner found and met is disjoint.  These are the
\* assumptions under which NeighborSlots writes the slots.
THEOREM ListsImplemented == ObservedSpec => IsNeighborList
<1>1. ObservedInit => Init /\ FoundInv /\ MetInv /\ List!ListInit
  <2> SUFFICES ASSUME ObservedInit PROVE FoundInv /\ MetInv /\ List!ListInit
    BY DEF ObservedInit
  <2>1. \A t \in Threads : pc[t] = "idle"
    BY DEF ObservedInit, Init
  <2>2. FoundInv /\ MetInv
    BY <2>1 DEF FoundInv, FoundOk, MetInv, NotAgain, ObservedInit, Linking
  <2>3. ~Published(Owner, AtLevel) /\ \A t \in Threads : ~Opening(t)
    BY <2>1, ObservedAssumption DEF ObservedInit, Init, Published, Opening, Inserting, Linking
  <2>4. Phase = "new" /\ PendingOthers = {}
    BY <2>3, NoOpening
  <2> QED BY <2>2, <2>4, ObservedAssumption, SizeAssumption DEF ObservedInit, Init, List!ListInit
<1>2. [ObservedNext]_ovars => [Next]_vars
  BY DEF ObservedNext, Next, ovars
<1>3. IInv /\ FoundInv /\ MetInv /\ [ObservedNext]_ovars => FoundInv' /\ MetInv'
  BY <1>2, FoundStep, MetStep
<1>4. IInv /\ FoundInv /\ MetInv /\ [ObservedNext]_ovars
        => [List!ListNext \/ (Reset /\ List!ListInit')]_(List!lvars)
  BY MapStep
<1> QED BY <1>1, <1>2, <1>3, <1>4, InitInvariant, StepInvariant, PTL DEF ObservedSpec, IsNeighborList
=============================================================================
