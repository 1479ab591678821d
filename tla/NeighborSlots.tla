--------------------------- MODULE NeighborSlots ---------------------------
(***************************************************************************)
(* One neighbour list slot by slot: the range [begin, end) of the array     *)
(* `neighbors` and its entry of `neighbor_boundaries`, as the functions     *)
(* add_link_* of PathSeer.cpp write them.  Slot 0 is begin, slot Total is   *)
(* the first slot of the next range, which belongs to another list.         *)
(***************************************************************************)
EXTENDS NeighborSelection, Sequences

CONSTANTS
  Owner, Cap, Total, MaxFound, \* as in NeighborList, Total is its Size
  NoPoint,                 \* -1, an empty slot
  Foreign                  \* some point of the next list

ASSUME SlotsAssumption ==
  /\ Owner \in Points /\ Cap \in Nat \ {0} /\ Total \in Nat /\ Cap <= Total
  /\ MaxFound \in Nat \ {0}
  /\ NoPoint \notin Points /\ Foreign \notin Points \cup {NoPoint}

VARIABLES
  use_optimized_building,  \* as in NeighborList
  neighbors, boundary,     \* the slots; where the dist-oriented zone ends
  phase, pending, offered  \* as in NeighborList; "aborted": FAISS_ASSERT

vars == <<use_optimized_building, neighbors, boundary, phase, pending, offered>>

Slots == 0 .. Total
-----------------------------------------------------------------------------
(* Reading and writing slots                                                *)

In(a, from, to) == {a[i] : i \in from .. to - 1}

\* one past the last used slot from b on (the loops that compute true_end)
TrueEnd(a, b) ==
  CHOOSE e \in b .. Total : /\ e = b \/ a[e - 1] # NoPoint
                            /\ \A i \in e .. Total - 1 : a[i] = NoPoint

\* the ways to pop a queue of S into slots, nearest first
NearestFirst(S) ==
  {s \in [1 .. Cardinality(S) -> S] :
     \A i, j \in DOMAIN s :
       i < j => s[i] # s[j] /\ Dist[Owner][s[i]] <= Dist[Owner][s[j]]}

\* a with s written from slot `from` on
Put(a, from, s) ==
  [i \in Slots |-> IF i - from + 1 \in DOMAIN s THEN s[i - from + 1] ELSE a[i]]

\* memmove of n slots from slot `from` to slot `to`
Move(a, from, to, n) ==
  [i \in Slots |-> IF to <= i /\ i < to + n THEN a[i - to + from] ELSE a[i]]

\* Wrong: the zone is moved whole; or the slots it leaves are not emptied.
Shift_Whole(a, b, x) == LET e == TrueEnd(a, b) IN
  IF x = 0 \/ e = b THEN a
  ELSE IF x > 0 THEN Move(a, b, b + x, e - b)
  ELSE [Move(a, b, b + x, e - b) EXCEPT ![e - 1] = NoPoint]
Shift_KeepsOld(a, b, x) == LET e == TrueEnd(a, b) IN
  IF x = 0 \/ e = b THEN a
  ELSE IF x > 0 THEN Move(a, b, b + x, IF e - b + x > Total - b THEN Total - b - x
                                                                ELSE e - b)
  ELSE Move(a, b, b + x, e - b)

\* move_the_extending_zone: from boundary b by x slots.  An empty zone is not
\* moved, and the slots before b are not emptied then.
Shift(a, b, x) == LET e == TrueEnd(a, b) IN
  IF x = 0 \/ e = b THEN a
  ELSE IF x > 0 THEN Move(a, b, b + x, IF e - b + x > Total - b THEN Total - b - x
                                                                ELSE e - b)
  ELSE [i \in Slots |-> IF e + x <= i /\ i < e THEN NoPoint
                        ELSE Move(a, b, b + x, e - b)[i]]

-----------------------------------------------------------------------------
Init ==
  /\ use_optimized_building \in BOOLEAN
  /\ \E next \in {NoPoint, Foreign} :
       neighbors = [i \in Slots |-> IF i = Total THEN next ELSE NoPoint]
  /\ boundary = 0
  /\ phase = "new" /\ pending = {} /\ offered = {}

First == /\ phase = "new"
         /\ phase' = "complete"
         /\ UNCHANGED <<use_optimized_building, neighbors, boundary, pending, offered>>

\* write the links s where the dist-oriented zone starts or goes on
SetDist(from, s) ==
  LET b == from + Len(s)
  IN /\ neighbors' = Put(Shift(neighbors, boundary, b - boundary), from, s)
     /\ boundary' = b

\* pathseer_shrink_neighbor_list, then add_link_dist_oriented_batched
LinkBatched ==
  /\ phase = "new"
  /\ \E F \in SUBSET (Points \ {Owner}), O \in SUBSET (Points \ {Owner}) :
       /\ F # {} /\ Cardinality(F) <= MaxFound /\ F \cap O = {}
       /\ \E links \in Shrunk(Owner, F, Cap) :
          LET old == In(neighbors, 0, boundary)
          IN \/ /\ boundary + Cardinality(links) < Cap
                /\ \E s \in NearestFirst(links) : SetDist(boundary, s)
                /\ pending' = O \cup (F \ links)
             \/ /\ boundary + Cardinality(links) >= Cap
                /\ \E D \in Shrunk(Owner, links \cup old, Cap) :
                     /\ \E s \in NearestFirst(D) : SetDist(0, s)
                     /\ pending' = O \cup ((F \cup old) \ D)
       /\ offered' = F \cup O
  /\ phase' = "open" /\ UNCHANGED use_optimized_building

\* Wrong: the zone is never full.
ReverseDist_Unlimited(p) ==
  /\ phase \in {"open", "complete"} /\ p \notin offered \cup {Owner}
  /\ SetDist(boundary, <<p>>)
  /\ offered' = offered \cup {p}
  /\ UNCHANGED <<use_optimized_building, phase, pending>>

\* add_link_dist_oriented_opt(Owner, p)
ReverseDist(p) ==
  /\ phase \in {"open", "complete"} /\ p \notin offered \cup {Owner}
  /\ \/ /\ boundary < Cap
        /\ SetDist(boundary, <<p>>)
     \/ /\ boundary >= Cap
        /\ \E D \in Shrunk(Owner, In(neighbors, 0, boundary) \cup {p}, Cap) :
           \E s \in NearestFirst(D) : SetDist(0, s)
  /\ offered' = offered \cup {p}
  /\ UNCHANGED <<use_optimized_building, phase, pending>>

\* add_link_extending_batched: all of the zone is rewritten in order
LinkExt ==
  /\ phase = "open"
  /\ LET old == In(neighbors, boundary, TrueEnd(neighbors, boundary))
     IN \E E \in KeepNearest(Owner, old \cup pending, Total - boundary) :
        \E s \in NearestFirst(E) :
          neighbors' = [i \in Slots |->
            IF boundary + Len(s) <= i /\ i < Total THEN NoPoint
            ELSE Put(neighbors, boundary, s)[i]]
  /\ phase' = "complete" /\ pending' = {}
  /\ UNCHANGED <<use_optimized_building, boundary, offered>>

\* the binary search for p in the slots left .. right - 1
Position(a, p, from, to) ==
  LET search[r \in Slots \X Slots] ==
        LET left == r[1]
            right == r[2]
            mid == (left + right) \div 2
        IN IF left >= right THEN left
           ELSE IF Dist[Owner][a[mid]] < Dist[Owner][p]
           THEN search[<<mid + 1, right>>] ELSE search[<<left, mid>>]
  IN search[<<from, to>>]

\* Wrong: a point that would be the last one is not inserted.
InsertSorted_QuitsEarly(p, e) ==
  LET at == Position(neighbors, p, boundary, e)
      last == IF e = Total THEN e - 1 ELSE e
  IN IF at >= last THEN UNCHANGED neighbors
     ELSE neighbors' = [Move(neighbors, at, at + 1, last - at) EXCEPT ![at] = p]

\* with the zone full, what is in its last slot goes, or p itself
InsertSorted(p, e) ==
  LET at == Position(neighbors, p, boundary, e)
      last == IF e = Total THEN e - 1 ELSE e
  IN IF at > last THEN UNCHANGED neighbors
     ELSE neighbors' = [Move(neighbors, at, at + 1, last - at) EXCEPT ![at] = p]

\* add_link_extending_fast(Owner, p).  When the dist-oriented zone fills the
\* range, the first slot it looks at is the next list's.
ReverseExtFast(p) ==
  LET e == TrueEnd(neighbors, boundary)
  IN /\ use_optimized_building
     /\ IF neighbors[boundary] = NoPoint
        THEN neighbors' = [neighbors EXCEPT ![boundary] = p] /\ UNCHANGED phase
        ELSE IF e > boundary
        THEN InsertSorted(p, e) /\ UNCHANGED phase
        ELSE phase' = "aborted" /\ UNCHANGED neighbors

\* Wrong: one slot too far.
PutLast_Further(p, e) ==
  neighbors' = [neighbors EXCEPT ![IF e + 1 < Total THEN e + 1 ELSE e] = p]

\* the first free slot, found from the end of the range
PutLast(p, e) == neighbors' = [neighbors EXCEPT ![e] = p]

\* add_link_extending(Owner, p)
ReverseExtSlow(p) ==
  LET e == TrueEnd(neighbors, boundary)
  IN /\ ~use_optimized_building
     /\ \/ /\ neighbors[Total - 1] = NoPoint
           /\ PutLast(p, e)
        \/ /\ neighbors[Total - 1] # NoPoint
           /\ \E E \in KeepNearest(Owner, In(neighbors, boundary, Total) \cup {p},
                                   Total - boundary) :
              \E s \in NearestFirst(E) : neighbors' = Put(neighbors, boundary, s)
     /\ UNCHANGED phase

ReverseExt(p) ==
  /\ phase \in {"open", "complete"} /\ p \notin offered \cup {Owner}
  /\ ReverseExtFast(p) \/ ReverseExtSlow(p)
  /\ offered' = offered \cup {p}
  /\ UNCHANGED <<use_optimized_building, boundary, pending>>

Next == \/ First \/ LinkBatched \/ LinkExt
        \/ \E p \in Points : ReverseDist(p) \/ ReverseExt(p)

Spec == Init /\ [][Next]_vars

-----------------------------------------------------------------------------
(* Properties                                                               *)

TypeOK ==
  /\ use_optimized_building \in BOOLEAN
  /\ neighbors \in [Slots -> Points \cup {NoPoint, Foreign}]
  /\ boundary \in 0 .. Cap
  /\ phase \in {"new", "open", "complete", "aborted"}
  /\ pending \in SUBSET Points /\ offered \in SUBSET Points

Zone1 == In(neighbors, 0, boundary)
Zone2 == In(neighbors, boundary, Total) \ {NoPoint}

\* The slots are used from the start of the range without a gap, and the
\* boundary never claims an empty slot: readers stop at the first -1.
Packed == /\ \A i \in 0 .. boundary - 1 : neighbors[i] # NoPoint
          /\ \A i, j \in 0 .. Total - 1 :
               i < j /\ neighbors[j] # NoPoint => neighbors[i] # NoPoint

\* Neither zone holds a point twice.
OncePerZone ==
  \A i, j \in 0 .. Total - 1 :
    i < j /\ neighbors[i] = neighbors[j] /\ neighbors[i] # NoPoint
      => i < boundary /\ boundary <= j

\* No write reaches the next list, and no assertion fails on the way.
StaysInRange == neighbors[Total] \in {NoPoint, Foreign} /\ phase # "aborted"

\* "keeps the order of the extending area": nearest first, which the binary
\* search of add_link_extending_fast relies on.
ExtendingOrder ==
  use_optimized_building => \A i, j \in boundary .. Total - 1 :
    i < j /\ neighbors[j] # NoPoint =>
      Dist[Owner][neighbors[i]] <= Dist[Owner][neighbors[j]]

\* The slots implement the list of two zones that PathSeerBuild is made of.
List == INSTANCE NeighborList WITH Size <- Total, dist <- Zone1, ext <- Zone2
ImplementsList == List!ListSpec
=============================================================================
