---------------------------- MODULE NeighborList ----------------------------
(***************************************************************************)
(* One neighbour list as its readers see it: two zones, and the writes that *)
(* PathSeer's construction makes to it, each under the lock of the owner.   *)
(* PathSeerBuild has these writes inside its actions; NeighborSlots shows   *)
(* how they are done in the slots of one array range.                       *)
(***************************************************************************)
EXTENDS NeighborSelection

CONSTANTS
  Owner,                   \* the point whose list this is
  Cap, Size,               \* slots of the dist-oriented zone, of the list
  MaxFound                 \* efConstruction

VARIABLES
  use_optimized_building,  \* fixed while points are added
  dist, ext,               \* the two zones
  phase,                   \* "new", "open" (own lock released), "complete"
  pending,                 \* other_link_targets, while "open"
  offered                  \* the points this list has met: each comes once

lvars == <<use_optimized_building, dist, ext, phase, pending, offered>>

ListInit == /\ use_optimized_building \in BOOLEAN
            /\ dist = {} /\ ext = {}
            /\ phase = "new" /\ pending = {} /\ offered = {}

\* the first point of an empty index is linked without a search
First == /\ phase = "new"
         /\ phase' = "complete"
         /\ UNCHANGED <<use_optimized_building, dist, ext, pending, offered>>

\* the owner's search found F, and met O: add_link_dist_oriented_batched
LinkBatched ==
  /\ phase = "new"
  /\ \E F \in SUBSET (Points \ {Owner}), O \in SUBSET (Points \ {Owner}) :
       /\ F # {} /\ Cardinality(F) <= MaxFound /\ F \cap O = {}
       /\ \E links \in Shrunk(Owner, F, Cap) :
          \E D \in Batched(Owner, dist, links, Cap) :
            /\ dist' = D
            /\ ext' \in Moved(dist, ext, D, Size)
            /\ pending' = O \cup (F \ D)
       /\ offered' = F \cup O
  /\ phase' = "open" /\ UNCHANGED use_optimized_building

\* another point p writes its reverse link: add_link_dist_oriented_opt
ReverseDist(p) ==
  /\ phase # "new" /\ p \notin offered \cup {Owner}
  /\ \E D \in Added(Owner, dist, p, Cap) :
       /\ dist' = D
       /\ ext' \in Moved(dist, ext, D, Size)
  /\ offered' = offered \cup {p}
  /\ UNCHANGED <<use_optimized_building, phase, pending>>

\* the owner comes back: add_link_extending_batched
LinkExt ==
  /\ phase = "open"
  /\ ext' \in KeepNearest(Owner, ext \cup pending, Size - Cardinality(dist))
  /\ phase' = "complete" /\ pending' = {}
  /\ UNCHANGED <<use_optimized_building, dist, offered>>

\* another point p: add_link_extending_fast or add_link_extending
ReverseExt(p) ==
  /\ phase # "new" /\ p \notin offered \cup {Owner}
  /\ ext' \in Inserted(Owner, ext, p, Size - Cardinality(dist),
                       use_optimized_building)
  /\ offered' = offered \cup {p}
  /\ UNCHANGED <<use_optimized_building, dist, phase, pending>>

ListNext == \/ First \/ LinkBatched \/ LinkExt
            \/ \E p \in Points : ReverseDist(p) \/ ReverseExt(p)

ListSpec == ListInit /\ [][ListNext]_lvars
=============================================================================
