----------------------------- MODULE LevelTable -----------------------------
(***************************************************************************)
(* The arrays behind the neighbour lists and how they are laid out:        *)
(* set_default_probas, prepare_level_tab, neighbor_range and the           *)
(* boundaries of PathSeer.cpp.  Operators take the index t, a record, and  *)
(* return what it becomes.  Point p is storage id p - 1; slots of          *)
(* `neighbors` and of `neighbor_boundaries` are numbered from 0.           *)
(***************************************************************************)
EXTENDS Integers, Sequences

CONSTANTS
  M, M_exp,                \* out-degree parameters
  TopLevel,                \* the highest level assign_probas allows
  NotLinked                \* the links of a point nothing was written for yet

\* set_default_probas throws when M_exp < M.  With M = 1, levelMult is
\* infinite and no level has a probability: add never gets past its histogram.
ASSUME LevelTableAssumption ==
  /\ M \in Nat /\ M >= 2 /\ M_exp \in Nat /\ M_exp >= M /\ TopLevel \in Nat

\* the slots of the levels below l: 2 * M_exp for level 0, M_exp for each other
cum_nb_neighbors(l) == IF l = 0 THEN 0 ELSE (l + 1) * M_exp

\* the most dist-oriented links of a list
DistCap(l) == IF l = 0 THEN 2 * M ELSE M

Placed(t) == 1 .. Len(t.offsets) - 1
Lists(t) == {x \in Placed(t) \X (0 .. TopLevel) : x[2] < t.levels[x[1]]}

neighbor_range(t, p, l) ==
  t.offsets[p] + cum_nb_neighbors(l) .. t.offsets[p] + cum_nb_neighbors(l + 1) - 1

\* the entry of a list in neighbor_boundaries
BoundarySlot(t, p, l) == t.offset_neighbor[p] + l

\* A write past the end of neighbor_boundaries lands outside the vector.
set_neighbor_dist_boundary(t, p, l, b) ==
  IF BoundarySlot(t, p, l) \in DOMAIN t.boundaries
  THEN [t EXCEPT !.boundaries[BoundarySlot(t, p, l)] = b] ELSE t

\* the first loop of prepare_level_tab: lv are pt_level + 1 of the new points
DrawLevels(t, lv) == [t EXCEPT !.levels = @ \o lv]

\* Wrong: the slots of the topmost level are left out.
Place_OneLevelShort(t) ==
  LET p == Len(t.offsets)
      end == t.offsets[p] + cum_nb_neighbors(t.levels[p] - 1)
      last == t.offset_neighbor[p] + t.levels[p]
  IN [t EXCEPT
        !.offsets = Append(@, end), !.nslots = end,
        !.links = Append(@, NotLinked),
        !.offset_neighbor = Append(@, last),
        !.boundaries = [i \in 0 .. last - 1 |-> IF i \in DOMAIN @ THEN @[i] ELSE 0]]

\* one iteration of its second loop, for the first point without a range
Place(t) ==
  LET p == Len(t.offsets)
      end == t.offsets[p] + cum_nb_neighbors(t.levels[p])
      last == t.offset_neighbor[p] + t.levels[p]
  IN [t EXCEPT
        !.offsets = Append(@, end), !.nslots = end,
        !.links = Append(@, NotLinked),
        !.offset_neighbor = Append(@, last),
        !.boundaries = [i \in 0 .. last - 1 |-> IF i \in DOMAIN @ THEN @[i] ELSE 0]]

-----------------------------------------------------------------------------
\* The lists share no slot, and leave none over, of both arrays.
Tiles(t) ==
  /\ Len(t.offset_neighbor) = Len(t.offsets)
  /\ \A x, y \in Lists(t) : x # y =>
       /\ neighbor_range(t, x[1], x[2]) \cap neighbor_range(t, y[1], y[2]) = {}
       /\ BoundarySlot(t, x[1], x[2]) # BoundarySlot(t, y[1], y[2])
  /\ \A x \in Lists(t) : neighbor_range(t, x[1], x[2]) \subseteq 0 .. t.nslots - 1
  /\ \A i \in 0 .. t.nslots - 1 :
       \E x \in Lists(t) : i \in neighbor_range(t, x[1], x[2])
  /\ DOMAIN t.boundaries = {BoundarySlot(t, x[1], x[2]) : x \in Lists(t)}

\* No boundary points past the list it belongs to.
Fits(t) == \A x \in Lists(t) :
  t.boundaries[BoundarySlot(t, x[1], x[2])]
    \in 0 .. cum_nb_neighbors(x[2] + 1) - cum_nb_neighbors(x[2])
=============================================================================
