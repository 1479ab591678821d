-------------------------- MODULE MCNeighborSlots --------------------------
(***************************************************************************)
(* Instances of NeighborSlots: an owner at the origin of a line, and other *)
(* points on both sides of it or on one side only.                         *)
(***************************************************************************)
EXTENDS NeighborSlots

\* the owner is 1; no two others are equally far from it
Place == <<0, 1, 3, -4, 5, -7>>
MCPoints == 1 .. 6
FivePoints == 1 .. 5
MCDist == [x \in Points |-> [y \in Points |->
             (Place[x] - Place[y]) * (Place[x] - Place[y])]]
\* on one side the nearest point shadows all the others
OneSideDist == [x \in Points |-> [y \in Points |->
  LET d == (IF Place[x] < 0 THEN -Place[x] ELSE Place[x])
             - (IF Place[y] < 0 THEN -Place[y] ELSE Place[y])
  IN d * d]]
=============================================================================
