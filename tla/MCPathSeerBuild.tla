-------------------------- MODULE MCPathSeerBuild --------------------------
(***************************************************************************)
(* Small instances of PathSeerBuild: points on a line, at the places Place *)
(* gives them, and the levels that random_level is supposed to have drawn. *)
(***************************************************************************)
EXTENDS PathSeerBuild, TLC

Square(n) == n * n
OnLine(place) == [x \in Points |-> [y \in Points |-> Square(place[x] - place[y])]]

\* four points of the base level, two of them close together
MCPoints == 1 .. 4
LineDist == OnLine(<<0, 3, 4, 9>>)
ThreadSymmetry == Permutations(Threads)

\* three of four points reach level 1
TwoLevels == <<1, 0, 1, 1>>
\* two points of higher levels, which later add() calls may bring
TwoHeights == <<0, 1, 2, 0>>
\* two tall points
TwoTall == <<0, 1, 1, 0>>
=============================================================================
