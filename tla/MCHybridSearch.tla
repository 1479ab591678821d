--------------------------- MODULE MCHybridSearch ---------------------------
(***************************************************************************)
(* Instances of HybridSearch: five points, each with one of two lists.     *)
(***************************************************************************)
EXTENDS HybridSearch

MCPoints == 1 .. 5
MCQDist == <<3, 1, 4, 2, 5>>
From(x, d) == ((x + d - 1) % 5) + 1

\* all the others, the two nearest on a ring first; or a list whose extending
\* zone repeats links
Wide(x) == [links |-> <<From(x, 1), From(x, 4), From(x, 2), From(x, 3)>>, boundary |-> 2]
Repeating(x) ==
  [links |-> <<From(x, 2), From(x, 1), From(x, 2), From(x, 3), From(x, 1)>>, boundary |-> 1]
Edgeless == [links |-> [x \in MCPoints |-> << >>], boundary |-> [x \in MCPoints |-> 0]]
MCGraphs ==
  {Edgeless} \cup
  {[links |-> [x \in MCPoints |-> IF x \in W THEN Wide(x).links ELSE Repeating(x).links],
    boundary |-> [x \in MCPoints |-> IF x \in W THEN 2 ELSE 1]] : W \in SUBSET {1, 3, 4}}
\* with M_exp = 2 a list has four slots
FullLists == {[links |-> [x \in MCPoints |-> Wide(x).links], boundary |-> [x \in MCPoints |-> 2]]}
MCFilters == SUBSET MCPoints

Param(mode, m, print, check, vo, a, b) ==
  [mode |-> mode, M_exp_search |-> m, print_overhead |-> print,
   check_relative_distance |-> check, virtual_overhead |-> vo, coef_a |-> a, coef_b |-> b]
\* the three modes that filter, the bounded search with its three kinds of
\* limit, and the printing variant
MCParams == {Param("0", 1, FALSE, TRUE, 0, 0, 0), Param("0", 2, FALSE, FALSE, 0, 0, 0),
             Param("1", 2, FALSE, TRUE, 0, 0, 0), Param("2", 1, FALSE, TRUE, 0, 0, 0),
             Param("0", 0, FALSE, TRUE, 0, 0, 0), Param("0", 0, FALSE, TRUE, 2, 0, 0),
             Param("0", 0, FALSE, TRUE, 0, 1, 1), Param("0", 5, TRUE, TRUE, 0, 0, 0)}
\* as wide as M_exp = 2, in mode 2
AsWide == {Param("2", 1, FALSE, TRUE, 0, 0, 0)}
DfnOnly == {Param("3", 1, FALSE, TRUE, 0, 0, 0)}
=============================================================================
