-------------------------- MODULE MCIndexLifecycle --------------------------
(***************************************************************************)
(* An instance of IndexLifecycle: two points, two levels, a graph with two *)
(* zones and one without.                                                  *)
(***************************************************************************)
EXTENDS IndexLifecycle

Made(ef, efExp, only, opt) ==
  [efConstruction |-> ef, efConstructionExp |-> efExp,
   use_only_expanding_idx |-> only, use_optimized_building |-> opt]
MCDefault == Made(1, 1, FALSE, TRUE)
MCBuilds == {Made(2, 1, FALSE, TRUE), Made(2, 2, TRUE, TRUE)}
=============================================================================
