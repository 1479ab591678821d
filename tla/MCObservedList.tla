--------------------------- MODULE MCObservedList ---------------------------
(***************************************************************************)
(* A small construction with one of its lists under observation.           *)
(***************************************************************************)
EXTENDS ObservedList, MCPathSeerBuild
=============================================================================
