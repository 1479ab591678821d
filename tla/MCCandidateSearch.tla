------------------------- MODULE MCCandidateSearch -------------------------
(***************************************************************************)
(* Instances of CandidateSearch: all graphs of four points with lists of   *)
(* at most two neighbours.                                                 *)
(***************************************************************************)
EXTENDS CandidateSearch

MCPoints == 1 .. 4
MCQDist == <<3, 1, 4, 2>>
Lists == {<< >>} \cup {<<x>> : x \in MCPoints}
           \cup {<<xy[1], xy[2]>> : xy \in {<<x, y>> \in MCPoints \X MCPoints : x < y}}
MCGraphs == {g \in [MCPoints -> Lists] :
               \A x \in MCPoints : \A i \in DOMAIN g[x] : g[x][i] # x}
=============================================================================
