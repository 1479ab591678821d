---------------------------- MODULE ObservedList ----------------------------
(***************************************************************************)
(* The construction, seen from one list: that of Owner at AtLevel.  The     *)
(* history variable `offered` records which points the list has met; with   *)
(* it the two zones, whatever the threads do, change as NeighborList says.  *)
(***************************************************************************)
EXTENDS PathSeerBuild

CONSTANTS Owner, AtLevel

ASSUME ObservedAssumption == Owner \in Points /\ AtLevel \in Levels

VARIABLE offered

ovars == <<vars, offered>>

\* the owner's search is over, and the list is written from what it found
OwnSearchEnds(t) ==
  pt[t] = Owner /\ level[t] = AtLevel /\ pc[t] = "pop" /\ pc'[t] = "revDist"
\* the thread has written its reverse link
WritesLinkBack(t) == level[t] = AtLevel /\ Owner \in todo[t] \ todo'[t]

Meets(t) == {v \in Points : \/ OwnSearchEnds(t) /\ v \in found[t] \cup others[t]
                            \/ WritesLinkBack(t) /\ v = pt[t]}

ObservedInit == Init /\ offered = {}

ObservedNext ==
  \/ (StartAdd \/ EndAdd \/ Throw) /\ UNCHANGED offered
  \/ Reset /\ offered' = {}
  \/ \E t \in Threads : Step(t) /\ offered' = offered \cup Meets(t)

ObservedSpec == ObservedInit /\ [][ObservedNext]_ovars

-----------------------------------------------------------------------------
(* The list as NeighborList has it                                          *)

\* the owner has left its first write behind and its second one before it
Opening(t) == pt[t] = Owner /\ level[t] = AtLevel /\ pc[t] = "revDist"

Phase ==
  IF ~Published(Owner, AtLevel) THEN "new"
  ELSE IF \E t \in Threads : Opening(t) THEN "open" ELSE "complete"

PendingOthers == UNION {others[t] : t \in {u \in Threads : Opening(u)}}

List == INSTANCE NeighborList WITH
          Cap <- DistCap(AtLevel), Size <- Total(AtLevel), MaxFound <- efConstruction,
          dist <- dist[Owner][AtLevel], ext <- ext[Owner][AtLevel],
          phase <- Phase, pending <- PendingOthers

\* The list is a NeighborList, which reset() makes a new one: each point comes to
\* it once and is not its owner, and what the owner returns with after the
\* reverse links is added to what others wrote meanwhile.
IsNeighborList ==
  List!ListInit /\ [][List!ListNext \/ (Reset /\ List!ListInit')]_(List!lvars)
=============================================================================
