-------------------------- MODULE CandidateSearch --------------------------
(***************************************************************************)
(* search_from_candidates on the base level.  One behaviour is one query    *)
(* on one graph.                                                           *)
(***************************************************************************)
EXTENDS MinimaxHeap, Sequences

CONSTANT Graphs            \* the graphs to search: dist-oriented zones

ASSUME SearchAssumption ==
  /\ IsFiniteSet(Points) /\ QDist \in [Points -> Int]
  /\ Graphs \subseteq [Points -> Seq(Points)]
  /\ efSearch \in Nat \ {0} /\ k \in Nat \ {0}

VARIABLES
  neighbors,               \* the graph searched
  do_dis_check,            \* check_relative_distance, else steps are counted
  visited,                 \* the VisitedTable
  todo,                    \* what is left of the list being expanded
  nstep, pc

query == <<neighbors, do_dis_check>>
vars == <<query, held, popped, nvalid, visited, results, todo, nstep, pc>>

\* candidates.push(nearest); the seed is a result and visited
Init ==
  /\ neighbors \in Graphs /\ do_dis_check \in BOOLEAN
  /\ \E nearest \in Points : Seed(nearest, {nearest}) /\ visited = {nearest}
  /\ todo = << >> /\ nstep = 0
  /\ pc = "pop"

\* v0 = candidates.pop_min(&d0): the search may end, or v0 is expanded.  With
\* no candidate left pop_min returns -1, and the search goes astray.
Pop ==
  /\ pc = "pop" /\ nvalid > 0
  /\ IF held \subseteq popped
     THEN pc' = "astray" /\ UNCHANGED <<popped, nvalid, todo>>
     ELSE \E v0 \in held :
            /\ PopMin(v0)
            /\ IF do_dis_check /\ count_below(v0) >= efSearch
               THEN pc' = "done" /\ UNCHANGED todo
               ELSE pc' = "scan" /\ todo' = neighbors[v0]
  /\ UNCHANGED <<query, held, visited, results, nstep>>

\* Wrong: a point already visited is not passed over.
Skip_Stays ==
  /\ pc = "scan" /\ todo # << >> /\ Head(todo) \in visited
  /\ UNCHANGED vars

Skip ==
  /\ pc = "scan" /\ todo # << >> /\ Head(todo) \in visited
  /\ todo' = Tail(todo)
  /\ UNCHANGED <<query, held, popped, nvalid, visited, results, nstep, pc>>

Visit ==
  /\ pc = "scan" /\ todo # << >> /\ Head(todo) \notin visited
  /\ visited' = visited \cup {Head(todo)}
  /\ Record(Head(todo)) /\ Push(Head(todo))
  /\ todo' = Tail(todo)
  /\ UNCHANGED <<query, nstep, pc>>

\* nstep is only compared with efSearch, beyond which it need not be counted
EndScan ==
  /\ pc = "scan" /\ todo = << >>
  /\ nstep' = IF nstep <= efSearch THEN nstep + 1 ELSE nstep
  /\ pc' = IF ~do_dis_check /\ nstep + 1 > efSearch THEN "done" ELSE "pop"
  /\ UNCHANGED <<query, held, popped, nvalid, visited, results, todo>>

\* candidates.size() > 0 no longer holds
RunDry ==
  /\ pc = "pop" /\ nvalid <= 0
  /\ pc' = "done"
  /\ UNCHANGED <<query, held, popped, nvalid, visited, results, todo, nstep>>

Next == Pop \/ Skip \/ Visit \/ EndScan \/ RunDry

Spec == Init /\ [][Next]_vars
FairSpec == Spec /\ WF_vars(Next)

-----------------------------------------------------------------------------
TypeOK ==
  /\ neighbors \in Graphs /\ do_dis_check \in BOOLEAN
  /\ held \in SUBSET Points /\ popped \in SUBSET held /\ nvalid \in Int
  /\ visited \in SUBSET Points /\ results \in SUBSET visited /\ held \subseteq visited
  /\ todo \in Seq(Points) /\ nstep \in Nat
  /\ pc \in {"pop", "scan", "done", "astray"}

\* When size() says that there is a candidate, pop_min finds one: the search
\* never goes on with point -1, although nvalid does not count the candidates.
PopFindsOne == pc # "astray"

\* The results are the k nearest of the points visited so far, whatever the
\* candidate heap has evicted.
BestOfVisited ==
  /\ \A r \in results, v \in visited \ results : QDist[r] <= QDist[v]
  /\ Cardinality(results) = IF Cardinality(visited) < k THEN Cardinality(visited) ELSE k

\* The candidate heap holds the n nearest points visited: count_below ranks a
\* candidate among all of them.
HeapIsNearest ==
  /\ \A h \in held, v \in visited \ held : QDist[h] <= QDist[v]
  /\ Cardinality(held) = IF Cardinality(visited) < n THEN Cardinality(visited) ELSE n

\* "Do a BFS on the candidates list": the search ends when the candidates that
\* are left have efSearch nearer ones, not before.
CandidatesExpanded ==
  pc = "done" /\ do_dis_check =>
    \A v \in held \ popped : count_below(v) >= efSearch

\* A query ends.
SearchEnds == <>(pc = "done")

\* nvalid never promises more candidates than there are
ValidInv == TypeOK /\ nvalid <= Cardinality(held \ popped) /\ PopFindsOne
=============================================================================
