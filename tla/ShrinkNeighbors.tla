-------------------------- MODULE ShrinkNeighbors --------------------------
(***************************************************************************)
(* HNSW_shrink_neighbor_list and PathSeer_shrink_neighbor_list, which have  *)
(* the same loop, with the wrappers that call them.  One call is one        *)
(* behaviour: a queue of candidate links of a point is pruned to at most    *)
(* max_size links, and the pruned ones are handed back.                     *)
(***************************************************************************)
EXTENDS NeighborSelection

VARIABLES
  src, given, max_size,    \* the arguments: owner, resultSet1, max_size
  input, output, outsiders,\* the queue, what is kept, what is handed back
  pc

args == <<src, given, max_size>>
vars == <<args, input, output, outsiders, pc>>

Init ==
  /\ src \in Points
  /\ given \in SUBSET (Points \ {src})
  /\ max_size \in Nat \ {0}      \* M or 2 * M
  /\ input = given /\ output = {} /\ outsiders = {}
  /\ pc = "call"

\* resultSet1.size() < max_size: nothing is pruned
ReturnEarly ==
  /\ pc = "call" /\ Cardinality(given) < max_size
  /\ output' = given /\ input' = {}
  /\ pc' = "done"
  /\ UNCHANGED <<args, outsiders>>

EnterLoop ==
  /\ pc = "call" /\ Cardinality(given) >= max_size
  /\ pc' = "loop"
  /\ UNCHANGED <<args, input, output, outsiders>>

\* no point kept so far is closer to v1 than the owner is
Good(v1) == \A v2 \in output : ~Shadows(src, v2, v1)

\* output.push_back(v1), with room for more
KeepNext ==
  /\ pc = "loop"
  /\ \E v1 \in Closest(src, input) :
       /\ Good(v1) /\ Cardinality(output) + 1 < max_size
       /\ output' = output \cup {v1}
       /\ input' = input \ {v1}
  /\ UNCHANGED <<args, outsiders, pc>>

\* output.push_back(v1) fills the list: the rest of the queue is handed back
KeepLast ==
  /\ pc = "loop"
  /\ \E v1 \in Closest(src, input) :
       /\ Good(v1) /\ Cardinality(output) + 1 >= max_size
       /\ output' = output \cup {v1}
       /\ outsiders' = outsiders \cup (input \ {v1})
  /\ input' = {}
  /\ pc' = "done"
  /\ UNCHANGED args

DropNext ==
  /\ pc = "loop"
  /\ \E v1 \in Closest(src, input) :
       /\ ~Good(v1)
       /\ outsiders' = outsiders \cup {v1}
       /\ input' = input \ {v1}
  /\ UNCHANGED <<args, output, pc>>

Exhausted ==
  /\ pc = "loop" /\ input = {}
  /\ pc' = "done"
  /\ UNCHANGED <<args, input, output, outsiders>>

Next == ReturnEarly \/ EnterLoop \/ KeepNext \/ KeepLast \/ DropNext \/ Exhausted

Spec == Init /\ [][Next]_vars

-----------------------------------------------------------------------------
TypeOK ==
  /\ src \in Points /\ given \in SUBSET (Points \ {src}) /\ max_size \in Nat \ {0}
  /\ input \in SUBSET given /\ output \in SUBSET given /\ outsiders \in SUBSET given
  /\ pc \in {"call", "loop", "done"}

\* What the loop returns is one of the sets that Shrunk describes without a
\* loop: the insertion of a point uses Shrunk as one step.
ReturnsShrunk == pc = "done" => output \in Shrunk(src, given, max_size)

\* Every candidate that is not kept is handed back, so that it can become an
\* extending link; none is both.
NothingLost == pc = "done" => outsiders = given \ output

-----------------------------------------------------------------------------
(* The inductive invariant: the loop works through `given` from the nearest *)
(* to the farthest.                                                         *)

\* where each candidate is
PartsInv ==
  /\ input \cap output = {} /\ outsiders = given \ (input \cup output)
  /\ pc = "call" => input = given
  /\ pc = "done" => input = {}
  /\ pc = "loop" => Cardinality(output) < max_size /\ Cardinality(given) >= max_size

\* what has left the queue is as close as what is in it
OrderInv ==
  pc = "loop" => \A u \in given \ input, v \in input : Dist[src][u] <= Dist[src][v]

\* why the kept ones are kept and the others are not
ReasonInv ==
  pc = "loop" =>
    /\ \A u, v \in output :
         u # v /\ Dist[src][u] <= Dist[src][v] => ~Shadows(src, u, v)
    /\ \A v \in outsiders :
         \E u \in output : Dist[src][u] <= Dist[src][v] /\ Shadows(src, u, v)

IInv == TypeOK /\ PartsInv /\ OrderInv /\ ReasonInv /\ ReturnsShrunk
=============================================================================
