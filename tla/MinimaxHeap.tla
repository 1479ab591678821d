---------------------------- MODULE MinimaxHeap ----------------------------
(***************************************************************************)
(* The two heaps of a query: the MinimaxHeap of candidates and the bounded  *)
(* heap of results.                                                        *)
(*                                                                         *)
(* A MinimaxHeap keeps at most n candidates.  pop_min leaves the slot of a  *)
(* popped candidate in place and only marks it, so that count_below still   *)
(* counts it; push evicts the farthest slot, popped or not.  `nvalid` is    *)
(* meant to count the slots that are not popped.                            *)
(***************************************************************************)
EXTENDS Integers, FiniteSets

CONSTANTS
  Points,                  \* what may be pushed
  QDist,                   \* QDist[x]: the distance of x to the query
  efSearch, k

VARIABLES
  held, popped, nvalid,    \* the candidates: all slots, those popped, size()
  results                  \* the result heap (I, D)

\* PathSeer::search: MinimaxHeap candidates(ef)
n == IF efSearch >= k THEN efSearch ELSE k

Nearest(S)  == {x \in S : \A y \in S : QDist[x] <= QDist[y]}
Farthest(S) == {x \in S : \A y \in S : QDist[x] >= QDist[y]}
count_below(v) == Cardinality({x \in held : QDist[x] < QDist[v]})

\* both heaps start with one candidate; `kept` is {nearest} if it is a result
Seed(nearest, kept) ==
  held = {nearest} /\ popped = {} /\ nvalid = 1 /\ results = kept

\* v0 = candidates.pop_min(&d0)
PopMin(v0) ==
  /\ v0 \in Nearest(held \ popped)
  /\ popped' = popped \cup {v0} /\ nvalid' = nvalid - 1

\* Wrong: any worse result is replaced.
Record_AnyWorse(v) ==
  IF Cardinality(results) < k THEN results' = results \cup {v}
  ELSE IF \E r \in results : QDist[v] < QDist[r]
  THEN \E r \in results : QDist[v] < QDist[r] /\ results' = (results \ {r}) \cup {v}
  ELSE UNCHANGED results

\* nres < k || d < D[0]
Improves(v) == Cardinality(results) < k \/ \E r \in results : QDist[v] < QDist[r]

\* maxheap_push, maxheap_replace_top
Record(v) ==
  IF Cardinality(results) < k THEN results' = results \cup {v}
  ELSE IF \E r \in results : QDist[v] < QDist[r]
  THEN \E r \in Farthest(results) : results' = (results \ {r}) \cup {v}
  ELSE UNCHANGED results

\* Wrong: an eviction is not counted.
Push_Uncounted(v) ==
  IF Cardinality(held) < n
  THEN /\ held' = held \cup {v} /\ nvalid' = nvalid + 1
       /\ UNCHANGED popped
  ELSE IF \A h \in held : QDist[v] >= QDist[h]
  THEN UNCHANGED <<held, popped, nvalid>>
  ELSE \E f \in Farthest(held) :
         /\ held' = (held \ {f}) \cup {v} /\ popped' = popped \ {f}
         /\ nvalid' = nvalid + 1
\* Wrong: the nearest slot makes room.
Push_EvictsNearest(v) ==
  IF Cardinality(held) < n
  THEN /\ held' = held \cup {v} /\ nvalid' = nvalid + 1
       /\ UNCHANGED popped
  ELSE IF \A h \in held : QDist[v] >= QDist[h]
  THEN UNCHANGED <<held, popped, nvalid>>
  ELSE \E f \in Nearest(held) :
         held' = (held \ {f}) \cup {v} /\ popped' = popped \ {f} /\ UNCHANGED nvalid

\* candidates.push(v, d): a full heap refuses v, or evicts its farthest slot
\* and takes one off nvalid even if that slot was popped
Push(v) ==
  IF Cardinality(held) < n
  THEN /\ held' = held \cup {v} /\ nvalid' = nvalid + 1
       /\ UNCHANGED popped
  ELSE IF \A h \in held : QDist[v] >= QDist[h]
  THEN UNCHANGED <<held, popped, nvalid>>
  ELSE \E f \in Farthest(held) :
         held' = (held \ {f}) \cup {v} /\ popped' = popped \ {f} /\ UNCHANGED nvalid
=============================================================================
