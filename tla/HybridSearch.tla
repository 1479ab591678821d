---------------------------- MODULE HybridSearch ----------------------------
(***************************************************************************)
(* A query with a filter on the base level: PathSeer::search and the three  *)
(* functions adaptive_hybrid_search_from_candidates...                      *)
(*                                                                         *)
(* A list is expanded in two parts.  The points of its dist-oriented zone   *)
(* guide the search and are all pushed; those of the extending zone only if *)
(* they pass the filter.  Modes 1 and 2 push none that fails; mode 2 also   *)
(* looks at the lists of the neighbours.  The "bounded" search stops        *)
(* scanning a list when the cost it has met exceeds a limit.                *)
(*                                                                         *)
(* A slot of the two heaps is a point, the list it came from and the loop   *)
(* that pushed it ("near", of a dist-oriented zone, or "far", the last of a *)
(* list), so that a point pushed twice takes two slots.                     *)
(***************************************************************************)
EXTENDS Integers, FiniteSets, Sequences

CONSTANTS
  Points, QDist,           \* points, and how far they are from the query
  NoPoint,                 \* no list is being expanded
  Graphs,                  \* [links: the used slots, boundary] of each point
  Filters,                 \* the sets of points that pass the filter
  ParamSets,               \* SearchParametersPathSeer
  M, M_exp, efSearch, k,
  FilterCost, DistCost,    \* what the profiling measured, in ns
  CheckEvery               \* 5 in the code

Modes == {"0", "1", "2", "3"}
Params == [mode : Modes, M_exp_search : Nat, print_overhead : BOOLEAN,
           check_relative_distance : BOOLEAN,
           virtual_overhead : Nat, coef_a : Int, coef_b : Int]
Zoned == [links : [Points -> Seq(Points)], boundary : [Points -> Nat]]

ASSUME HybridAssumption ==
  /\ IsFiniteSet(Points) /\ NoPoint \notin Points
  /\ QDist \in [Points -> Int]
  /\ Graphs \subseteq Zoned /\ Filters \subseteq SUBSET Points
  /\ \A g \in Graphs, x \in Points : g.boundary[x] <= Len(g.links[x])
                                     /\ g.boundary[x] <= 2 * M
  /\ ParamSets \subseteq Params
  /\ M \in Nat \ {0} /\ M_exp \in Nat /\ M_exp >= M
  /\ efSearch \in Nat \ {0} /\ k \in Nat \ {0}
  /\ FilterCost \in Nat \ {0} /\ DistCost \in Nat \ {0} /\ CheckEvery \in Nat \ {0}

VARIABLES
  graph, sel, params,      \* the query; fixed
  variant,                 \* "0" .. "3", "bounded" or "printing"
  width,                   \* the argument M_exp_search: slots of a list to see
  held, popped, nvalid, results, \* the heaps, see MinimaxHeap
  visited, nstep, pc,
  cur, j, neigh_arr, at,   \* v0, the next slot of its list, the batch
  j2, num_found, keep_expanding, \* mode 2: the next slot of the second list
  num_new, num_visited, nr_satisfactory, \* counters of one list
  nsatisfy, nfilter        \* counters of the query

query    == <<graph, sel, params, variant, width>>
heaps    == <<held, popped, nvalid, results>>
hop      == <<j2, num_found, keep_expanding>>
local    == <<num_new, num_visited, nr_satisfactory>>
counters == <<local, nsatisfy, nfilter>>
vars == <<query, heaps, visited, nstep, pc, cur, j, neigh_arr, at, hop, counters>>

Slots == Points \X (Points \cup {NoPoint}) \X {"near", "far"}
SlotDist == [s \in Slots |-> QDist[s[1]]]
Heap == INSTANCE MinimaxHeap WITH Points <- Slots, QDist <- SlotDist

Least(a, b) == IF a <= b THEN a ELSE b
Links(x) == graph.links[x]
Boundary(x) == graph.boundary[x]
Passes(x) == x \in sel
One(b) == IF b THEN 1 ELSE 0

\* the slots of neigh_arr, and how many of them memset clears
Larger(a, b) == IF a >= b THEN a ELSE b
Allocated == IF variant \in Modes THEN M_exp ELSE Larger(width, 2 * M)
Cleared   == IF variant \in Modes THEN width ELSE Allocated
-----------------------------------------------------------------------------
Init ==
  /\ graph \in Graphs /\ sel \in Filters /\ params \in ParamSets
  /\ variant = params.mode /\ width = 0
  /\ held = {} /\ popped = {} /\ nvalid = 0 /\ results = {}
  /\ visited = {} /\ nstep = 0 /\ pc = "start"
  /\ cur = NoPoint /\ j = 1 /\ neigh_arr = << >> /\ at = 1
  /\ j2 = 0 /\ num_found = 0 /\ keep_expanding = TRUE
  /\ num_new = 0 /\ num_visited = 0 /\ nr_satisfactory = 0
  /\ nsatisfy = 0 /\ nfilter = 0

\* Wrong: the parameter is taken as it is.
Clamped_Not(m) == m
\* std::min<int>(std::max<int>(0, M_exp_search), M_exp)
Clamped(m) == Least(m, M_exp)

\* PathSeer::search up to the base level, and the seed of the heaps.  Without
\* M_exp_search the search is bounded: the descent through level 1 sets it, and
\* measures the costs on the zone of a point there, which must not be empty, if
\* no earlier call has profiled them.
Start ==
  /\ pc = "start"
  /\ \E nearest, profilee \in Points, hasLevel1, profiled \in BOOLEAN :
       LET bounded == params.M_exp_search = 0
           M_exp_search == IF ~bounded THEN Clamped(params.M_exp_search)
                           ELSE IF hasLevel1 THEN M_exp ELSE 0
           aborts == /\ bounded /\ ~profiled
                     /\ IF hasLevel1 THEN Boundary(profilee) = 0 ELSE ~params.print_overhead
       IN /\ width' = 2 * M_exp_search
          /\ variant' = IF params.print_overhead THEN "printing"
                        ELSE IF bounded THEN "bounded" ELSE params.mode
          /\ \/ aborts /\ pc' = "aborted" /\ UNCHANGED <<heaps, visited, nfilter>>
             \/ /\ ~aborts /\ pc' = "pop" /\ visited' = {nearest} /\ nfilter' = 1
                /\ held' = {<<nearest, NoPoint, "near">>} /\ popped' = {} /\ nvalid' = 1
                /\ results' = {s \in held' : Passes(s[1])}
  /\ UNCHANGED <<graph, sel, params, nstep, cur, j, neigh_arr, at, hop, local, nsatisfy>>

\* v0 = candidates.pop_min(&d0).  (That there is one to pop is the concern of
\* module CandidateSearch; without one this search would stop here.)
Pop ==
  /\ pc = "pop" /\ nvalid > 0
  /\ \E s \in held :
       /\ Heap!PopMin(s)
       /\ IF params.check_relative_distance /\ Heap!count_below(s) >= efSearch
          THEN pc' = "done" /\ UNCHANGED cur
          ELSE /\ cur' = s[1]
               /\ pc' = CASE variant = "1" -> "ext"
                          [] variant = "2" -> "hop"
                          [] OTHER -> "zone"
  /\ UNCHANGED <<query, held, results, visited, nstep, j, neigh_arr, at, hop, counters>>

-----------------------------------------------------------------------------
(* The dist-oriented zone                                                   *)

Unseen(x) == x \notin visited
InZone == pc = "zone" /\ j <= Boundary(cur)

\* Traverse the zone: what is new goes to neigh_arr, whatever the filter says.
SeeZone ==
  LET v1 == Links(cur)[j]
  IN /\ InZone /\ Unseen(v1)
     /\ visited' = visited \cup {v1}
     /\ neigh_arr' = Append(neigh_arr, v1)
     /\ j' = j + 1
     /\ UNCHANGED <<query, heaps, nstep, pc, cur, at, hop, counters>>

EndZone ==
  /\ pc = "zone" /\ j > Boundary(cur)
  /\ pc' = "near"
  /\ UNCHANGED <<query, heaps, visited, nstep, cur, j, neigh_arr, at, hop, counters>>

\* The filter is asked only of a point that would be a result.
PushNear ==
  LET v1 == neigh_arr[at]
      s  == <<v1, cur, "near">>
  IN /\ pc = "near" /\ at <= Len(neigh_arr)
     /\ Heap!Push(s)
     /\ IF Heap!Improves(s)
        THEN /\ num_new' = num_new + 1 /\ nfilter' = nfilter + 1
             /\ nr_satisfactory' = nr_satisfactory + One(Passes(v1))
             /\ nsatisfy' = nsatisfy + One(Passes(v1))
             /\ IF Passes(v1) THEN Heap!Record(s) ELSE UNCHANGED results
             /\ UNCHANGED num_visited
        ELSE /\ num_visited' = num_visited + 1
             /\ UNCHANGED <<results, num_new, nr_satisfactory, nsatisfy, nfilter>>
     /\ at' = at + 1
     /\ UNCHANGED <<query, visited, nstep, pc, cur, j, neigh_arr, hop>>

\* Wrong: neigh_min_ptr is never reset.
EndNear_KeepsArray ==
  /\ pc = "near" /\ at > Len(neigh_arr)
  /\ pc' = IF variant = "3" THEN "far" ELSE "ext"
  /\ at' = 1
  /\ UNCHANGED <<query, heaps, visited, nstep, cur, j, neigh_arr, hop, counters>>

\* neigh_min_ptr = 0, except in mode 3
EndNear ==
  /\ pc = "near" /\ at > Len(neigh_arr)
  /\ pc' = IF variant = "3" THEN "far" ELSE "ext"
  /\ neigh_arr' = IF variant = "3" THEN neigh_arr ELSE << >>
  /\ at' = 1
  /\ UNCHANGED <<query, heaps, visited, nstep, cur, j, hop, counters>>

-----------------------------------------------------------------------------
(* The extending zone, or in mode 1 the whole list                          *)

\* the virtual overhead of the list so far, and its limit; with no new point
\* both use the selectivity met in the whole query
Overhead ==
  IF num_new > 0
  THEN ((num_new * FilterCost + nr_satisfactory * DistCost) * (num_new + num_visited))
         \div num_new
  ELSE (num_visited * (nfilter * FilterCost + nsatisfy * DistCost)) \div nfilter

vo_coef_mode == params.coef_a # 0 /\ params.coef_b # 0
Limit ==
  IF vo_coef_mode
  THEN IF num_new > 0
       THEN (params.coef_a * nr_satisfactory + params.coef_b * num_new) \div num_new
       ELSE (params.coef_a * nsatisfy + params.coef_b * nfilter) \div nfilter
  ELSE IF params.virtual_overhead # 0 THEN params.virtual_overhead
  ELSE 2 * M * (DistCost + FilterCost)

cnt == j - 1 - Boundary(cur)
OverLimit == variant = "bounded" /\ cnt % CheckEvery = 0 /\ Overhead >= Limit
InList == j <= Least(Len(Links(cur)), width)
InExt == pc = "ext" /\ InList /\ ~OverLimit

\* Wrong: a visited slot costs nothing.
SkipSeen_Free ==
  /\ InZone \/ InExt
  /\ Links(cur)[j] \in visited
  /\ j' = j + 1
  /\ UNCHANGED <<query, heaps, visited, nstep, pc, cur, neigh_arr, at, hop, counters>>

\* a visited point, in either zone
SkipSeen ==
  /\ InZone \/ InExt
  /\ Links(cur)[j] \in visited
  /\ j' = j + 1 /\ num_visited' = num_visited + 1
  /\ UNCHANGED <<query, heaps, visited, nstep, pc, cur, neigh_arr, at, hop, num_new,
                 nr_satisfactory, nsatisfy, nfilter>>

\* Wrong: a point that fails the filter is kept as well.
SeeExt_All ==
  LET v1 == Links(cur)[j]
  IN /\ InExt /\ Unseen(v1)
     /\ visited' = visited \cup {v1}
     /\ neigh_arr' = Append(neigh_arr, v1)
     /\ num_new' = num_new + 1 /\ nfilter' = nfilter + 1 /\ j' = j + 1
     /\ nr_satisfactory' = nr_satisfactory + One(Passes(v1))
     /\ nsatisfy' = nsatisfy + One(Passes(v1))
     /\ UNCHANGED <<query, heaps, nstep, pc, cur, at, hop, num_visited>>
\* Wrong: only a point that passes is marked as visited.
SeeExt_Unmarked ==
  LET v1 == Links(cur)[j]
  IN /\ InExt /\ Unseen(v1)
     /\ neigh_arr' = IF Passes(v1) THEN Append(neigh_arr, v1) ELSE neigh_arr
     /\ num_new' = num_new + 1 /\ nfilter' = nfilter + 1 /\ j' = j + 1
     /\ nr_satisfactory' = nr_satisfactory + One(Passes(v1))
     /\ nsatisfy' = nsatisfy + One(Passes(v1))
     /\ UNCHANGED <<query, heaps, visited, nstep, pc, cur, at, hop, num_visited>>

SeeExt ==
  LET v1 == Links(cur)[j]
  IN /\ InExt /\ Unseen(v1)
     /\ visited' = visited \cup {v1}
     /\ neigh_arr' = IF Passes(v1) THEN Append(neigh_arr, v1) ELSE neigh_arr
     /\ num_new' = num_new + 1 /\ nfilter' = nfilter + 1 /\ j' = j + 1
     /\ nr_satisfactory' = nr_satisfactory + One(Passes(v1))
     /\ nsatisfy' = nsatisfy + One(Passes(v1))
     /\ UNCHANGED <<query, heaps, nstep, pc, cur, at, hop, num_visited>>

EndExt ==
  /\ pc = "ext" /\ (~InList \/ OverLimit)
  /\ pc' = "far"
  /\ UNCHANGED <<query, heaps, visited, nstep, cur, j, neigh_arr, at, hop, counters>>

-----------------------------------------------------------------------------
(* Mode 2: the list and the lists of its points, until width have passed    *)

\* a neighbour of v0; unless enough were found, its own list comes next
HopFirst ==
  LET v1 == Links(cur)[j]
      taken == Passes(v1) /\ Unseen(v1)
      found == num_found + One(Passes(v1))
  IN /\ pc = "hop" /\ j2 = 0 /\ InList
     /\ nfilter' = nfilter + 1 /\ num_found' = found
     /\ neigh_arr' = IF taken THEN Append(neigh_arr, v1) ELSE neigh_arr
     /\ visited' = IF taken THEN visited \cup {v1} ELSE visited
     /\ IF taken /\ found >= width
        THEN pc' = "far" /\ keep_expanding' = FALSE /\ UNCHANGED <<j, j2>>
        ELSE /\ IF keep_expanding /\ Unseen(v1)
                THEN j2' = 1 /\ UNCHANGED j ELSE j' = j + 1 /\ UNCHANGED j2
             /\ UNCHANGED <<pc, keep_expanding>>
     /\ UNCHANGED <<query, heaps, nstep, cur, at, local, nsatisfy>>

\* Wrong: the second list is never cut short.
HopSecond_NoEnd ==
  LET second == Links(Links(cur)[j])
      v2 == second[j2]
      taken == Passes(v2) /\ Unseen(v2)
  IN /\ pc = "hop" /\ j2 > 0 /\ j2 \in DOMAIN second
     /\ nfilter' = nfilter + 1 /\ num_found' = num_found + One(Passes(v2))
     /\ neigh_arr' = IF taken THEN Append(neigh_arr, v2) ELSE neigh_arr
     /\ visited' = IF taken THEN visited \cup {v2} ELSE visited
     /\ j2' = j2 + 1
     /\ UNCHANGED <<query, heaps, nstep, pc, cur, j, at, keep_expanding, local, nsatisfy>>

\* a neighbour of the neighbour v1; when enough are found the scan goes back to
\* the first list, which may still add one more
HopSecond ==
  LET second == Links(Links(cur)[j])
      v2 == second[j2]
      taken == Passes(v2) /\ Unseen(v2)
      found == num_found + One(Passes(v2))
  IN /\ pc = "hop" /\ j2 > 0 /\ j2 \in DOMAIN second
     /\ nfilter' = nfilter + 1 /\ num_found' = found
     /\ neigh_arr' = IF taken THEN Append(neigh_arr, v2) ELSE neigh_arr
     /\ visited' = IF taken THEN visited \cup {v2} ELSE visited
     /\ IF taken /\ found >= width
        THEN keep_expanding' = FALSE /\ j' = j + 1 /\ j2' = 0
        ELSE j2' = j2 + 1 /\ UNCHANGED <<keep_expanding, j>>
     /\ UNCHANGED <<query, heaps, nstep, pc, cur, at, local, nsatisfy>>

HopBack ==
  /\ pc = "hop" /\ j2 > 0 /\ j2 \notin DOMAIN Links(Links(cur)[j])
  /\ j' = j + 1 /\ j2' = 0
  /\ UNCHANGED <<query, heaps, visited, nstep, pc, cur, neigh_arr, at, num_found,
                 keep_expanding, counters>>

EndHop ==
  /\ pc = "hop" /\ j2 = 0 /\ ~InList
  /\ pc' = "far"
  /\ UNCHANGED <<query, heaps, visited, nstep, cur, j, neigh_arr, at, hop, counters>>

-----------------------------------------------------------------------------
(* The last loop, and the end of a list and of the search                   *)

\* Wrong: the batch is never used up.
PushFar_Stays ==
  LET s == <<neigh_arr[at], cur, "far">>
  IN /\ pc = "far" /\ at <= Len(neigh_arr)
     /\ Heap!Push(s) /\ Heap!Record(s)
     /\ UNCHANGED <<query, visited, nstep, pc, cur, j, neigh_arr, at, hop, counters>>

\* what is in neigh_arr is pushed, and recorded without another look at the
\* filter
PushFar ==
  LET s == <<neigh_arr[at], cur, "far">>
  IN /\ pc = "far" /\ at <= Len(neigh_arr)
     /\ Heap!Push(s) /\ Heap!Record(s)
     /\ at' = at + 1
     /\ UNCHANGED <<query, visited, nstep, pc, cur, j, neigh_arr, hop, counters>>

\* the variables of a list get the values that they have at the next pop
EndList ==
  /\ pc = "far" /\ at > Len(neigh_arr)
  /\ nstep' = IF nstep <= efSearch THEN nstep + 1 ELSE nstep
  /\ pc' = IF ~params.check_relative_distance /\ nstep + 1 > efSearch
           THEN "done" ELSE "pop"
  /\ cur' = NoPoint /\ j' = 1 /\ neigh_arr' = << >> /\ at' = 1
  /\ j2' = 0 /\ num_found' = 0 /\ keep_expanding' = TRUE
  /\ num_new' = 0 /\ num_visited' = 0 /\ nr_satisfactory' = 0
  /\ UNCHANGED <<query, heaps, visited, nsatisfy, nfilter>>

RunDry ==
  /\ pc = "pop" /\ nvalid <= 0
  /\ pc' = "done"
  /\ UNCHANGED <<query, heaps, visited, nstep, cur, j, neigh_arr, at, hop, counters>>

Zone   == SeeZone \/ EndZone \/ PushNear \/ EndNear
Extend == SkipSeen \/ SeeExt \/ EndExt
TwoHop == HopFirst \/ HopSecond \/ HopBack \/ EndHop
Next == Start \/ Pop \/ Zone \/ Extend \/ TwoHop \/ PushFar \/ EndList \/ RunDry

Spec == Init /\ [][Next]_vars
FairSpec == Spec /\ WF_vars(Next)

-----------------------------------------------------------------------------
TypeOK ==
  /\ graph \in Graphs /\ sel \in Filters /\ params \in ParamSets
  /\ variant \in Modes \cup {"bounded", "printing"} /\ width \in 0 .. 2 * M_exp
  /\ held \in SUBSET Slots /\ popped \in SUBSET held /\ nvalid \in Int
  /\ results \in SUBSET Slots
  /\ visited \in SUBSET Points /\ nstep \in Nat
  /\ pc \in {"start", "pop", "zone", "near", "ext", "hop", "far", "done", "aborted"}
  /\ cur \in Points \cup {NoPoint} /\ j \in Nat /\ neigh_arr \in Seq(Points) /\ at \in Nat
  /\ j2 \in Nat /\ num_found \in Nat /\ keep_expanding \in BOOLEAN
  /\ num_new \in Nat /\ num_visited \in Nat /\ nr_satisfactory \in Nat
  /\ nsatisfy \in Nat /\ nfilter \in Nat

\* "Only these IDs will be considered": every result passes the filter.
ResultsPassFilter == \A s \in results : Passes(s[1])

\* A point is pushed once, whichever loop meets it and however many lists and
\* zones hold it.
PushedOnce ==
  \A heap \in {held, results} : \A s, t \in heap : s[1] = t[1] => s = t

\* Whenever a list is finished, the results are the k nearest of the visited
\* points that pass, though the filter is not asked of every point.
BestOfAccepted ==
  LET found == {s[1] : s \in results}
      accepted == visited \cap sel
  IN pc \in {"pop", "done"} /\ variant # "3" =>
       /\ found \subseteq accepted
       /\ \A r \in found, v \in accepted \ found : QDist[r] <= QDist[v]
       /\ Cardinality(found) = Least(k, Cardinality(accepted))

\* The bounded search looks at no more slots of a list than the limit pays
\* for, at the price of one filter call each; but it looks at all of the
\* dist-oriented zone, and notices only at every CheckEvery-th slot.
MaxLimit ==
  IF vo_coef_mode
  THEN params.coef_b + (IF params.coef_a > 0 THEN params.coef_a ELSE 0)
  ELSE IF params.virtual_overhead # 0 THEN params.virtual_overhead
  ELSE 2 * M * (DistCost + FilterCost)
OverheadBounded ==
  variant = "bounded" /\ pc = "ext" /\ cnt > 0 =>
    FilterCost * (Boundary(cur) + cnt) < MaxLimit + FilterCost * CheckEvery

\* What a list yields: no scan of a zone, of a list or of two hops puts more
\* points in neigh_arr than this.  In mode 2 the scan of the first list goes on
\* after the second has found enough, and may add one more.
Yield == CASE variant = "1" -> width
           [] variant = "2" -> width + 1
           [] OTHER -> Larger(width, 2 * M)
YieldBounded == Len(neigh_arr) <= Yield

\* "we should set a larger candidate array": nothing is written behind the array
\* of a list's points, neither when it is cleared nor when they are put in it.
ArrayFits == Cleared <= Allocated /\ Len(neigh_arr) <= Allocated

\* A query ends.
SearchEnds == <>(pc \in {"done", "aborted"})
=============================================================================
