--------------------------- MODULE PathSeerBuild ---------------------------
(***************************************************************************)
(* The concurrent construction of a PathSeer graph: IndexPathSeer::add and *)
(* reset, pathseer_add_vertices with its per-level parallel loops, and     *)
(* PathSeer::add_with_locks / add_links_starting_from for every point.     *)
(*                                                                         *)
(* A neighbour list of point x at level l is one range of the array        *)
(* `neighbors`, split by `neighbor_boundaries` into a dist-oriented zone   *)
(* and an extending zone.  Here the two zones are the sets dist[x][l] and  *)
(* ext[x][l]; the array itself, slot by slot, is module NeighborSlots.     *)
(*                                                                         *)
(* Several OpenMP threads run add_with_locks at once.  Lists are written   *)
(* under the lock of their point and read without any lock, one slot at a  *)
(* time, so a search interleaves with the writes of other threads.         *)
(***************************************************************************)
EXTENDS NeighborSelection

CONSTANTS
  Threads,                \* the OpenMP threads
  NoPoint, NoThread,      \* storage id -1; a lock nobody holds
  Level,                  \* Level[p]: what random_level drew for p (0 = base)
  TopLevel,               \* the highest level assign_probas allows
  M, M_exp,               \* out-degree parameters
  efConstruction,         \* width of the dist-oriented search
  efConstructionExp,      \* wanted number of extending candidates
  use_optimized_building, \* sorted insertion into the extending zone
  ParallelMin,            \* a level group larger than this runs in parallel
  MayInterrupt,           \* may InterruptCallback::is_interrupted say yes
  TallerLater             \* may a later add() raise the top level

Levels == 0 .. TopLevel

ASSUME NullAssumption == NoPoint \notin Points /\ NoThread \notin Threads
ASSUME LevelAssumption == TopLevel \in Nat /\ Level \in [Points -> Levels]
\* set_default_probas throws when M_exp < M.  add_link_extending_fast reads
\* past a range whose dist-oriented zone fills it, so M_exp > M there.
ASSUME SizeAssumption ==
  /\ M \in Nat \ {0} /\ M_exp \in Nat /\ M_exp >= M
  /\ use_optimized_building \in BOOLEAN /\ (use_optimized_building => M_exp > M)
  /\ efConstruction \in Nat \ {0} /\ efConstructionExp \in Nat
ASSUME RunAssumption ==
  ParallelMin \in Nat /\ MayInterrupt \in BOOLEAN /\ TallerLater \in BOOLEAN

VARIABLES
  dist, ext,              \* the two zones of every neighbour list
  entry_point, max_level, \* the top of the hierarchy, shared, not locked
  stage,                  \* where each point is in its life
  batch,                  \* the points of the add() in progress
  interrupt,              \* the flag shared by the threads of a group
  lock,                   \* lock[p]: the thread inside omp_set_lock(&locks[p])
  pc, pt, nearest, level, \* per thread: control, point, entry, current level
  visited, candidates, cur, building, \* per thread: the search in progress
  found, others,          \* per thread: link_targets, other_link_targets
  todo                    \* per thread: `neighbors`, reverse links to write

graph     == <<dist, ext>>
top       == <<entry_point, max_level>>
adding    == <<stage, batch, interrupt>>
position  == <<pt, nearest, level>>
search    == <<visited, candidates, cur, building, found, others>>
vars == <<graph, top, adding, lock, pc, position, search, todo>>

\* nb_neighbors(l): the slots of one list; and the limit of its first zone
Total(l)   == IF l = 0 THEN 2 * M_exp ELSE M_exp
DistCap(l) == IF l = 0 THEN 2 * M ELSE M
max_nr_neighbor(l) ==
  IF Total(l) >= efConstructionExp THEN Total(l) ELSE efConstructionExp

Nbrs(x, l) == dist[x][l] \cup ext[x][l]

-----------------------------------------------------------------------------
Init ==
  /\ dist = [x \in Points |-> [l \in Levels |-> {}]]
  /\ ext  = [x \in Points |-> [l \in Levels |-> {}]]
  /\ entry_point = NoPoint /\ max_level = -1
  /\ stage = [x \in Points |-> "absent"]
  /\ batch = {} /\ interrupt = FALSE
  /\ lock = [x \in Points |-> NoThread]
  /\ pc = [t \in Threads |-> "idle"]
  /\ pt = [t \in Threads |-> NoPoint]
  /\ nearest = [t \in Threads |-> NoPoint]
  /\ level = [t \in Threads |-> 0]
  /\ visited = [t \in Threads |-> {}]
  /\ candidates = [t \in Threads |-> {}]
  /\ cur = [t \in Threads |-> NoPoint]
  /\ building = [t \in Threads |-> TRUE]
  /\ found = [t \in Threads |-> {}]
  /\ others = [t \in Threads |-> {}]
  /\ todo = [t \in Threads |-> {}]

-----------------------------------------------------------------------------
(* add(), reset() and the level groups of pathseer_add_vertices             *)

AllIdle == \A t \in Threads : pc[t] = "idle"
Queued  == {p \in batch : stage[p] = "queued"}
Group(p) == {q \in batch : Level[q] = Level[p]}

StartAdd ==
  /\ batch = {}
  /\ \E S \in SUBSET {p \in Points : stage[p] = "absent"} :
       /\ S # {}
       /\ entry_point # NoPoint /\ ~TallerLater => \A p \in S : Level[p] <= max_level
       /\ batch' = S
       /\ stage' = [p \in Points |-> IF p \in S THEN "queued" ELSE stage[p]]
  /\ UNCHANGED <<graph, top, interrupt, lock, pc, position, search, todo>>

EndAdd ==
  /\ batch # {} /\ AllIdle /\ Queued = {} /\ ~interrupt
  /\ batch' = {}
  /\ UNCHANGED <<graph, top, stage, interrupt, lock, pc, position, search, todo>>

\* Wrong: thrown while other threads of the group still insert
Throw_AtOnce ==
  /\ interrupt
  /\ stage' = [p \in Points |-> IF p \in Queued THEN "orphan" ELSE stage[p]]
  /\ batch' = {} /\ interrupt' = FALSE
  /\ UNCHANGED <<graph, top, lock, pc, position, search, todo>>

\* FAISS_THROW_MSG("computation interrupted") at the end of a level group
Throw ==
  /\ interrupt /\ AllIdle
  /\ stage' = [p \in Points |-> IF p \in Queued THEN "orphan" ELSE stage[p]]
  /\ batch' = {} /\ interrupt' = FALSE
  /\ UNCHANGED <<graph, top, lock, pc, position, search, todo>>

\* Wrong: reset() forgets the extending zones.
Reset_KeepsExt ==
  /\ batch = {} /\ \E p \in Points : stage[p] # "absent"
  /\ dist' = [x \in Points |-> [l \in Levels |-> {}]]
  /\ entry_point' = NoPoint /\ max_level' = -1
  /\ stage' = [x \in Points |-> "absent"]
  /\ UNCHANGED <<ext, batch, interrupt, lock, pc, position, search, todo>>

Reset ==
  /\ batch = {} /\ \E p \in Points : stage[p] # "absent"
  /\ dist' = [x \in Points |-> [l \in Levels |-> {}]]
  /\ ext'  = [x \in Points |-> [l \in Levels |-> {}]]
  /\ entry_point' = NoPoint /\ max_level' = -1
  /\ stage' = [x \in Points |-> "absent"]
  /\ UNCHANGED <<batch, interrupt, lock, pc, position, search, todo>>

\* Wrong: the level groups run from the shortest to the tallest.
MayRun_ShortestFirst(p) ==
  /\ p \in Queued /\ ~interrupt
  /\ \A q \in Queued : Level[q] >= Level[p]
  /\ \A u \in Threads : pc[u] # "idle" => Level[pt[u]] = Level[p]
  /\ Cardinality(Group(p)) <= ParallelMin => AllIdle

\* The loop over level groups, tallest first, with the barrier that ends each
\* parallel region; a small group is run by one thread.
MayRun(p) ==
  /\ p \in Queued /\ ~interrupt
  /\ \A q \in Queued : Level[q] <= Level[p]
  /\ \A u \in Threads : pc[u] # "idle" => Level[pt[u]] = Level[p]
  /\ Cardinality(Group(p)) <= ParallelMin => AllIdle

\* the critical section of add_with_locks, on an empty index and otherwise
EnterFirst(t) ==
  /\ pc[t] = "idle" /\ entry_point = NoPoint
  /\ \E p \in Points :
       /\ MayRun(p)
       /\ entry_point' = p /\ max_level' = Level[p]
       /\ stage' = [stage EXCEPT ![p] = "linked"]
       /\ pt' = [pt EXCEPT ![t] = p]
  /\ pc' = [pc EXCEPT ![t] = "done"]
  /\ UNCHANGED <<graph, batch, interrupt, lock, nearest, level, search, todo>>

Enter(t) ==
  /\ pc[t] = "idle" /\ entry_point # NoPoint
  /\ \E p \in Points :
       /\ MayRun(p)
       /\ stage' = [stage EXCEPT ![p] = "running"]
       /\ pt' = [pt EXCEPT ![t] = p]
  /\ nearest' = [nearest EXCEPT ![t] = entry_point]
  /\ pc' = [pc EXCEPT ![t] = "lock"]
  /\ UNCHANGED <<graph, top, batch, interrupt, lock, level, search, todo>>

\* omp_set_lock(&locks[pt_id]); level = max_level: read outside the critical
\* section that read entry_point
LockAndReadLevel(t) ==
  /\ pc[t] = "lock" /\ lock[pt[t]] = NoThread
  /\ lock' = [lock EXCEPT ![pt[t]] = t]
  /\ level' = [level EXCEPT ![t] = max_level]
  /\ pc' = [pc EXCEPT ![t] = "level"]
  /\ UNCHANGED <<graph, top, adding, pt, nearest, search, todo>>

-----------------------------------------------------------------------------
(* greedy_update_nearest on the levels above the point's own.  They are not *)
(* written while its group runs, so a pass over one list is one step.       *)

Descending(t) == pc[t] = "level" /\ level[t] > Level[pt[t]]
Closer(t) == {v \in dist[nearest[t]][level[t]] :
                Dist[pt[t]][v] < Dist[pt[t]][nearest[t]]}

GreedyHop(t) ==
  /\ Descending(t)
  /\ \E v \in Closest(pt[t], Closer(t)) : nearest' = [nearest EXCEPT ![t] = v]
  /\ UNCHANGED <<graph, top, adding, lock, pc, pt, level, search, todo>>

GreedyDrop(t) ==
  /\ Descending(t) /\ Closer(t) = {}
  /\ level' = [level EXCEPT ![t] = @ - 1]
  /\ UNCHANGED <<graph, top, adding, lock, pc, pt, nearest, search, todo>>

-----------------------------------------------------------------------------
(* pathseer_search_neighbors_to_add at level[t] <= Level[pt[t]]             *)

StartSearch(t) ==
  /\ pc[t] = "level" /\ 0 <= level[t] /\ level[t] <= Level[pt[t]]
  /\ candidates' = [candidates EXCEPT ![t] = {nearest[t]}]
  /\ found'      = [found EXCEPT ![t] = {nearest[t]}]
  /\ visited'    = [visited EXCEPT ![t] = {nearest[t]}]
  /\ building'   = [building EXCEPT ![t] = TRUE]
  /\ pc'         = [pc EXCEPT ![t] = "pop"]
  /\ UNCHANGED <<graph, top, adding, lock, position, cur, others, todo>>

\* currEv.d > results_dist_vecs.top().d
Beyond(t, c) == \A f \in found[t] : Dist[pt[t]][c] > Dist[pt[t]][f]
OthersFull(t) == Cardinality(others[t]) >= max_nr_neighbor(level[t])

\* The first candidate beyond the dist-oriented results only turns the search
\* to the extending candidates; from then on it ends when there are enough.
Expand(t) ==
  /\ pc[t] = "pop"
  /\ \E c \in Closest(pt[t], candidates[t]) :
       /\ building[t] \/ ~OthersFull(t)
       /\ building' = [building EXCEPT ![t] = @ /\ ~Beyond(t, c)]
       /\ candidates' = [candidates EXCEPT ![t] = @ \ {c}]
       /\ cur' = [cur EXCEPT ![t] = c]
  /\ pc' = [pc EXCEPT ![t] = "scan"]
  /\ UNCHANGED <<graph, top, adding, lock, position, visited, found, others, todo>>

\* What the scan of a list may read: its dist-oriented zone, and, because the
\* boundary is read once and the slots later and unlocked, any slot of a list
\* that other threads are changing.
OthersRun(t) == \E u \in Threads \ {t} : pc[u] # "idle"
Readable(t) == IF OthersRun(t) THEN Nbrs(cur[t], level[t])
                               ELSE dist[cur[t]][level[t]]

\* a full or farther result heap lets v go by; an empty slot takes it
Admits(t, S, n, v) == \/ Cardinality(S) < n
                      \/ \E f \in S : Dist[pt[t]][f] > Dist[pt[t]][v]

\* Wrong: a point that entered the results is kept for the others as well.
ScanDist_Both(t, v) ==
  /\ building[t] /\ Admits(t, found[t], efConstruction, v)
  /\ \E K \in KeepNearest(pt[t], found[t] \cup {v}, efConstruction) :
       /\ found' = [found EXCEPT ![t] = K]
       /\ others' = [others EXCEPT ![t] = @ \cup {v}]
  /\ candidates' = [candidates EXCEPT ![t] = @ \cup {v}]

ScanDist(t, v) ==
  /\ building[t] /\ Admits(t, found[t], efConstruction, v)
  /\ \E K \in KeepNearest(pt[t], found[t] \cup {v}, efConstruction) :
       /\ found' = [found EXCEPT ![t] = K]
       /\ others' = [others EXCEPT ![t] = @ \cup ((found[t] \cup {v}) \ K)]
  /\ candidates' = [candidates EXCEPT ![t] = @ \cup {v}]

ScanExt(t, v) ==
  /\ ~building[t] /\ Admits(t, others[t], max_nr_neighbor(level[t]), v)
  /\ IF OthersFull(t)
     THEN \E f \in Farthest(pt[t], others[t] \cup {v}) :
            others' = [others EXCEPT ![t] = (@ \cup {v}) \ {f}]
     ELSE others' = [others EXCEPT ![t] = @ \cup {v}]
  /\ candidates' = [candidates EXCEPT ![t] = @ \cup {v}]
  /\ UNCHANGED found

ScanSkip(t, v) ==
  /\ ~Admits(t, IF building[t] THEN found[t] ELSE others[t],
                IF building[t] THEN efConstruction ELSE max_nr_neighbor(level[t]), v)
  /\ UNCHANGED <<found, others, candidates>>

Scan(t) ==
  /\ pc[t] = "scan"
  /\ \E v \in Readable(t) \ visited[t] :
       /\ visited' = [visited EXCEPT ![t] = @ \cup {v}]
       /\ ScanDist(t, v) \/ ScanExt(t, v) \/ ScanSkip(t, v)
  /\ UNCHANGED <<graph, top, adding, lock, pc, position, cur, building, todo>>

EndScan(t) ==
  /\ pc[t] = "scan"
  /\ OthersRun(t) \/ Readable(t) \subseteq visited[t]
  /\ cur' = [cur EXCEPT ![t] = NoPoint]
  /\ pc' = [pc EXCEPT ![t] = "pop"]
  /\ UNCHANGED <<graph, top, adding, lock, position, visited, candidates,
                 building, found, others, todo>>

-----------------------------------------------------------------------------
(* add_links_starting_from once the search is over                          *)

SearchOver(t) ==
  /\ pc[t] = "pop"
  /\ candidates[t] = {} \/ (~building[t] /\ OthersFull(t))

\* pathseer_shrink_neighbor_list and add_link_dist_oriented_batched: the kept
\* targets become the dist-oriented zone, the rest joins the others
LinkDist(t) ==
  LET p == pt[t]
      l == level[t]
  IN /\ SearchOver(t)
     /\ \E links \in Shrunk(p, found[t], DistCap(l)) :
        \E D \in Batched(p, dist[p][l], links, DistCap(l)) :
        \E E \in Moved(dist[p][l], ext[p][l], D, Total(l)) :
          /\ dist' = [dist EXCEPT ![p][l] = D]
          /\ ext' = [ext EXCEPT ![p][l] = E]
          /\ todo' = [todo EXCEPT ![t] =
               IF Cardinality(dist[p][l]) + Cardinality(links) < DistCap(l)
               THEN links ELSE D]
          /\ others' = [others EXCEPT ![t] = @ \cup ((found[t] \cup dist[p][l]) \ D)]
     /\ lock' = [lock EXCEPT ![p] = NoThread]
     /\ pc' = [pc EXCEPT ![t] = "revDist"]
     /\ found' = [found EXCEPT ![t] = {}]
     /\ candidates' = [candidates EXCEPT ![t] = {}]
     /\ visited' = [visited EXCEPT ![t] = {}]
     /\ UNCHANGED <<top, adding, position, cur, building>>

\* add_link_dist_oriented_opt(o, p) under the lock of o; `neighbors` holds the
\* farthest target first.  What the shrink drops from the zone is forgotten.
ReverseDist(t) ==
  LET p == pt[t]
      l == level[t]
  IN /\ pc[t] = "revDist"
     /\ \E o \in Farthest(p, todo[t]) :
        /\ lock[o] = NoThread
        /\ \E D \in Added(o, dist[o][l], p, DistCap(l)) :
           \E E \in Moved(dist[o][l], ext[o][l], D, Total(l)) :
             /\ dist' = [dist EXCEPT ![o][l] = D]
             /\ ext' = [ext EXCEPT ![o][l] = E]
        /\ todo' = [todo EXCEPT ![t] = @ \ {o}]
     /\ UNCHANGED <<top, adding, lock, pc, position, search>>

\* Wrong: what other threads wrote while the lock was free is overwritten.
LinkExt_Overwrites(t) ==
  LET p == pt[t]
      l == level[t]
  IN /\ pc[t] = "revDist" /\ todo[t] = {} /\ lock[p] = NoThread
     /\ \E E \in KeepNearest(p, others[t], Total(l) - Cardinality(dist[p][l])) :
          ext' = [ext EXCEPT ![p][l] = E]
     /\ todo' = [todo EXCEPT ![t] = others[t]]
     /\ others' = [others EXCEPT ![t] = {}]
     /\ pc' = [pc EXCEPT ![t] = "revExt"]
     /\ UNCHANGED <<dist, top, adding, lock, position, visited, candidates, cur,
                    building, found>>

\* relock, add_link_extending_batched, unlock: every candidate gets a reverse
\* link, also those that found no room in the point's own zone
LinkExt(t) ==
  LET p == pt[t]
      l == level[t]
  IN /\ pc[t] = "revDist" /\ todo[t] = {} /\ lock[p] = NoThread
     /\ \E E \in KeepNearest(p, ext[p][l] \cup others[t],
                             Total(l) - Cardinality(dist[p][l])) :
          ext' = [ext EXCEPT ![p][l] = E]
     /\ todo' = [todo EXCEPT ![t] = others[t]]
     /\ others' = [others EXCEPT ![t] = {}]
     /\ pc' = [pc EXCEPT ![t] = "revExt"]
     /\ UNCHANGED <<dist, top, adding, lock, position, visited, candidates, cur,
                    building, found>>

\* add_link_extending_fast(o, p), or add_link_extending, under the lock of o
ReverseExt(t) ==
  LET p == pt[t]
      l == level[t]
  IN /\ pc[t] = "revExt"
     /\ \E o \in Farthest(p, todo[t]) :
        /\ lock[o] = NoThread
        /\ \E E \in Inserted(o, ext[o][l], p, Total(l) - Cardinality(dist[o][l]),
                              use_optimized_building) :
             ext' = [ext EXCEPT ![o][l] = E]
        /\ todo' = [todo EXCEPT ![t] = @ \ {o}]
     /\ UNCHANGED <<dist, top, adding, lock, pc, position, search>>

\* Wrong: the level is not decremented; or it is decremented twice.
NextLevel_Again(t) ==
  /\ pc[t] = "revExt" /\ todo[t] = {} /\ lock[pt[t]] = NoThread
  /\ lock' = [lock EXCEPT ![pt[t]] = t]
  /\ pc' = [pc EXCEPT ![t] = "level"]
  /\ UNCHANGED <<graph, top, adding, position, search, todo>>
NextLevel_Twice(t) ==
  /\ pc[t] = "revExt" /\ todo[t] = {} /\ lock[pt[t]] = NoThread
  /\ lock' = [lock EXCEPT ![pt[t]] = t]
  /\ level' = [level EXCEPT ![t] = @ - 2]
  /\ pc' = [pc EXCEPT ![t] = "level"]
  /\ UNCHANGED <<graph, top, adding, pt, nearest, search, todo>>

\* relock the own point and go one level down
NextLevel(t) ==
  /\ pc[t] = "revExt" /\ todo[t] = {} /\ lock[pt[t]] = NoThread
  /\ lock' = [lock EXCEPT ![pt[t]] = t]
  /\ level' = [level EXCEPT ![t] = @ - 1]
  /\ pc' = [pc EXCEPT ![t] = "level"]
  /\ UNCHANGED <<graph, top, adding, pt, nearest, search, todo>>

-----------------------------------------------------------------------------
(* The end of add_with_locks and of the loop body of pathseer_add_vertices  *)

Unlock(t) ==
  /\ pc[t] = "level" /\ level[t] = -1
  /\ lock' = [lock EXCEPT ![pt[t]] = NoThread]
  /\ stage' = [stage EXCEPT ![pt[t]] = "linked"]
  /\ pc' = [pc EXCEPT ![t] = "check"]
  /\ UNCHANGED <<graph, top, batch, interrupt, position, search, todo>>

\* Wrong: only an empty index gets its top from the point inserted.
CheckTop_Never(t) ==
  /\ pc[t] = "check"
  /\ pc' = [pc EXCEPT ![t] = "done"]
  /\ UNCHANGED <<graph, top, adding, lock, position, search, todo>>

\* if (pt_level > max_level) { max_level = pt_level; entry_point = pt_id; },
\* three accesses outside any lock
CheckTop(t) ==
  /\ pc[t] = "check"
  /\ pc' = [pc EXCEPT ![t] = IF Level[pt[t]] > max_level THEN "raise" ELSE "done"]
  /\ UNCHANGED <<graph, top, adding, lock, position, search, todo>>

RaiseLevel(t) ==
  /\ pc[t] = "raise"
  /\ max_level' = Level[pt[t]]
  /\ pc' = [pc EXCEPT ![t] = "raiseEntry"]
  /\ UNCHANGED <<graph, entry_point, adding, lock, position, search, todo>>

RaiseEntry(t) ==
  /\ pc[t] = "raiseEntry"
  /\ entry_point' = pt[t]
  /\ pc' = [pc EXCEPT ![t] = "done"]
  /\ UNCHANGED <<graph, max_level, adding, lock, position, search, todo>>

\* the interrupt callback is polled after a point
Finish(t) ==
  /\ pc[t] = "done"
  /\ interrupt' \in IF MayInterrupt THEN {interrupt, TRUE} ELSE {interrupt}
  /\ pc' = [pc EXCEPT ![t] = "idle"]
  /\ pt' = [pt EXCEPT ![t] = NoPoint]
  /\ nearest' = [nearest EXCEPT ![t] = NoPoint]
  /\ level' = [level EXCEPT ![t] = 0]
  /\ building' = [building EXCEPT ![t] = TRUE]
  /\ UNCHANGED <<graph, top, stage, batch, lock, visited, candidates, cur, found,
                 others, todo>>

-----------------------------------------------------------------------------
SearchStep(t) == StartSearch(t) \/ Expand(t) \/ Scan(t) \/ EndScan(t)
LinkStep(t) == \/ LinkDist(t) \/ ReverseDist(t) \/ LinkExt(t) \/ ReverseExt(t)
               \/ NextLevel(t)

Step(t) ==
  \/ EnterFirst(t) \/ Enter(t) \/ LockAndReadLevel(t)
  \/ GreedyHop(t) \/ GreedyDrop(t)
  \/ SearchStep(t) \/ LinkStep(t)
  \/ Unlock(t) \/ CheckTop(t) \/ RaiseLevel(t) \/ RaiseEntry(t) \/ Finish(t)

Next == \/ StartAdd \/ EndAdd \/ Throw \/ Reset
        \/ \E t \in Threads : Step(t)

Spec == Init /\ [][Next]_vars

\* OpenMP threads keep running and an add() that may return does return;
\* nothing obliges the caller to start another one.
FairSpec == /\ Spec
            /\ \A t \in Threads : WF_vars(Step(t))
            /\ WF_vars(EndAdd) /\ WF_vars(Throw)
-----------------------------------------------------------------------------
(* Properties                                                               *)

Linking   == {"revDist", "revExt"}             \* own zones written
Inserting == {"level", "pop", "scan"} \cup Linking
Ending    == {"check", "raise", "raiseEntry", "done"}

TypeOK ==
  /\ dist \in [Points -> [Levels -> SUBSET Points]]
  /\ ext \in [Points -> [Levels -> SUBSET Points]]
  /\ entry_point \in Points \cup {NoPoint} /\ max_level \in Levels \cup {-1}
  /\ stage \in [Points -> {"absent", "queued", "running", "linked", "orphan"}]
  /\ batch \in SUBSET Points /\ interrupt \in BOOLEAN
  /\ lock \in [Points -> Threads \cup {NoThread}]
  /\ pc \in [Threads -> {"idle", "lock"} \cup Inserting \cup Ending]
  /\ pt \in [Threads -> Points \cup {NoPoint}]
  /\ nearest \in [Threads -> Points \cup {NoPoint}]
  /\ level \in [Threads -> Levels \cup {-1}]
  /\ visited \in [Threads -> SUBSET Points]
  /\ candidates \in [Threads -> SUBSET Points]
  /\ cur \in [Threads -> Points \cup {NoPoint}]
  /\ building \in [Threads -> BOOLEAN]
  /\ found \in [Threads -> SUBSET Points]
  /\ others \in [Threads -> SUBSET Points]
  /\ todo \in [Threads -> SUBSET Points]

\* No list holds its own point.  The code never compares a link with the point
\* that owns the list; it relies on when a search can find what.
NoSelfLinks == \A x \in Points, l \in Levels : x \notin Nbrs(x, l)

\* x has links of its own at level l: its thread has passed the search there
Published(x, l) ==
  \/ stage[x] = "linked"
  \/ /\ l <= Level[x]
     /\ \E t \in Threads :
          /\ pt[t] = x /\ pc[t] \in Inserting
          /\ level[t] < l \/ (level[t] = l /\ pc[t] \in Linking)

\* A list entry is a point whose own links at that level exist: no search can
\* step on a point that is half inserted, or that an interrupted add() left.
EntriesPublished ==
  \A x \in Points, l \in Levels : \A v \in Nbrs(x, l) :
    Published(v, l) /\ stage[v] \in {"running", "linked"}

\* the links a thread may write, and all that it holds, at its level
Pending(t) == found[t] \cup others[t] \cup todo[t]
Held(t) == Pending(t) \cup candidates[t] \cup ({cur[t]} \ {NoPoint})

\* A link about to be written is not there yet, in either direction, although
\* other threads have changed both lists since the search chose it.
FreshLinks ==
  \A t \in Threads :
    /\ pc[t] \in Linking =>
         \A o \in todo[t] : pt[t] \notin Nbrs(o, level[t])
    /\ pc[t] = "revDist" => Nbrs(pt[t], level[t]) \cap others[t] = {}

\* Of two points inserted at once at most one finds the other: the search of
\* each ends before its own point can be found.
NoMutualDiscovery ==
  \A t, u \in Threads :
    pc[t] \in Inserting /\ pc[u] \in Inserting /\ level[t] = level[u] =>
      ~(pt[u] \in Pending(t) /\ pt[t] \in Pending(u))

\* Both zones of a list fit in its slots, whatever the order of writers.
SlotsSuffice ==
  \A x \in Points, l \in Levels :
    /\ Cardinality(dist[x][l]) <= DistCap(l)
    /\ Cardinality(dist[x][l]) + Cardinality(ext[x][l]) <= Total(l)

\* A thread only touches lists that its points have.  neighbor_range does no
\* bounds check: beyond levels[x] it is the range of the next point.
AccessInRange ==
  \A t \in Threads :
    pc[t] \in Inserting /\ level[t] >= 0 =>
      \A x \in {nearest[t]} \cup Held(t) : level[t] <= Level[x]

\* Once two points of a level are linked, none of the level's linked points is
\* a dead end for the greedy descent or for the dist-oriented search.
NoDeadEnd ==
  \A x, y \in Points, l \in Levels :
    /\ x # y /\ stage[x] = "linked" /\ stage[y] = "linked"
    /\ l <= Level[x] /\ l <= Level[y]
    => dist[x][l] # {}

\* Between two add() calls the entry point is a point of the highest level and
\* every point is entirely in the graph or entirely out of it.
QuiescentTop ==
  batch = {} =>
    /\ \A x \in Points : /\ stage[x] \in {"absent", "linked", "orphan"}
                         /\ stage[x] = "linked" => Level[x] <= max_level
                         /\ lock[x] = NoThread
    /\ entry_point # NoPoint => /\ stage[entry_point] = "linked"
                                /\ max_level = Level[entry_point]

\* Pruning and overwriting never lose the closest dist-oriented link of a list
\* unless a closer one replaces it; only reset() empties a list.
ClosestLinkKept ==
  [][Reset \/ \A x \in Points, l \in Levels : \A v \in dist[x][l] :
       \E w \in dist'[x][l] : Dist[x][w] <= Dist[x][v]]_vars

\* Every add() ends, by returning or by throwing: the search loops run dry and
\* no thread waits for a lock for ever.
AddEnds == batch # {} ~> batch = {}

-----------------------------------------------------------------------------
(* The inductive invariant behind these properties                          *)

\* a thread starts from a point that is in the graph, and its heaps are empty
\* outside the phases that use them
ThreadOk(t) ==
  /\ pc[t] = "idle" <=> pt[t] = NoPoint
  /\ pc[t] \in Inserting \cup {"lock"} =>
       stage[pt[t]] = "running" /\ nearest[t] \in Points /\ stage[nearest[t]] = "linked"
  /\ pc[t] \in Ending => stage[pt[t]] = "linked"
  /\ pc[t] \in {"pop", "scan"} \cup Linking =>
       0 <= level[t] /\ level[t] <= Level[pt[t]]
  /\ pc[t] = "scan" <=> cur[t] # NoPoint
  /\ pc[t] \notin {"pop", "scan"} => found[t] = {} /\ candidates[t] = {}
  /\ pc[t] \notin {"pop", "scan", "revDist"} => others[t] = {}
  /\ pc[t] \notin Linking => todo[t] = {}

\* threads at work have points of their own, all of one level
ThreadsInv ==
  /\ \A t \in Threads : ThreadOk(t)
  /\ \A t, u \in Threads :
       pc[t] # "idle" /\ pc[u] # "idle" =>
         (pt[t] = pt[u] => t = u) /\ Level[pt[t]] = Level[pt[u]]

\* the batch holds what is still to be inserted, and inserting takes a thread
StagesInv ==
  /\ batch = {} => AllIdle /\ ~interrupt
  /\ \A x \in Points : /\ stage[x] = "queued" => x \in batch
                       /\ stage[x] = "running" => \E t \in Threads : pt[t] = x

\* between two steps a thread holds at most the lock of its own point
LocksInv ==
  \A x \in Points : lock[x] # NoThread =>
    pt[lock[x]] = x /\ pc[lock[x]] \in {"level", "pop", "scan"}

\* entry point and max_level agree, except while a thread raises them
TopInv ==
  /\ \A x \in Points : stage[x] = "linked" =>
       \/ Level[x] <= max_level
       \/ \E t \in Threads : pt[t] = x /\ pc[t] \in {"check", "raise"}
  /\ \A t \in Threads :
       pc[t] \in {"raise", "raiseEntry"} => max_level <= Level[pt[t]]
  /\ entry_point = NoPoint =>
       /\ AllIdle /\ ~interrupt /\ max_level = -1
       /\ \A x \in Points : stage[x] \in {"absent", "queued"}
  /\ entry_point # NoPoint =>
       /\ stage[entry_point] = "linked"
       /\ \/ Level[entry_point] = max_level
          \/ \E t \in Threads : pc[t] = "raiseEntry" /\ Level[pt[t]] = max_level

BatchInv == StagesInv /\ LocksInv /\ TopInv

\* a point has no links where it is unpublished, and searches and lists only
\* hold published points
PublishedInv ==
  /\ \A x \in Points, l \in Levels :
       /\ Published(x, l) \/ Nbrs(x, l) = {}
       /\ \A v \in Nbrs(x, l) : Published(v, l)
  /\ \A t \in Threads : pc[t] \in Inserting =>
       \A v \in Held(t) : v # pt[t] /\ Published(v, level[t])

\* the links still to be written are new, and each is written once
FreshOk(t) ==
  /\ found[t] \cap others[t] = {} /\ others[t] \cap todo[t] = {}
  /\ pc[t] \in Linking \/ Pending(t) \cup candidates[t] \subseteq visited[t]
  /\ pc[t] \in Linking => \A o \in todo[t] : pt[t] \notin Nbrs(o, level[t])
  /\ pc[t] = "revDist" => /\ Nbrs(pt[t], level[t]) \cap others[t] = {}
                          /\ \A o \in others[t] : pt[t] \notin Nbrs(o, level[t])
FreshInv == \A t \in Threads : FreshOk(t)

\* no two points hold each other
MutualInv ==
  \A t, u \in Threads :
    pc[t] \in Inserting /\ pc[u] \in Inserting /\ level[t] = level[u] =>
      ~(pt[u] \in Held(t) /\ pt[t] \in Held(u))

\* without a taller later add() the first point stays the top one
TopFixed ==
  /\ \A x \in Points :
       entry_point # NoPoint /\ stage[x] \in {"queued", "running", "linked"} =>
         Level[x] <= max_level
  /\ entry_point # NoPoint => max_level <= Level[entry_point]
  /\ \A t \in Threads : pc[t] \notin {"raise", "raiseEntry"}

\* and the points met at a level all reach it
LevelsReached ==
  /\ \A x \in Points, l \in Levels : \A v \in Nbrs(x, l) : l <= Level[v]
  /\ \A t \in Threads : pc[t] = "lock" => max_level <= Level[nearest[t]]
  /\ AccessInRange

RangeInv == ~TallerLater => TopFixed /\ LevelsReached

IInv == /\ TypeOK /\ ThreadsInv /\ BatchInv /\ PublishedInv /\ FreshInv
        /\ MutualInv /\ RangeInv /\ NoSelfLinks /\ SlotsSuffice
=============================================================================
