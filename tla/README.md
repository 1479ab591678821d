# PathSeer in TLA+

PathSeer is a graph index for approximate nearest-neighbour search with an
attribute filter, built into a copy of faiss. Its graph is a hierarchy like
HNSW's, with one difference that runs through all of the code: every neighbour
list has two zones. The *dist-oriented* zone holds the pruned links HNSW would
keep; the *extending* zone holds further near points, which a filtered search
may use. This directory holds TLA+ models of PathSeer's core, the TLC runs that
check them on small instances, and the proofs, checked by TLAPS, that carry the
main results to every instance. Paths below are relative to `src/`; unless
another file is named, line numbers are those of `faiss/faiss/impl/PathSeer.cpp`.

## 1. The system

| Part | Code | State | Operations |
|---|---|---|---|
| Construction | `IndexPathSeer.cpp:119-259`, `376-392`; 1057-1253 | `levels`, `neighbors`, `neighbor_boundaries`, `entry_point`, `max_level`, one lock per point, per-thread search heaps | `add`, `reset`, `pathseer_add_vertices`, `add_with_locks`, `add_links_starting_from` |
| Neighbour-list slots | 329-756 | one range of `neighbors` and its boundary | `move_the_extending_zone`, `add_link_dist_oriented_{opt,batched}`, `add_link_extending{,_batched,_fast}` |
| Pruning | 180-326 | a queue and two result lists | `HNSW_shrink_neighbor_list`, `PathSeer_shrink_neighbor_list` and wrappers |
| Dist-only search | 906-947, 1265-1351, 2337-2372 | `MinimaxHeap`, result heap, `VisitedTable` | greedy descent, `search_from_candidates` |
| `MinimaxHeap` | 2434-2589 | `n`, `k`, `nvalid`, `ids`, `dis` | `push`, `pop_min`, `count_below`, `size` |
| Hybrid search | 949-1053, 1451-2332, 2375-2418 | the same, `neigh_arr`, measured costs | four search modes, the bound on the virtual overhead, the printing variant |
| Level table | 37-178 | `offsets`, `offset_neighbor`, `cum_nneighbor_per_level` | `set_default_probas`, `random_level`, `prepare_level_tab` |
| `VisitedTable` | `impl/AuxIndexStructures.h:207-255` | `visited`, `visno` | `set`, `get`, `advance`, `advance_two_states` |
| Profiling | `IndexPathSeer.cpp:399-494` | `profilier` | measured cost of a distance and of a filter call |
| Persistence | `impl/index_write.cpp:377-397, 855-862`, `impl/index_read.cpp:425-442, 1025-1035` | the file | field-by-field write and read |
| Selectors | `impl/IDSelector.h`, `benchmark/utils/selector.hpp` | predicates on ids | `is_member` |
| Bencher and programs | `benchmark/bencher/pathseer.hpp`, `benchmark/{build_persist_index,pathseer_virtual_overhead_profilier,eval_tput_recall,eval_dynamic_workload}/pathseer.cpp` | search parameters, the bracket of an efSearch | build, save, load, clear; bisection of efSearch, choice of the virtual overhead |

How they interact. `add` stores the vectors, draws their levels and inserts them
group by group, tallest level first; a group of more than 100 points is an
OpenMP loop, and the end of the group is a barrier. A thread that inserts a
point takes the point's lock, descends greedily, and on each level searches,
writes both zones of its own list and adds reverse links to other lists under
their locks, releasing its own lock while it does so. Searches read lists
without any lock. A query (`search`) only reads the graph; each thread has its
own heap, result heap and visited table. The programs of `benchmark/` share
nothing but the file: one builds an index and writes it, another reads it and
profiles costs and overheads, a third reads it and searches for the efSearch
that reaches a target recall. Searches of one thread share a `VisitedTable`,
which is not cleared between queries.

What is hard here. The interleaving of searches with writers; the two writes to
the own list with a gap in between in which others write to it; the two shared
scalars `entry_point` and `max_level`, read and written apart; an interrupt that
leaves part of a batch in the tables and not in the graph; two zones in one
range of slots that grow and shrink against each other; a heap whose `size()`
counts something else than its slots. Around the graph: five arrays that must grow in
step; a file without field names that a crash may cut short; settings that no
file holds; a byte that numbers queries and wraps; and loops that look for an
efSearch in a recall they know nothing about. `PROJECT.json` lists these hazards at
their lines with the properties that watch them.

## 2. Modules

| Module | What it models |
|---|---|
| `NeighborSelection` | points, distances, and which sets the priority queues, the pruning and the writes to one list may produce |
| `PathSeerBuild` | the concurrent construction: `add`, `reset`, level groups, threads, locks, interrupt |
| `PathSeerBuildProofs` | its inductive invariant and eleven theorems |
| `ObservedList` | one list of `PathSeerBuild`, with a history of the points it has met, as an implementation of `NeighborList` |
| `ObservedListProofs` | that every list is one |
| `ShrinkNeighbors` | the pruning loop step by step |
| `ShrinkNeighborsProofs` | that it returns what `Shrunk` of `NeighborSelection` says |
| `NeighborList` | one list as two sets, with the writes of the construction (the abstract specification) |
| `NeighborSlots` | the same list as slots of an array; implements `NeighborList` |
| `NeighborSlotsProofs` | that it does, that its zones stay packed, without doubles and in range, and where its order is lost |
| `MinimaxHeap` | the two heaps of a query, which both searches use |
| `BoundedHeapProofs` | lemmas: a set of bounded size that gives up its farthest member keeps the nearest |
| `CandidateSearch` | `search_from_candidates` |
| `CandidateSearchProofs` | that `pop_min` always finds a candidate, and that both heaps hold the nearest points |
| `HybridSearch` | a query with a filter, in its six variants |
| `HybridSearchProofs` | that results pass the filter and are the nearest that do, that nothing is pushed twice, that what a list yields and the overhead are bounded |
| `LevelTable` | the arrays behind the lists: `prepare_level_tab`, ranges, boundaries |
| `VisitedSet` | what a visited table promises (the abstract specification) |
| `VisitedTable` | the table of bytes with its wrap; implements `VisitedSet` |
| `RecallTuning` | the loops of the bencher that look for an efSearch |
| `IndexLifecycle` | one index through build, save, crash, load, profiling and evaluation: the composition of `LevelTable`, `VisitedTable` and `RecallTuning` with the file |
| `IndexLifecycleProofs` | its inductive invariant and seven properties; lemmas: every operation of `LevelTable` keeps the lists tiling the arrays, every step of the loops of `RecallTuning` keeps the target in the bracket, every step of the bytes of `VisitedTable` is a step of the set |
| `MC...` | instances for TLC |

They form a chain of abstractions. `PathSeerBuild` writes a list in one step,
with sets of points for the zones and the operators `Shrunk`, `Batched`,
`Added`, `Moved`, `Inserted` for what may come out. `NeighborList` isolates
exactly these writes for one list. It is implemented from both sides. From above,
`IsNeighborList` of `ObservedList` says that any one list of `PathSeerBuild`, with
`dist <- dist[Owner][AtLevel]`, goes through these writes and no others, whatever the
threads do; that is where it is justified that each point comes to a list
once, never is its owner, and that the owner's two writes are those of one search. From
below, `ImplementsList` of `NeighborSlots` says that the array, with
`dist <- Zone1, ext <- Zone2`, does, when written to in that way. `ShrinkNeighbors` has the
loop behind `Shrunk`.

`ObservedList` adds the variable `offered` to `PathSeerBuild`, the points that the
list has met; it is a history and restricts no step. The phase of the list and the
targets it has not taken yet are functions of the state: a list is "open" while its owner
writes reverse links between the two writes of its own.

### PathSeerBuild

| Actions | Code |
|---|---|
| `StartAdd`, `EndAdd`, `Throw`, `Reset` | `IndexPathSeer::add`, the normal end and the throw of `pathseer_add_vertices`, `reset` |
| `EnterFirst`, `Enter` | the critical section of `add_with_locks` (1208-1219); `MayRun` is the loop over groups with its barrier |
| `LockAndReadLevel` | `omp_set_lock` and `level = max_level` (1221-1223) |
| `GreedyHop`, `GreedyDrop` | `greedy_update_nearest` and the loop of 1233 |
| `StartSearch`, `Expand`, `Scan`, `EndScan` | `pathseer_search_neighbors_to_add` |
| `LinkDist`, `ReverseDist`, `LinkExt`, `ReverseExt`, `NextLevel` | the rest of `add_links_starting_from`, one step per locked section |
| `Unlock`, `CheckTop`, `RaiseLevel`, `RaiseEntry` | 1246-1251, one step per access to a shared scalar |
| `Finish` | the end of the loop body, with the interrupt callback |

`dist[x][l]` and `ext[x][l]` are the zones, `stage[x]` is where a point is in its
life ("orphan": an interrupted `add` gave it a level and a list and no link).
`found` is `link_targets`, `others` is `other_link_targets`, `todo` is the local
vector `neighbors`.

Choices a reader should know:

- A write under a lock is one step. A search reads slot by slot: `Scan` takes one
  readable neighbour at a time and `EndScan` may come early while other threads
  run, because the boundary is read once and slots move underneath. While others
  run a scan may also meet an extending entry (`Readable`).
- Two threads cannot write one list at once; the lock the steps wait for is in
  their guards. A step that takes and gives back a lock needs it free.
- Which entries fall off a full extending zone depends on the order of the slots.
  `PathSeerBuild` lets any set of the right size fall off (`FirstOf`,
  `LeftBehind`); `NeighborSlots` has the exact slots and refines this.
- The static schedule of the OpenMP loop and the random order of a group are
  over-approximated: any idle thread may take any queued point of the group.
- `Level` is a constant: the outcome of `random_level`. Symmetric distances are
  assumed (`symmetric_dis`), nothing else about them; ties may go either way.
- Storage ids below 2^24 are assumed (line 877 passes an id through a float).
- x86 keeps the order of the two stores 1249 and 1250, which the model assumes.
- After `AccessInRange` is violated the program reads other points' slots; the
  model goes on in the abstract, so nothing else is claimed of such behaviours.

### NeighborSlots

`neighbors[0..Total-1]` is the range, slot `Total` the first slot of the next
list (`Foreign` or empty). `SetDist` is the write of the dist-oriented zone
preceded by `Shift`, which is `move_the_extending_zone` with its early return.
`use_optimized_building` is a variable chosen in `Init`, so that one run covers
both insertions. `InsertSorted` has the binary search as a recursive function; `"aborted"` is a
failed `FAISS_ASSERT`. The environment offers each point at most once, which is
what `FreshLinks` of `PathSeerBuild` guarantees.

### ShrinkNeighbors and CandidateSearch

`ShrinkNeighbors` has one action per outcome of one iteration. Its arguments are
chosen in `Init`, any `max_size` above 0 among them: no run has this module, its
theorems speak of every call.

`CandidateSearch` separates popping, each visit and the end of a list; the graph and
the stop criterion (`do_dis_check`) are chosen in `Init`. `held` are all slots of the
heap, `popped` those marked by `pop_min`, `nvalid` is the counter. `nstep` is counted
up to `efSearch + 1` only, as beyond that it is not looked at.

### HybridSearch

The three functions `adaptive_hybrid_search_from_candidates...` are one scan with
differences, and one module: `variant` is the mode (0 to 3) of the first
function, `"bounded"` or `"printing"`.

| Actions | Code |
|---|---|
| `Start` | `search` up to the base level and the seeding loop (1488-1501, 1809-1822, 2013-2026) |
| `Pop`, `RunDry`, `EndList` | the outer loop |
| `SeeZone`, `SkipSeen`, `EndZone`, `PushNear`, `EndNear` | the dist-oriented zone: 1543-1581, 1690-1729, 1864-1901, 2200-2241 |
| `SeeExt`, `SkipSeen`, `EndExt` | the extending zone, in mode 1 the whole list: 1583-1613, 1904-1920, 2243-2291 |
| `HopFirst`, `HopSecond`, `HopBack`, `EndHop` | the two-hop search of mode 2: 1615-1689 |
| `PushFar` | the last loop: 1735-1751, 1937-1953, 2293-2309 |

- A slot of a heap is a point, the list and the loop that pushed it, so that
  pushing a point twice is visible (`PushedOnce`).
- The descent through the upper levels is a choice of `nearest`, of whether there
  is a level 1 and of whether the costs were profiled before. The measured costs
  are the constants `FilterCost` and `DistCost`. A failed assertion (2006) and the
  division by the number of profiled slots, when that is zero (986, 1008), end in
  `"aborted"`.
- The counters of one list and `nsatisfy` exist in the bounded search; the other
  variants never read them. Statistics and what the variants print are left out.
- The code's quotients are truncated floats; `\div` gives the same comparison, as
  an overhead is never negative. Coefficients are integers in the model.
- `CheckEvery` is the 5 of line 2246.

### IndexLifecycle and the three modules it composes

An index is a record with one field per member of `PathSeer` and `IndexPathSeer`
that changes. What is linked to what is the business of `PathSeerBuild`; here
`links[p]` only says under which settings `p` was linked.

| Actions | Code |
|---|---|
| `NewBuild`, `Reset` | `PathSeer_bencher::build`, `IndexPathSeer::reset` |
| `StartAdd`, `PlaceNext` | `add` and the two loops of `prepare_level_tab` (149-175) |
| `LinkNext` | `add_with_locks`: the boundaries it may write in either mode |
| `StartSave`, `WriteField` | `save_persist`; one field of `write_PathSeer` |
| `Load`, `End` | `load_persist`; `clear`, an uncaught throw, a failed assertion or a crash, at any moment |
| `Profile` | `profile_dist_comp_cost` and `profile_filter_cost` |
| `StartTuning`, `ProbeAbove`, `ProbeBelow`, `ProbeTooLong`, `Test` | the widening loop of one overhead in `profile_virtual_overhead_bound`, and the timing of the efSearch it found |
| `Bisect`, `MeasureEnds`, `Choose` | its bisection, and that of `auto_batch_query` |
| `StartSweep`, `Sweep`, `NoUpperEnd`, `QueryFixed` | the sweep of `eval_tput_recall`; `auto_batch_query` with what the sweep found, or with the fixed bracket of `eval_dynamic_workload` |
| `Abort` | `assert(false)` in those loops, which ends the program |
| `StartSearch`, `StartAcorn`, `Searching` | a search with its `VisitedTable`; that of ACORN with two marks |

- The ranges are computed with the real `cum_nb_neighbors`, so `Tiles` is about
  the slots of the array. A boundary written past the end of
  `neighbor_boundaries`, which line 1229 does for the last point when it is lower
  than the graph, is left without effect: the memory behind is not in the model.
- Insertion is sequential here (the threads are in `PathSeerBuild`), and its
  boundaries are any that the zones allow (`Linkings`, `Fill`).
- A crash while saving leaves a prefix of the fields. A short file makes
  `read_index` throw; a program that throws does nothing, and is not a step.
- The recall of an efSearch is any number, and need not grow. What a
  deterministic search gave at an end of the bracket it gives there again; a
  search that times its own costs while it runs may give anything again.
- Times are left out but for the two costs: `time_limit_second` may strike in any
  turn, and which overhead is chosen at the end is not kept.

## 3. Runs

| Run | Instance and properties | Result |
|---|---|---|
| `build_levels` | 3 threads, 2 levels, one `add` or several: `TypeOK`, `EntriesPublished`, `FreshLinks`, `NoMutualDiscovery`, `AccessInRange`, `NoDeadEnd`, `SlotsSuffice`, `ClosestLinkKept`, `IsNeighborList` | hold |
| `build_live` | 2 threads, an interrupt after any point, later `add`s may bring two taller points, one of level 1 and one of level 2: `QuiescentTop`, `IInv`, and under fairness `AddEnds` | hold |
| `build_race` | a later `add` brings two taller points: `AccessInRange` | **violated** |
| `slots_zones` | one list of 2 + 2 slots, sorted or unsorted extending zone: `TypeOK`, `Packed`, `OncePerZone`, `StaysInRange`, `ImplementsList` | hold |
| `slots_order` | one list of 3 + 2 slots: `ExtendingOrder` | **violated** |
| `slots_full` | `M_exp = M`: `StaysInRange` | **violated** |
| `search_query` | all graphs of four points with lists of up to two, both stop criteria, `efSearch = 3`, `k = 2`: `ValidInv`, `HeapIsNearest`, `BestOfVisited`, `SearchEnds` | hold |
| `search_early` | the same graphs, `efSearch = 2`, `k = 1`: `CandidatesExpanded` | **violated** |
| `hybrid_filter` | five points, nine graphs, every filter, all variants but mode 3, `M_exp = 4`: `TypeOK`, `ResultsPassFilter`, `PushedOnce`, `BestOfAccepted`, `OverheadBounded`, `YieldBounded`, `SearchEnds` | hold |
| `hybrid_dfn` | the same in mode 3, `M_exp = 3`: `ResultsPassFilter` | **violated** |
| `hybrid_array` | mode 2 with `M = 1`, `M_exp = 2`, `M_exp_search = 1`, full lists of four: `ArrayFits` | **violated** |
| `lifecycle_programs` | two points of up to two levels, both modes of construction, all programs in any order with crashes: `TypeOK`, `ListsTile`, `BoundariesFit`, `GraphUniform`, `LoadRestores`, `ImplementsVisitedSet`, `BracketHolds`, and under fairness `TuningEnds` | hold |

What each property says, and of which code, is written above its definition. The
construction runs have four points at 0, 3, 4, 9 on a line with squared
distances. `M = 1` and `M_exp = 2` give zones of 2 of 4 slots on the base level,
so that zones fill, prune and push entries out with four points, and
`efConstruction = 2` makes the result heap overflow. `build_levels` observes the list of
one point on the base level (a theorem speaks of all of them), and `NoSelfLinks` is part
of the `IInv` of `build_live`. The runs of `PathSeerBuild`
build optimised; the unsorted insertion (`use_optimized_building = FALSE`) is
checked by `slots_zones` and covered by the proofs.

What the violated ones show:

1. `build_race`. A thread reads `entry_point` (1210), another raises `max_level`
   (1249), the first reads `max_level` (1223) and starts at a level its entry
   point does not have. This takes an `add` to a non-empty index whose tallest
   group is above `max_level` and large enough to run in parallel.
2. `slots_order`. `move_the_extending_zone` returns when the extending zone is
   empty (343-345), also when the other zone shrinks. The slots given up keep
   their old links; the extending zone is not sorted from then on and may repeat
   links of the other zone.
3. `slots_full`. With `M_exp = M`, which the constructor accepts,
   `add_link_extending_fast` takes the next list's first slot for its own (709).
   `PathSeerBuild` therefore assumes `M_exp > M` for the optimised building.
4. `search_early`. `push` takes one off `nvalid` for a slot that `pop_min` had
   already counted (2439), and the search ends with near candidates unexpanded.
5. `hybrid_dfn`. Mode 3 enters the last loop (1733) with the batch of its first
   one, pushes it again and records what fails the filter.
6. `hybrid_array`. The modes allocate `M_exp` slots for `neigh_arr` (1506). When the
   list of a neighbour has brought enough, mode 2 goes on with the first list and puts
   one more point in the array before it counts again (1639): with
   `2 * M_exp_search = M_exp`, one too many. With a larger `M_exp_search` the property
   fails in every mode, and at once: line 1507 clears twice the `M_exp_search` that was
   clamped to `M_exp`.

The passing runs claim correspondingly less. `YieldBounded` says how many points a
list may bring, for any parameters, and not that the array has room for them; in
`hybrid_filter` (`M_exp = 4`) it has, so that nothing there is claimed of a search that
wrote past it. `BracketHolds` assumes that both ends were measured before the
bisection: the evaluations also bisect a bracket with an end nobody measured, and the
assertion of `auto_batch_query` (779) may then fail, which `Abort` allows. `TuningEnds`
assumes that the overheads to try differ (`Endless`): with costs so small that
`VO_delta` is 0 the loop over them never ends. `BoundariesFit` says that a boundary is
within the list it is stored for, and not that `LinkNext` meant it for that list: in the
only-expanding mode line 1229 sets the one of a later point. `ImplementsVisitedSet` is
about ACORN; NaviX marks in the same way and moves on by one only
(`IndexNaviX.cpp:612`), which is the mistake the property's mutant makes. And one
thing the model has and no property or document speaks of: the sweep of
`eval_tput_recall` starts at efSearch 2 and goes on to 3, but a search takes
`max(efSearch, k)` with k = 10, so its second recall is the first one again and the
sweep stops there (`SweepRecalls`).

**Deadlock** is checked in the construction, where a caller may always start
another `add` or `reset`. A single list and a query end, so
their configurations switch the check off. So does `lifecycle_programs`, where
`End` is possible whenever a program runs and a check would never fail.

**Bounds.** `Points` and `Threads` are finite sets; there are no other counters
to bound (`nstep` is capped as said). Three threads are enough for a writer
between a searcher's choice and its link with a third party's reverse link in
between; four points fill every zone at `M = 1`, and let two points share
neighbours while a third prunes. `M = 1` is a scale model: the code is run with
larger values, and the theorems cover them. The slots runs have five other
points for zones of 2 + 2 slots (or 3 + 2), so each zone overflows. The
lists of `hybrid_filter` have four or five slots with boundary 2 or 1 and repeat
links across zones and lists; the extending zone has up to four slots, so with
`CheckEvery = 2` (5 in the code) the bound ends a scan at its second look, after
visited and new slots.

`lifecycle_programs` has two points, so that one can be lower than the graph and
the other not, be added before or after a reload, and lie before or after it in
the arrays. `Wrap = 6` (250 in the code) lets both kinds of marks wrap after two
or four queries, with `ByteSize = 8` (256) above it. Recalls are 0 to 4 with two
targets, the widths double from `top_k = 2`; the bracket ends once a recall is
above the target, so the widths are finite without a bound. Two rounds (6) of two
overheads each, costs of 0 or 2, a profiled share of one in two (100).

**Fairness.** `FairSpec` of `PathSeerBuild` has weak fairness for each thread's
`Step` (OpenMP threads keep running), and for the end of an `add` (its caller
waits for it). Weak fairness suffices although locks are taken: a thread that
waits is waiting for a lock whose holder waits for none. Starting an `add` or a
`reset` has no fairness. The two searches are one thread each: weak
fairness of `Next`. `FairSpec` of `IndexLifecycle` has weak fairness for a step of
a tuning that has begun: it is a loop of one thread, and every search in it
returns (`SearchEnds`). Crashes, and whether a program runs at all, have none.

## 4. Proofs

Assumptions are those of the constants: finite sets of points, symmetric integer
distances, `M_exp >= M` (`> M` when building optimised), levels within
`TopLevel`. The threads need not be finite in number.

**PathSeerBuild.** `IInv` is inductive (`Invariance`). Its parts, each with a
lemma of its own:

- `ThreadsInv`: threads at work have points of their own, all of one level; their
  entry point is in the graph; heaps are empty outside the phases that use them.
- `BatchInv`: the batch, the locks and the top agree with what the threads do.
- `PublishedInv`: a point has no links at a level where its search has not ended,
  and lists and searches hold only points that have. This gives
  `EntriesPublished`, and it is why a search never finds the point it is run for:
  no self link, although the code never compares the two.
- `FreshInv`: links still to be written are not there. It needs `MutualInv`: two
  points inserted at once never hold each other, because to be found one must be
  published, and then its search is over.
- `RangeInv`: without a taller later `add`, the top is fixed and every list at a
  level holds points of that level, hence `AccessInRange`.
- `SlotsSuffice`, `NoSelfLinks`, `TypeOK`.

From it: `TypeCorrect`, `NoSelfLinksEver`, `SlotsNeverOverflow`,
`LinksLeadSomewhere`, `LinksAreFresh`, `NeverMutual`, `RangesRespected` (under
`~TallerLater`; `build_race` shows the assumption is needed),
`QuiescentTopHolds`, and the action property `ClosestKept`.

`NoDeadEnds` (`~TallerLater`) takes three invariants more. No step empties a list, because
each write keeps the closest link (`ClosestStep`); what is left to show is that the
first write of a list finds something to write. `FoundInv`: a search knows at least
its entry. `LinkedInv`: published points other than the entry point have links. The entry
point itself is written to last: it has no search, and its links come back from the
points that found it. `AloneInv`: where the entry point has no links yet,
whoever inserts a point still has its search, or its reverse link to the entry point,
before it and has met nothing else; no other point is linked there.

**ObservedList.** `ListsImplemented` proves `IsNeighborList` for every owner, level and
number of threads, also with a taller later `add`. `MetInv` is what it needs beside
`IInv` and `FoundInv`: a list has met other points only, not before its owner's search
ended, and only points with links of their own; and a point that it has met, if
still being inserted, does not hold the owner any more. That is where `MutualInv` comes
in again: a point that the owner found cannot come with a reverse link later. Each
write of the list is mapped to the write of `NeighborList` of the same name
(`FirstWrite`, `SecondWrite`, `BackDist`, `BackExt`), what publishes a point without a search
to `First`, and everything else to a stutter (`OtherList`, `PhaseStays`).

**NeighborSlots.** `SlotsInv` says that there is an `e` for which the range has the
`Shape`: the slots before `e` hold points that were offered, the others none, the
boundary is not above `e` nor `Cap`, and neither zone holds a point twice. Every
loop that looks for the end of the list then finds `e` (`ShapeFacts`), and each write has a lemma
that says which slots it sets: the shift (`ShiftFacts`), the dist-oriented zone
(`SetDistShape`), the heap popped into the extending zone (`NearestFirstFacts`), and the
two insertions. From these: `TypeCorrect`, `StaysPacked`, `NoDoubles`; each write to
the slots is the write to two sets of `NeighborList`, which is what `PathSeerBuild`
writes (`ListRefined`); and none reaches the next list (`InRange`). The last two
assume `HasRoom`, a slot more than the dist-oriented zone may take when building
optimised; `slots_full` shows that the assumption is needed. `NeighborSlots` makes no such
assumption of its constants, which are those of the code.

What the binary search of `add_link_extending_fast` returns is an induction over the width of
the range that is left. It is made through the least number that would
refute it (`LeastNumber`, from the well-foundedness of the numbers), so that no
operator has to be passed to a theorem. The result is always in the zone
(`PositionFound`), and in a sorted zone it divides the nearer links from the
farther ones. With it `OrderLostOnlyThere` says of every step that it keeps the order
of the extending zone, unless that zone is empty and the dist-oriented one gives
up slots. So the early return that `slots_order` shows (343-345) is the only place where the
order is lost; the shift, the pop order of the heap and the insertion all keep it.

**ShrinkNeighbors.** `LoopInvariant`: candidates are taken in order, a kept one
shadows no later kept one, each dropped one has a kept reason. At the end that is
the definition of `Shrunk` (`ShrinkIsShrunk`), and nothing is lost
(`ShrinkLosesNothing`).

**CandidateSearch.** `ValidNeverTooMany`: `nvalid` is at most the number of
unpopped slots, although it may be less; so `pop_min` never returns -1
(`PopAlwaysFinds`). Both heaps change in the same way when a point is visited: it is
added while there is room, refused if no member is farther, and else it replaces a
farthest one. `BoundedHeapProofs` shows once that this keeps the nearest of all that was
offered (`TakesInKeeps`), `NearestInv` says it of both heaps, and `HeapAlwaysNearest`
and `ResultsAlwaysBest` follow. A popped slot stays in the heap and may be evicted,
which does not disturb the argument: it is about all that was ever pushed.

**HybridSearch.** `ShapeInv` says what each phase of the scan may rely on; it
gives `HybridTypes`. `FilterInv` adds that what waits in `neigh_arr` is visited,
not pushed and there once (`OnceInv`), and that the batch of the last loop has
passed the filter (`PassInv`); both need the reset that mode 3 leaves out, so
`OnlyPassing` and `NeverPushedTwice` assume `NoMode3`, and `hybrid_dfn` shows that
the assumption is needed. `OverheadIsBounded` has its own invariant: `num_new +
num_visited` counts the slots seen (with those that wait in `neigh_arr`), the
virtual overhead is at least one filter call for each (`OverheadFloor`), the limit
is at most `MaxLimit` whatever the selectivity (`LimitCapped`), and the last look
was at most `CheckEvery` slots ago (`LastLook`). `FitInv` counts what each phase may
have put in `neigh_arr`; a two-hop scan cut short in the second list may add one more
point from the first. This gives `YieldAlwaysBounded`, which assumes nothing of
`M_exp` or of the parameters, and `OwnArrayFits`: the array of the bounded and of the
printing search, `max(width, 2 * M)` slots, always suffices. Of the modes' array
nothing is proved; it does not always suffice (`hybrid_array`).
`BestInv` adds to `FilterInv` that the result heap keeps the nearest of the visited
points that pass, except those still waiting in the batch (`Offered`); a point not
pushed because it does not improve the results is offered too, and refused. With
`TakesInKeeps` this gives `ResultsAreBest`, under `NoMode3`.

**IndexLifecycle.** `Inv` has a part per component, each with lemmas about its
operators and actions.

- `LevelTable`: `Laid` says that the tables are as long as one another, that
  the arrays end where the last range does, and that the lists tile them. It is
  kept by new levels (`DrawKeepsLists`), by a new range (`PlaceLaid`), and by
  boundaries that are written within some list (`WrittenFits`): as no two lists
  share a boundary, what fits the list it was meant for fits. The write of the
  only-expanding mode, meant for `max_level`, may hit the list of another point;
  it fits there because a level above 0 has at most `M` links, which every list
  has room for, and level 0 is always the point's own (`SetWithin`).
- The marks of the visited table: no mark is newer than the query, and with two marks
  the number stays even, so that it meets an even `Wrap` exactly (`NextQueryFinds`).
  Each step is then a step of `VisitedSet` (`TableStepRefines`).
- The tuning: while an end is looked for, the lower one
  was measured at a width that counts (`ProbeInv`, `SweepInv`), and the measured ends stay on
  their sides of the target (`BracketInv`), whatever the recalls are.
- `FileInv`: each field of the file is what the saved index had in it. With it and
  equal orders of writing and reading, `ReadBack` gives the saved index
  (`ReadWhatWasWritten`), and the invariant of the index comes back with it.

From it: `TypeCorrect`, `ListsAlwaysTile`, `BoundariesAlwaysFit`, `AlwaysUniform`,
`LoadAlwaysRestores` (an action property), `TableImplementsSet` (a refinement) and
`BracketAlwaysHolds`.

**Model-checked only.** Liveness (`AddEnds`, `SearchEnds`, `TuningEnds`) is beyond
the prover. Every invariant, action property and refinement that a run shows to hold is
also a theorem or a conjunct of one; what a run refutes holds in no theorem without
the assumption that rules the trace out. The two refinements of `NeighborList` are not composed into
one statement about slots and threads: `PathSeerBuild` has sets where `NeighborSlots` has
an array per list, and lets more sets fall off a full zone than the array does.

## 5. Not modelled, and why

- **The only-expanding construction**, beyond the boundaries it writes and its
  mode in the file: its search and its links (758-814, 1057-1105) are
  a second `PathSeerBuild` without dist-oriented zones. It has the same locks,
  phases and shared scalars, so the hazards of the interleaving are those already
  checked; a module of its own would come next.
- **Selectors** are pure predicates on ids; every filter is a choice in
  `HybridSearch`. The sleeping selectors and their calibration only take time.
- **Profiling**: how a cost is measured (the clock, the sampled ids). What is
  modelled is when a cost is measured, kept, forgotten and used.
- **Persistence**: the header, the storage index, and I/O errors that do not end
  the program. Fields that no operation changes after construction are left out.
- **Bencher**: which overhead is chosen, the logs, the datasets.
- **The baselines** (ACORN, NaviX, filtered HNSW and IVF, VBase) are other
  systems, compared with PathSeer by the evaluation; only how they mark visited
  vectors is in `VisitedTable`, as they share that class with PathSeer.
- **The rest of faiss**, which is vendored, and the scripts under `results/`. By
  lines this is nearly all of the repository: PathSeer itself is a few thousand
  lines of some 128 thousand, so the share of the whole that is mapped stays
  small however much of PathSeer is modelled.

Left to do: the search and the
links of the only-expanding construction as a module.
