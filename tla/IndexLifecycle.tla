--------------------------- MODULE IndexLifecycle ---------------------------
(***************************************************************************)
(* One PathSeer index through the programs of benchmark/, one after the    *)
(* other: build_persist_index builds it and writes it to a file, the       *)
(* profiler and the evaluation programs read it back and search it.  A     *)
(* program may end at any moment; only the file outlives it.  A library    *)
(* user may also read an index and add more points to it.                  *)
(*                                                                         *)
(* What is linked to what is PathSeerBuild's business; here a point only   *)
(* remembers under which settings its links were made.                     *)
(***************************************************************************)
EXTENDS LevelTable, VisitedTable, RecallTuning, FiniteSets

CONSTANTS
  MaxPoints,               \* bound: the points of an index
  BuildSettings,           \* what build_persist_index may ask for
  DefaultSettings,         \* what a new PathSeer has
  Fill,                    \* bound: the lengths a written dist zone may have
  CostValues,              \* bound: what profiling a cost may measure
  SampleShare              \* 100: one vector in so many is profiled

Settings == [efConstruction : Nat, efConstructionExp : Nat,
             use_only_expanding_idx : BOOLEAN, use_optimized_building : BOOLEAN]

ASSUME LifecycleAssumption ==
  /\ MaxPoints \in Nat
  /\ BuildSettings \subseteq Settings /\ DefaultSettings \in Settings
  /\ NotLinked \notin Settings
  /\ Fill \subseteq Nat /\ CostValues \subseteq Nat /\ SampleShare \in Nat \ {0}

VARIABLES
  program,                 \* which program runs, and whether it is saving
  index,                   \* the index in its memory
  file,                    \* the fields in the file, in order
  saved                    \* history: the index last given to write_index

lifeVars == <<program, index, file, saved>>
vars == <<lifeVars, tableVars, tuningVars>>

-----------------------------------------------------------------------------
(* The index in memory                                                      *)

\* new IndexPathSeerFlat
NewIndex ==
  [levels |-> << >>, offsets |-> <<0>>, nslots |-> 0, links |-> << >>,
   boundaries |-> << >>, offset_neighbor |-> <<0>>,
   ntotal |-> 0, nstored |-> 0, entry_point |-> 0, max_level |-> -1,
   efConstruction |-> DefaultSettings.efConstruction,
   efConstructionExp |-> DefaultSettings.efConstructionExp,
   use_only_expanding_idx |-> DefaultSettings.use_only_expanding_idx,
   use_optimized_building |-> DefaultSettings.use_optimized_building]

Chosen(t) == [efConstruction |-> t.efConstruction,
              efConstructionExp |-> t.efConstructionExp,
              use_only_expanding_idx |-> t.use_only_expanding_idx,
              use_optimized_building |-> t.use_optimized_building]

Linked(t) == {p \in DOMAIN t.links : t.links[p] # NotLinked}
Idle(t) == Len(t.levels) = Len(t.links) /\ Linked(t) = DOMAIN t.links

\* index->pathseer.efConstruction = ..., set_using_only_expanding_idx(...)
Configure(t, s) ==
  [t EXCEPT !.efConstruction = s.efConstruction,
            !.efConstructionExp = s.efConstructionExp,
            !.use_only_expanding_idx = s.use_only_expanding_idx,
            !.use_optimized_building = s.use_optimized_building]

\* the boundaries after p was linked into a graph of height t.max_level: those
\* of p and, through the reverse links, of any other list
Linkings(t, p) ==
  {b \in [DOMAIN t.boundaries -> Fill \cup {t.boundaries[i] : i \in DOMAIN t.boundaries}] :
     \A i \in DOMAIN t.boundaries :
       b[i] = t.boundaries[i] \/
       \E x \in Lists(t) : /\ i = BoundarySlot(t, x[1], x[2])
                           /\ x[1] \in Linked(t) \cup {p}
                           /\ x[2] <= t.max_level /\ x[2] < t.levels[p]
                           /\ b[i] \in Fill /\ b[i] <= DistCap(x[2])}

\* Wrong: the limit of level 0 for every level.
ExpandingBoundary_TwoM(t, p) ==
  set_neighbor_dist_boundary(t, p, t.max_level, 2 * M)

\* add_with_locks sets the boundary of level max_level, once per level, whether
\* or not p has that level
ExpandingBoundary(t, p) ==
  set_neighbor_dist_boundary(t, p, t.max_level, DistCap(t.max_level))

\* what add_with_locks makes of the index for p
Inserted(t, p) ==
  LET up == [t EXCEPT !.links[p] = Chosen(t),
                      !.entry_point = IF t.levels[p] - 1 > t.max_level THEN p ELSE @,
                      !.max_level = IF t.levels[p] - 1 > @ THEN t.levels[p] - 1 ELSE @]
  IN IF t.entry_point = 0 THEN {up}
     ELSE IF t.use_only_expanding_idx
     THEN {[up EXCEPT !.boundaries = ExpandingBoundary(t, p).boundaries]}
     ELSE {[up EXCEPT !.boundaries = b] : b \in Linkings(t, p)}

-----------------------------------------------------------------------------
(* The file                                                                 *)

\* the order of write_index and write_PathSeer.  A vector is its length and its
\* content: nslots is the length of `neighbors`, links its content.  Fields that
\* never change are left out.  The vectors themselves (storage) come last.
WriteOrder == <<"ntotal", "levels", "offsets", "nslots", "links", "boundaries",
                "offset_neighbor", "entry_point", "max_level", "efConstruction",
                "use_only_expanding_idx", "nstored">>

\* Wrong: two scalars are read in the other order.
ReadOrder_Swapped == <<"ntotal", "levels", "offsets", "nslots", "links", "boundaries",
               "offset_neighbor", "max_level", "entry_point", "efConstruction",
               "use_only_expanding_idx", "nstored">>

\* the order of read_index and read_PathSeer
ReadOrder == <<"ntotal", "levels", "offsets", "nslots", "links", "boundaries",
               "offset_neighbor", "entry_point", "max_level", "efConstruction",
               "use_only_expanding_idx", "nstored">>

\* Wrong: the mode that was read is not kept.
ReadBack_NoMode(f) == [x \in DOMAIN NewIndex |->
  IF x # "use_only_expanding_idx" /\ \E i \in DOMAIN ReadOrder : ReadOrder[i] = x
  THEN f[CHOOSE i \in DOMAIN ReadOrder : ReadOrder[i] = x] ELSE NewIndex[x]]

\* read_index into a new index: what is not in the file keeps its default
ReadBack(f) == [x \in DOMAIN NewIndex |->
  IF \E i \in DOMAIN ReadOrder : ReadOrder[i] = x
  THEN f[CHOOSE i \in DOMAIN ReadOrder : ReadOrder[i] = x] ELSE NewIndex[x]]

Complete == Len(file) = Len(WriteOrder)
-----------------------------------------------------------------------------
Init ==
  /\ program = "none" /\ index = NewIndex /\ file = << >> /\ saved = NewIndex
  /\ NoTable /\ TuningInit

ResetMemory == index' = NewIndex /\ DropTable /\ ForgetCosts /\ Rest

\* PathSeer_bencher::build
NewBuild ==
  /\ program = "none" /\ program' = "building"
  /\ \E s \in BuildSettings : index' = Configure(NewIndex, s)
  /\ UNCHANGED <<file, saved, tableVars, tuningVars>>

\* load_persist of the program k.  A file that is short throws, and the program
\* ends before it did anything.
Load(k) ==
  /\ program = "none" /\ Complete
  /\ program' = k /\ index' = ReadBack(file)
  /\ UNCHANGED <<file, saved, tableVars, tuningVars>>

\* IndexPathSeer::add: the levels of n new points.  prepare_level_tab asserts
\* that there are as many levels as ranges, which Idle includes.
StartAdd ==
  /\ program = "building" /\ Idle(index)
  /\ \E n \in 1 .. MaxPoints - Len(index.levels) :
       \E lv \in [1 .. n -> 1 .. TopLevel + 1] :
         index' = [DrawLevels(index, lv) EXCEPT !.nstored = @ + n, !.ntotal = index.nstored + n]
  /\ UNCHANGED <<program, file, saved, tableVars, tuningVars>>

PlaceNext ==
  /\ program = "building" /\ Len(index.links) < Len(index.levels)
  /\ index' = Place(index)
  /\ UNCHANGED <<program, file, saved, tableVars, tuningVars>>

\* add_with_locks, the tallest points first
LinkNext(p) ==
  /\ program = "building" /\ Len(index.links) = Len(index.levels)
  /\ p \in DOMAIN index.links \ Linked(index)
  /\ \A q \in DOMAIN index.links \ Linked(index) : index.levels[q] <= index.levels[p]
  /\ index' \in Inserted(index, p)
  /\ UNCHANGED <<program, file, saved, tableVars, tuningVars>>

\* IndexPathSeer::reset keeps the settings
Reset ==
  /\ program = "building" /\ Idle(index) /\ index.links # << >>
  /\ index' = Configure(NewIndex, Chosen(index))
  /\ UNCHANGED <<program, file, saved, tableVars, tuningVars>>

\* save_persist opens the file for writing, which empties it
StartSave ==
  /\ program = "building" /\ Idle(index) /\ index.links # << >>
  /\ program' = "saving" /\ saved' = index /\ file' = << >>
  /\ UNCHANGED <<index, tableVars, tuningVars>>

WriteField ==
  /\ program = "saving" /\ ~Complete
  /\ file' = Append(file, index[WriteOrder[Len(file) + 1]])
  /\ UNCHANGED <<program, index, saved, tableVars, tuningVars>>

\* the program ends: clear, an exception nobody catches, an assertion, a crash
End ==
  /\ program # "none" /\ program' = "none"
  /\ ResetMemory /\ UNCHANGED <<file, saved>>

\* profile_ops_cost, with which profile_virtual_overhead_bound starts: a cost
\* that is known is not measured again; so few vectors that none is sampled
\* divide by zero
Profile ==
  /\ program = "profiling" /\ phase = "off"
  /\ Len(index.levels) \div SampleShare > 0
  /\ filter_time_ns' \in (IF filter_time_ns = 0 THEN CostValues ELSE {filter_time_ns})
  /\ dist_comp_ns' \in (IF dist_comp_ns = 0 THEN CostValues ELSE {dist_comp_ns})
  /\ phase' = "profiled"
  /\ UNCHANGED <<lifeVars, tableVars, adaptive, target, widening, bracket, verified,
                 measured, overheads>>

TuningStep ==
  \/ ProbeAbove \/ ProbeBelow \/ ProbeTooLong \/ Bisect \/ MeasureEnds \/ Choose
  \/ Test \/ Sweep \/ NoUpperEnd

Tuning ==
  /\ \/ StartTuning
     \/ program = "evaluating" /\ visited = << >> /\ (StartSweep \/ QueryFixed)
     \/ TuningStep
  /\ UNCHANGED <<lifeVars, tableVars>>

\* assert(false) in the tuning
Abort == Aborts /\ End

\* VisitedTable vt(ntotal): a call of search
StartSearch ==
  /\ program = "evaluating" /\ phase = "off" /\ visited = << >>
  /\ NewTable(index.ntotal) /\ ~twoStates'
  /\ UNCHANGED <<lifeVars, tuningVars>>

\* the evaluation of ACORN, with an index of its own and filter_opt
StartAcorn ==
  /\ program = "none" /\ program' = "acorn"
  /\ NewTable(MaxPoints) /\ twoStates'
  /\ UNCHANGED <<index, file, saved, tuningVars>>

Searching ==
  /\ \/ \E p \in DOMAIN visited : Visit(p) \/ Evaluate(p)
     \/ visited # << >> /\ (NextQuery \/ DropTable)
  /\ UNCHANGED <<lifeVars, tuningVars>>

Next ==
  \/ NewBuild \/ StartAdd \/ PlaceNext \/ Reset \/ StartSave \/ WriteField \/ End
  \/ \E k \in {"building", "profiling", "evaluating"} : Load(k)
  \/ \E p \in 1 .. MaxPoints : LinkNext(p)
  \/ Profile \/ Tuning \/ Abort \/ StartSearch \/ StartAcorn \/ Searching

Spec == Init /\ [][Next]_vars

\* the tuning is a loop of its program, and every search in it returns
FairSpec == Spec /\ WF_vars((Tuning /\ phase # "off") \/ Abort)

-----------------------------------------------------------------------------
(* Properties                                                               *)

TypeOK ==
  /\ program \in {"none", "building", "saving", "profiling", "evaluating", "acorn"}
  /\ \A t \in {index, saved} :
       /\ DOMAIN t = DOMAIN NewIndex
       /\ t.levels \in Seq(1 .. TopLevel + 1) /\ Len(t.levels) <= MaxPoints
       /\ t.offsets \in Seq(Nat) /\ t.offset_neighbor \in Seq(Nat) /\ t.nslots \in Nat
       /\ t.links \in Seq(Settings \cup {NotLinked})
       /\ t.boundaries \in [DOMAIN t.boundaries -> Nat]
       /\ t.ntotal \in Nat /\ t.nstored \in Nat
       /\ t.entry_point \in 0 .. MaxPoints /\ t.max_level \in -1 .. TopLevel
       /\ Chosen(t) \in Settings
  /\ Len(file) <= Len(WriteOrder)
  /\ TableTypeOK
  /\ filter_time_ns \in Nat /\ dist_comp_ns \in Nat
  /\ phase \in {"off", "profiled", "probe", "bisect", "choose", "test", "sweep"}
  /\ adaptive \in BOOLEAN /\ verified \in BOOLEAN
  /\ target \in 0 .. MaxRecall /\ prev_recall \in 0 .. MaxRecall /\ efSearch \in Int
  /\ low \in Int /\ high \in Int
  /\ {atLow, atHigh, recall_min_pos, recall_max_pos} \subseteq -1 .. MaxRecall
  /\ vo \in Nat /\ round \in 0 .. Rounds

\* The lists cover the arrays without a gap or an overlap, and the tables agree
\* on how many points there are, whatever was added, reset, saved and loaded in
\* whatever order: neighbor_range of one point never reaches into another's, and
\* the assertion of prepare_level_tab does not fire.
ListsTile ==
  /\ Tiles(index)
  /\ Len(index.links) = Len(index.offsets) - 1
  /\ Len(index.links) <= Len(index.levels)
  /\ index.ntotal = Len(index.levels) /\ index.nstored = index.ntotal
  /\ program # "building" => Idle(index)

\* The dist-oriented zone that a boundary announces lies within its list, though
\* the only-expanding mode sets the boundary of another list or of none.
BoundariesFit == Fits(index)

\* A graph that is read back and added to goes on in the mode and the width it
\* was built with: no two of its points were linked in different ones.  The
\* width of the extending links, which no file holds, is left out.
GraphUniform == \A p \in Linked(index) :
  /\ index.links[p].efConstruction = index.efConstruction
  /\ index.links[p].use_only_expanding_idx = index.use_only_expanding_idx

\* What a program reads is the index last saved, whole, and nothing of a save
\* that a crash cut short; only what the file does not hold is at its default.
LoadRestores == [][\A k \in {"building", "profiling", "evaluating"} : Load(k) =>
  index' = [saved EXCEPT !.efConstructionExp = DefaultSettings.efConstructionExp,
              !.use_optimized_building = DefaultSettings.use_optimized_building]]_vars

\* When both ends of the bracket were measured, and the searches do not depend
\* on the clock, the assertion after the bisection holds, and the ends are one
\* apart: the nearer of them is the best there is.
BracketHolds == phase = "choose" /\ verified /\ Deterministic =>
  /\ recall_min_pos <= target /\ target <= recall_max_pos
  /\ high = low + 1 /\ recall_min_pos = atLow /\ recall_max_pos = atHigh

\* the loop over the overheads that adds nothing to vo
Endless == (round > 0 \/ phase = "profiled") /\ VO_delta <= 0

\* The tuning ends, unless the overheads to try are all the same.
TuningEnds == (phase # "off" /\ ~Endless) ~> (phase = "off")
=============================================================================
