---------------------------- MODULE RecallTuning ----------------------------
(***************************************************************************)
(* How benchmark/bencher/pathseer.hpp finds the efSearch that reaches a    *)
(* target recall, for each virtual overhead it tries:                      *)
(*   profile_virtual_overhead_bound   widen, bisect, test, per overhead    *)
(*   the sweep of eval_tput_recall    widen, then auto_batch_query         *)
(*   auto_batch_query                 bisect                               *)
(* Recall is counted in units of the least growth the loops ask for.  It   *)
(* need not grow with efSearch.  A search is deterministic unless it must  *)
(* measure the costs itself, so asking again for an end of the bracket     *)
(* gives what it gave before.                                              *)
(***************************************************************************)
EXTENDS Integers

CONSTANTS
  top_k,                   \* the first efSearch; a smaller one acts like it
  InitEfs,                 \* of eval_tput_recall: 2, or top_k in a comment
  MaxRecall,               \* 100 percent
  TargetRecall,            \* of the profiling
  TargetLower, TargetHigher, \* the targets of eval_tput_recall
  FixedHigher,             \* 19, the bracket of eval_dynamic_workload
  MinExp, MaxExp,          \* the ends of M_exp_search_params
  VOSteps,                 \* 10: into how many steps the overheads are cut
  Rounds                   \* 6: the entries of chosen_max_val

ASSUME TuningAssumption ==
  /\ top_k \in Nat \ {0, 1} /\ InitEfs \subseteq Nat /\ MaxRecall \in Nat
  /\ TargetRecall \in 0 .. MaxRecall
  /\ TargetLower \in 0 .. MaxRecall /\ TargetHigher \in TargetLower .. MaxRecall
  /\ FixedHigher \in Nat \ {0} /\ MinExp \in Nat /\ MaxExp \in Nat /\ MinExp <= MaxExp
  /\ VOSteps \in Nat \ {0} /\ Rounds \in Nat \ {0}

VARIABLES
  filter_time_ns, dist_comp_ns, \* the profiled costs, 0 for none
  phase,                   \* where the search for efSearch stands
  adaptive,                \* does the search use the profiled costs
  target,                  \* target_recall
  efSearch, prev_recall,   \* the widening loop
  low, high,               \* the bracket, -1 for an end not found
  atLow, atHigh,           \* what was last measured at its ends, -1 for nothing
  verified,                \* were both ends measured before the bisection
  recall_min_pos, recall_max_pos, \* -1: not measured by the bisection
  vo, round                \* the overhead on test; 0, or the round

costs   == <<filter_time_ns, dist_comp_ns>>
widening == <<efSearch, prev_recall>>
bracket == <<low, high, atLow, atHigh>>
measured == <<recall_min_pos, recall_max_pos>>
overheads == <<vo, round>>
tuningVars == <<costs, phase, adaptive, target, widening, bracket, verified,
                measured, overheads>>

min_VO == MinExp * filter_time_ns
max_VO == (MaxExp * (2 * filter_time_ns + dist_comp_ns)) \div 2
VO_delta == (max_VO - min_VO) \div VOSteps

Known == filter_time_ns > 0 /\ dist_comp_ns > 0
Deterministic == adaptive => Known

\* IndexPathSeer::search takes max(efSearch, k)
Width(ef) == IF ef >= top_k THEN ef ELSE top_k

\* the recalls a search with ef may give
Recalls(ef) ==
  IF Deterministic /\ atLow >= 0 /\ Width(ef) = Width(low) THEN {atLow}
  ELSE IF Deterministic /\ atHigh >= 0 /\ Width(ef) = Width(high) THEN {atHigh}
  ELSE 0 .. MaxRecall

-----------------------------------------------------------------------------
TuningInit ==
  /\ filter_time_ns = 0 /\ dist_comp_ns = 0
  /\ phase = "off" /\ adaptive = FALSE /\ target = 0
  /\ efSearch = 0 /\ prev_recall = 0 /\ verified = FALSE
  /\ low = -1 /\ high = -1 /\ atLow = -1 /\ atHigh = -1
  /\ recall_min_pos = -1 /\ recall_max_pos = -1 /\ vo = 0 /\ round = 0

ForgetCosts == filter_time_ns' = 0 /\ dist_comp_ns' = 0
ClearBracket == low' = -1 /\ high' = -1 /\ atLow' = -1 /\ atHigh' = -1
ClearMeasured == recall_min_pos' = -1 /\ recall_max_pos' = -1
Rest == /\ phase' = "off" /\ adaptive' = FALSE /\ target' = 0
        /\ efSearch' = 0 /\ prev_recall' = 0 /\ verified' = FALSE
        /\ ClearBracket /\ ClearMeasured /\ vo' = 0 /\ round' = 0

\* the loop of one overhead v starts with efSearch = top_k
ProbeFirst(v) ==
  /\ phase' = "probe" /\ vo' = v
  /\ efSearch' = top_k /\ prev_recall' = 0
  /\ ClearBracket /\ ClearMeasured /\ verified' = FALSE

\* once profile_ops_cost is through
StartTuning ==
  /\ phase = "profiled"
  /\ adaptive' = TRUE /\ target' = TargetRecall
  /\ ProbeFirst(min_VO) /\ round' = 1
  /\ UNCHANGED costs

\* Wrong: the rounds are not counted.
EndOfOverhead_SameRound ==
  \/ /\ vo + VO_delta <= max_VO
     /\ ProbeFirst(vo + VO_delta)
     /\ UNCHANGED <<adaptive, target, round>>
  \/ /\ vo + VO_delta > max_VO /\ round < Rounds
     /\ ProbeFirst(min_VO)
     /\ UNCHANGED <<adaptive, target, round>>
  \/ vo + VO_delta > max_VO /\ round = Rounds /\ Rest

\* the end of the loop body: the next overhead, the next round, or the end.
\* Which overhead was the best so far is left out.
EndOfOverhead ==
  \/ /\ vo + VO_delta <= max_VO
     /\ ProbeFirst(vo + VO_delta)
     /\ UNCHANGED <<adaptive, target, round>>
  \/ /\ vo + VO_delta > max_VO /\ round < Rounds
     /\ ProbeFirst(min_VO) /\ round' = round + 1
     /\ UNCHANGED <<adaptive, target>>
  \/ vo + VO_delta > max_VO /\ round = Rounds /\ Rest

\* on a bracket of which both ends were measured, or not
StartBisection(wereMeasured) ==
  /\ phase' = "bisect" /\ ClearMeasured /\ efSearch' = 0 /\ prev_recall' = 0
  /\ verified' = wereMeasured

\* one turn of `while(1)`: more than the target was reached
ProbeAbove ==
  /\ phase = "probe"
  /\ \E r \in Recalls(efSearch) :
       /\ r > prev_recall /\ r > target
       /\ high' = efSearch /\ atHigh' = r
  /\ \/ /\ low = -1                       \* the least efSearch is enough
        /\ phase' = "test"
        /\ UNCHANGED <<widening, measured, verified>>
     \/ low # -1 /\ StartBisection(TRUE)
  /\ UNCHANGED <<costs, adaptive, target, low, atLow, overheads>>

\* not more than the target: twice the efSearch
ProbeBelow ==
  /\ phase = "probe"
  /\ \E r \in Recalls(efSearch) :
       /\ r > prev_recall /\ r <= target
       /\ low' = efSearch /\ atLow' = r /\ prev_recall' = r
  /\ efSearch' = 2 * efSearch
  /\ UNCHANGED <<costs, phase, adaptive, target, high, atHigh, verified, measured,
                 overheads>>

\* the same, but it took time_limit_second: [EarlyStop]
ProbeTooLong ==
  /\ phase = "probe"
  /\ \E r \in Recalls(efSearch) : r > prev_recall /\ r <= target
  /\ EndOfOverhead
  /\ UNCHANGED costs

\* assert(false): no growth, or the bracket does not hold the target
Aborts ==
  \/ phase = "probe" /\ \E r \in Recalls(efSearch) : r <= prev_recall
  \/ phase = "choose" /\ ~(recall_min_pos <= target /\ target <= recall_max_pos)

\* Wrong: as in the usual bisection, the lower end goes past the middle.
Bisect_PastMid ==
  /\ phase = "bisect" /\ low + 1 < high
  /\ LET mid == (low + high) \div 2
     IN \E r \in Recalls(mid) :
          \/ /\ r <= target
             /\ low' = mid + 1 /\ atLow' = r /\ recall_min_pos' = r
             /\ UNCHANGED <<high, atHigh, recall_max_pos>>
          \/ /\ r > target
             /\ high' = mid /\ atHigh' = r /\ recall_max_pos' = r
             /\ UNCHANGED <<low, atLow, recall_min_pos>>
  /\ UNCHANGED <<costs, phase, adaptive, target, widening, verified, overheads>>

\* one turn of the bisection
Bisect ==
  /\ phase = "bisect" /\ low + 1 < high
  /\ LET mid == (low + high) \div 2
     IN \E r \in Recalls(mid) :
          \/ /\ r <= target
             /\ low' = mid /\ atLow' = r /\ recall_min_pos' = r
             /\ UNCHANGED <<high, atHigh, recall_max_pos>>
          \/ /\ r > target
             /\ high' = mid /\ atHigh' = r /\ recall_max_pos' = r
             /\ UNCHANGED <<low, atLow, recall_min_pos>>
  /\ UNCHANGED <<costs, phase, adaptive, target, widening, verified, overheads>>

\* the bisection is over; an end it did not measure is measured (again).  The
\* ends never meet, so max_efSearch++ never runs.
MeasureEnds ==
  /\ phase = "bisect" /\ low + 1 >= high /\ high # -1
  /\ \E lo \in Recalls(low), hi \in Recalls(high) :
       /\ recall_min_pos' = IF recall_min_pos = -1 THEN lo ELSE recall_min_pos
       /\ recall_max_pos' = IF recall_max_pos = -1 THEN hi ELSE recall_max_pos
  /\ phase' = "choose"
  /\ UNCHANGED <<costs, adaptive, target, widening, bracket, verified, overheads>>

\* the end nearer to the target; auto_batch_query returns it
Choose ==
  /\ phase = "choose" /\ recall_min_pos <= target /\ target <= recall_max_pos
  /\ \/ /\ round > 0
        /\ efSearch' = IF target - recall_min_pos <= recall_max_pos - target
                       THEN low ELSE high
        /\ phase' = "test"
        /\ UNCHANGED <<adaptive, target, prev_recall, bracket, verified, measured,
                       overheads>>
     \/ round = 0 /\ Rest
  /\ UNCHANGED costs

\* nr_test_times searches with that efSearch, whose time is averaged
Test ==
  /\ phase = "test"
  /\ EndOfOverhead
  /\ UNCHANGED costs
-----------------------------------------------------------------------------
\* eval_tput_recall: M_exp_search is fixed, so the costs are not used
StartSweep ==
  /\ phase = "off"
  /\ \E r \in 0 .. MaxRecall : prev_recall' = r
  /\ phase' = "sweep" /\ \E ef \in InitEfs : efSearch' = (3 * ef) \div 2
  /\ UNCHANGED <<costs, adaptive, target, bracket, verified, measured, overheads>>

\* Up to top_k, the search before was the same.
SweepRecalls == IF efSearch <= top_k THEN {prev_recall} ELSE 0 .. MaxRecall

\* one search of the sweep, which stops at 90, the higher target.  Its ends are
\* the closest to the targets so far.
Sweep ==
  /\ phase = "sweep"
  /\ \E r \in SweepRecalls :
       /\ \/ /\ r < TargetLower /\ r > (IF atLow >= 0 THEN atLow ELSE 0)
             /\ low' = efSearch /\ atLow' = r
             /\ UNCHANGED <<high, atHigh>>
          \/ /\ r >= TargetHigher /\ r < (IF atHigh >= 0 THEN atHigh ELSE MaxRecall)
             /\ high' = efSearch /\ atHigh' = r
             /\ UNCHANGED <<low, atLow>>
          \/ /\ ~(r < TargetLower /\ r > (IF atLow >= 0 THEN atLow ELSE 0))
             /\ ~(r >= TargetHigher /\ r < (IF atHigh >= 0 THEN atHigh ELSE MaxRecall))
             /\ UNCHANGED bracket
       /\ \/ /\ r < TargetHigher /\ r > prev_recall
             /\ prev_recall' = r /\ efSearch' = (3 * efSearch) \div 2
             /\ UNCHANGED <<phase, target, verified, measured>>
          \/ /\ r >= TargetHigher \/ r <= prev_recall
             /\ target' \in {TargetLower, TargetHigher}
             /\ StartBisection(atLow' >= 0 /\ atHigh' >= 0)
  /\ UNCHANGED <<costs, adaptive, overheads>>

\* auto_batch_query without an upper end gives up at once
NoUpperEnd ==
  /\ phase = "bisect" /\ high = -1
  /\ Rest /\ UNCHANGED costs

\* eval_dynamic_workload: auto_batch_query on a bracket nobody measured
QueryFixed ==
  /\ phase = "off"
  /\ low' = 0 /\ high' = FixedHigher /\ atLow' = -1 /\ atHigh' = -1
  /\ target' \in {TargetLower, TargetHigher} /\ adaptive' = TRUE
  /\ StartBisection(FALSE)
  /\ UNCHANGED <<costs, overheads>>
=============================================================================
