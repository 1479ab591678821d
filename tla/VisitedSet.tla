----------------------------- MODULE VisitedSet -----------------------------
(***************************************************************************)
(* What VisitedTable promises: per query, a verdict on each vector, formed *)
(* at most once, by the filter of that query, and forgotten with it.       *)
(***************************************************************************)
VARIABLES
  verdict,                 \* "none", "fail" or "pass" per vector
  passes                   \* the vectors that pass the filter of the query

NothingSeen == verdict = [p \in DOMAIN verdict |-> "none"]

Init == NothingSeen /\ passes = {}

\* the next query, of this search or of another
Begin == NothingSeen' /\ passes' \subseteq DOMAIN verdict'

Look(p) ==
  /\ verdict[p] = "none"
  /\ verdict' = [verdict EXCEPT ![p] = IF p \in passes THEN "pass" ELSE "fail"]
  /\ UNCHANGED passes

Next == Begin \/ \E p \in DOMAIN verdict : Look(p)

Spec == Init /\ [][Next]_<<verdict, passes>>
=============================================================================
