---------------------------- MODULE VisitedTable ----------------------------
(***************************************************************************)
(* VisitedTable of AuxIndexStructures.h: one byte per vector and a number  *)
(* per query, so that the marks of a query need not be cleared before the  *)
(* next.  A plain search marks a vector with visno.  A search with         *)
(* filter_opt marks it with visno when it passed the filter and with       *)
(* visno - 1 when it failed (get_and_set_member), and moves on by two.     *)
(***************************************************************************)
EXTENDS Integers

CONSTANTS
  Wrap,                    \* 250: visno starts over
  ByteSize                 \* 256: visited is a vector of uint8_t

\* advance_two_states meets Wrap exactly, starting from 2
ASSUME WrapAssumption ==
  /\ Wrap \in Nat /\ Wrap >= 4 /\ Wrap % 2 = 0
  /\ ByteSize \in Nat /\ Wrap <= ByteSize

VARIABLES
  visited, visno,
  twoStates,               \* is it a search with filter_opt
  passes                   \* the vectors the filter of this query accepts

tableVars == <<visited, visno, twoStates, passes>>

NoTable == visited = << >> /\ visno = 2 /\ twoStates = FALSE /\ passes = {}

\* VisitedTable vt(n), and the first query of the search.  With plain marks a
\* vector is only visited or not, and nothing depends on the filter.
NewTable(n) ==
  /\ visited' = [p \in 1 .. n |-> 0] /\ visno' = 2
  /\ twoStates' \in BOOLEAN
  /\ passes' \in (IF twoStates' THEN SUBSET (1 .. n) ELSE {1 .. n})

\* vt.get(p), then vt.set(p)
Visit(p) ==
  /\ ~twoStates /\ visited[p] # visno
  /\ visited' = [visited EXCEPT ![p] = visno % ByteSize]
  /\ UNCHANGED <<visno, twoStates, passes>>

\* get_and_set_member for a vector whose mark is of an earlier query; a newer
\* mark is the answer, and nothing changes
Evaluate(p) ==
  /\ twoStates /\ visited[p] < visno - 1
  /\ visited' = [visited EXCEPT
       ![p] = (IF p \in passes THEN visno ELSE visno - 1) % ByteSize]
  /\ UNCHANGED <<visno, twoStates, passes>>

\* Wrong: the marks of a query with filter_opt are left behind by one only.
NextQuery_ByOne ==
  LET next == visno + 1
  IN /\ visno' = IF next = Wrap THEN 1 ELSE next
     /\ visited' = IF next = Wrap THEN [p \in DOMAIN visited |-> 0] ELSE visited
     /\ passes' \in (IF twoStates THEN SUBSET DOMAIN visited ELSE {DOMAIN visited})
     /\ UNCHANGED twoStates

\* Wrong: visno starts over at 1 in both modes.
NextQuery_ToOne ==
  LET next == visno + (IF twoStates THEN 2 ELSE 1)
  IN /\ visno' = IF next # Wrap THEN next ELSE 1
     /\ visited' = IF next = Wrap THEN [p \in DOMAIN visited |-> 0] ELSE visited
     /\ passes' \in (IF twoStates THEN SUBSET DOMAIN visited ELSE {DOMAIN visited})
     /\ UNCHANGED twoStates

\* advance or advance_two_states, and the next query of the search
NextQuery ==
  LET next == visno + (IF twoStates THEN 2 ELSE 1)
  IN /\ visno' = IF next # Wrap THEN next ELSE IF twoStates THEN 2 ELSE 1
     /\ visited' = IF next = Wrap THEN [p \in DOMAIN visited |-> 0] ELSE visited
     /\ passes' \in (IF twoStates THEN SUBSET DOMAIN visited ELSE {DOMAIN visited})
     /\ UNCHANGED twoStates

DropTable == visited' = << >> /\ visno' = 2 /\ twoStates' = FALSE /\ passes' = {}

TableTypeOK ==
  /\ DOMAIN visited \subseteq Nat /\ \A p \in DOMAIN visited : visited[p] \in 0 .. Wrap - 1
  /\ visno \in 1 .. Wrap - 1 /\ twoStates \in BOOLEAN
  /\ passes \subseteq DOMAIN visited

\* what the marks say of this query
Verdict == [p \in DOMAIN visited |->
  IF visited[p] = visno THEN "pass"
  ELSE IF twoStates /\ visited[p] >= visno - 1 THEN "fail" ELSE "none"]

\* A table of bytes that is not cleared between queries still answers as one
\* that is: each vector is filtered once per query, by that query's filter.
Marks == INSTANCE VisitedSet WITH verdict <- Verdict
ImplementsVisitedSet == Marks!Spec
=============================================================================
