---------------------------- MODULE MCResearchRun ----------------------------
(***************************************************************************)
(* Instances of ResearchRun for TLC.                                       *)
(***************************************************************************)
EXTENDS ResearchRun, TLC

CONSTANTS j1, j2, c1, c2, q1, q2, first

\* Both jobs were requested under one correlation id.
SameCorrelation == [j \in Job |-> first]

\* The second job runs with a lower ceiling.
Ceilings == [j \in Job |-> IF j = j1 THEN 3 ELSE 2]

Symmetry == Permutations(Command) \cup Permutations(Query)
=============================================================================
