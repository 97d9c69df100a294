---------------------------- MODULE MCDraftStage ----------------------------
(***************************************************************************)
(* Instances of DraftStage for TLC.                                        *)
(***************************************************************************)
EXTENDS DraftStage, TLC

CONSTANTS s1, s2, t1, t2, price, grant

\* Each brief is of another seed keyword.
OwnKeyword == (s1 :> price @@ s2 :> grant)

Symmetry == Permutations(Title)
=============================================================================
