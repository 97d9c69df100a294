--------------------------- MODULE MCPublication ----------------------------
(***************************************************************************)
(* Instances of Publication for TLC.                                       *)
(***************************************************************************)
EXTENDS Publication, TLC

CONSTANTS d1, d2, r1, r2, ann, bob

\* The renders of a draft are interchangeable.
Symmetry == Permutations(Render)
=============================================================================
