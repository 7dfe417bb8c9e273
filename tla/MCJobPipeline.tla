--------------------------- MODULE MCJobPipeline ---------------------------
(***************************************************************************)
(* JobPipeline for TLC: the sets of model values of a cfg are symmetric.   *)
(***************************************************************************)
EXTENDS JobPipeline, TLC

Symmetry == Permutations(Jobs) \cup Permutations(Workers)
                \cup Permutations(Reapers)
=============================================================================
