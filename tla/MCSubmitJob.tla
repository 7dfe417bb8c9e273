---------------------------- MODULE MCSubmitJob ----------------------------
(***************************************************************************)
(* SubmitJob for TLC: requests, keys and types are interchangeable.        *)
(***************************************************************************)
EXTENDS SubmitJob, TLC

Symmetry == Permutations(Requests) \cup Permutations(Keys)
                \cup Permutations(Types)
=============================================================================
