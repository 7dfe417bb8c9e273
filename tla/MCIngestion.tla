---------------------------- MODULE MCIngestion ----------------------------
(***************************************************************************)
(* Ingestion for TLC: requests, samples and pods are interchangeable.      *)
(***************************************************************************)
EXTENDS Ingestion, TLC

Symmetry == Permutations(Requests) \cup Permutations(Samples)
                \cup Permutations(Replicas)
=============================================================================
