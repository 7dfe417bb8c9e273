---------------------------- MODULE MCDeviceJobs ----------------------------
(***************************************************************************)
(* DeviceJobs for TLC: jobs and workers are symmetric.                     *)
(***************************************************************************)
EXTENDS DeviceJobs, TLC

Symmetry == Permutations(Jobs) \cup Permutations(Workers)
=============================================================================
