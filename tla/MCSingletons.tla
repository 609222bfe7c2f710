----------------------------- MODULE MCSingletons -----------------------------
(***************************************************************************)
(* A control plane of replicas that are all configured alike, for TLC.      *)
(***************************************************************************)
EXTENDS Singletons, TLC

Interchangeable == Permutations(Replicas)
===============================================================================
