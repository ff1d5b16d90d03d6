---------------------------- MODULE MCCoreClient ----------------------------
(* The core client with two interchangeable callers. *)
EXTENDS CoreClient, TLC

Symmetry == Permutations(Requests)
=============================================================================
