---------------------------- MODULE MCScheduler ----------------------------
(* The scheduler on small sets of ids, pools and sessions that are only    *)
(* compared for equality, hence interchangeable.                           *)
EXTENDS Scheduler, TLC

Symmetry == Permutations(PermitIds) \cup Permutations(Pools)
============================================================================
