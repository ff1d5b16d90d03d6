----------------------- MODULE MCExecutionCoordinator -----------------------
(* The coordinator with a few interchangeable dispatches. *)
EXTENDS ExecutionCoordinator, TLC

Symmetry == Permutations(Runs)
=============================================================================
