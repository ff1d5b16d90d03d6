--------------------------- MODULE MCRunLifecycle ---------------------------
(* The runs of one task on a small number of attempts. *)
EXTENDS RunLifecycle
=============================================================================
