------------------------- MODULE MCTaskIntegration --------------------------
(* Three tasks, two of which conflict.                                     *)
EXTENDS TaskIntegration

CONSTANTS t1, t2, t3

MCClash == {{t1, t2}}
=============================================================================
