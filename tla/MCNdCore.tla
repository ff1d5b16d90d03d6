------------------------------ MODULE MCNdCore ------------------------------
(* nd-core with one permit, a child under it and one without.              *)
EXTENDS NdCore, TLC

CONSTANTS p, q, r

MCPermitOf == p :> r @@ q :> NoPermit
MCCapacity == [high |-> 1, normal |-> 1, background |-> 1]
=============================================================================
