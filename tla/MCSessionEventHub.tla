------------------------ MODULE MCSessionEventHub ---------------------------
(* The hub with a reader, a prompt and rehydration over short sessions.    *)
EXTENDS SessionEventHub
=============================================================================
