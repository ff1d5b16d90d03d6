-------------------------- MODULE MCEffectRecovery --------------------------
(* The desktop's integrations over the journal.                            *)
EXTENDS EffectRecovery
=============================================================================
