-------------------------- MODULE MCEffectJournal ---------------------------
(* The effect journal on a few keys, which are only compared for equality. *)
EXTENDS EffectJournal, TLC

Symmetry == Permutations(Keys)
=============================================================================
