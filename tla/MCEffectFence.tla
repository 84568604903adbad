---------------------------- MODULE MCEffectFence ----------------------------
(* A small realm for TLC: two epochs of two attempts each, one retained. *)
EXTENDS EffectFence, TLC

AttemptSymmetry == Permutations(Attempts)
=============================================================================
