-------------------------- MODULE MCNativeEffects --------------------------
(* Small instances of NativeEffects.  Calls, processes and epochs are not    *)
(* ordered by the specification, so the safety runs may permute them.       *)
EXTENDS NativeEffects, TLC

Symmetry ==
  Permutations(Calls) \cup Permutations(Procs) \cup Permutations(Epochs)
=============================================================================
