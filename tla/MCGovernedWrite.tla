--------------------------- MODULE MCGovernedWrite ---------------------------
(* Small instances of GovernedWrite: one plan, up to two handlers, runtime  *)
(* instances, attempts and epochs.  None of these sets is ordered by the    *)
(* specification, so the safety runs may permute them.                      *)
EXTENDS GovernedWrite, TLC

Symmetry ==
  Permutations(Calls) \cup Permutations(Procs) \cup Permutations(Attempts)
    \cup Permutations(Epochs)
=============================================================================
