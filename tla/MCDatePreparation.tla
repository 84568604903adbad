-------------------------- MODULE MCDatePreparation --------------------------
EXTENDS DatePreparation, TLC
PrepSymmetry == Permutations(Attempts) \cup Permutations(Plans)
=============================================================================
