---------------------------- MODULE MCPageSocket ----------------------------
EXTENDS PageSocket, TLC

Symmetry == Permutations(Chains)
=============================================================================
