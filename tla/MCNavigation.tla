---------------------------- MODULE MCNavigation ----------------------------
EXTENDS Navigation, TLC

Symmetry == Permutations(Goals)
=============================================================================
