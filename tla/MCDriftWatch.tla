---------------------------- MODULE MCDriftWatch ----------------------------
EXTENDS DriftWatch, TLC

Symmetry == Permutations(Checkers) \union Permutations(Prints)
=============================================================================
