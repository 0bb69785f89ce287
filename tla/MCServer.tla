------------------------------ MODULE MCServer ------------------------------
EXTENDS Server, TLC

Symmetry == Permutations(Callers)
=============================================================================
