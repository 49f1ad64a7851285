----------------------------- MODULE MCMakerSwaps -----------------------------
EXTENDS MakerSwaps, TLC

Symmetry == Permutations(Conns)
=============================================================================
