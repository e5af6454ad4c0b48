--------------------------- MODULE MCStreamRouter ---------------------------
EXTENDS StreamRouter, TLC

MCSymmetry == Permutations(Symbols) \cup Permutations(Pairs)
=============================================================================
