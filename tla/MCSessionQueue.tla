---------------------------- MODULE MCSessionQueue ----------------------------
EXTENDS SessionQueue, TLC

PointerSymmetry == Permutations(Pointers)
=============================================================================
