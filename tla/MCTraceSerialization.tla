------------------------- MODULE MCTraceSerialization -------------------------
EXTENDS TraceSerialization, TLC
MCSymmetry == Permutations(Threads) \cup Permutations(Tokens)
=============================================================================
