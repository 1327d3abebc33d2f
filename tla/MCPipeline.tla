------------------------------ MODULE MCPipeline ------------------------------
EXTENDS Pipeline, TLC
MCSymmetry == Permutations(Threads) \cup Permutations(Tokens)
=============================================================================
