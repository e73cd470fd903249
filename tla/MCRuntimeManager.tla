-------------------------- MODULE MCRuntimeManager --------------------------
EXTENDS RuntimeManager, TLC
Symmetry == Permutations(StartCalls) \cup Permutations(StopCalls) \cup Permutations(Tasks)
=============================================================================
