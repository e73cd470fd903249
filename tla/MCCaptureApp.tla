---------------------------- MODULE MCCaptureApp ----------------------------
EXTENDS CaptureApp, TLC
Symmetry == Permutations(StartCalls) \cup Permutations(StopCalls) \cup Permutations(Tasks)
=============================================================================
