------------------------- MODULE MCTranscriptSession -------------------------
(* Scenes for TLC: long sessions with few kinds of faults, short ones with *)
(* all of them, and a user who copies and clears.                          *)
EXTENDS TranscriptSession

Scene(n, begun, audio, time, copies, events) ==
  [workers |-> n, segments |-> begun, fed |-> audio, now |-> time, copies |-> copies,
   events |-> events]

Recoveries == Scene(3, 3, 2, 3, 0, {"idle fault", "interim fault", "stop"})
SlowWorkers ==
  Scene(2, 2, 2, 2, 0, {"idle fault", "interim fault", "slow worker", "stop"})
CopyAndClear == Scene(1, 3, 4, 0, 2, {"clear"})
ClearAndRecover == Scene(2, 2, 2, 2, 1, {"idle fault", "clear", "stop"})

AllScenes == {Recoveries, SlowWorkers, CopyAndClear, ClearAndRecover}
RefusedFinal == {Scene(2, 3, 3, 1, 0, {"interim fault"})}
LateFinal == {Scene(2, 3, 2, 1, 0, {"idle fault", "slow worker"})}
StoppedFinal == {Scene(1, 3, 2, 0, 0, {"stop"})}
ClearedFinal == {Scene(1, 3, 2, 0, 0, {"clear"})}
=============================================================================
