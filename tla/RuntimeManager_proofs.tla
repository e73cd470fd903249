------------------------ MODULE RuntimeManager_proofs ------------------------
(***************************************************************************)
(* Theorems about RuntimeManager, for any number of commands, handlers and *)
(* recovery attempts and every attempt budget: types, who closes which     *)
(* pipeline, the recovery attempts charged to a source, that nothing       *)
(* leaks, and that the manager implements PipelineOwnership.               *)
(***************************************************************************)
EXTENDS RuntimeManager, FiniteSetTheorems, TLAPS

(* A pipeline a call or an attempt would open is one of Pipes.             *)
LEMMA PipesOpened ==
  /\ \A c \in StartCalls, s \in Sources : StartPipe(c, s) \in Pipes
  /\ \A t \in Tasks : TypeOK => TaskPipe(t) \in Pipes
BY DEF Pipes, Openers, StartPipe, TaskPipe, TypeOK

(* The two sources there are                                               *)
LEMMA SourcesKnown == "microphone" \in Sources /\ "system" \in Sources
BY DEF Sources

(* The attempts charged after an outage stay within the budget.            *)
LEMMA AttemptsBounded ==
  ASSUME TypeOK, NEW s \in Sources
  PROVE  /\ AttemptsBase(s) \in 0..MaxAttempts
         /\ AttemptLeft(s) => AttemptsBase(s) + 1 \in 0..MaxAttempts
BY ConstantAssumption DEF TypeOK, AttemptsBase, AttemptLeft

(* Slots hold pipelines.                                                   *)
LEMMA SlotsHoldPipes == TypeOK => InSlots \subseteq Pipes
BY DEF TypeOK, InSlots

(* What the session variables are after the session was emptied or a new   *)
(* one installed                                                           *)
LEMMA SessionTyped ==
  ASSUME TypeOK, \/ EmptySession
                 \/ \E c \in StartCalls : StartInstall(c)
  PROVE  /\ open' \in BOOLEAN
         /\ slot' \in [Sources -> Pipes \cup {NoPipe}]
         /\ used' \in [Sources -> 0..MaxAttempts]
         /\ health' \in [Sources -> {"unset", "young", "aged"}]
         /\ micRequested' \in BOOLEAN
<1>1. 0 \in 0..MaxAttempts
  BY ConstantAssumption
<1>2. CASE EmptySession
  BY <1>1, <1>2 DEF EmptySession
<1>3. CASE \E c \in StartCalls : StartInstall(c)
  BY <1>1, <1>3, PipesOpened DEF StartInstall
<1> QED
  BY <1>2, <1>3

(* Marking a set of pipelines keeps the table of pipelines well typed.     *)
LEMMA PipeTyped ==
  ASSUME TypeOK, NEW P, NEW life \in {"none", "live", "dropped", "abandoned", "released"},
         SetPipes(P, life)
  PROVE  pipe' \in [Pipes -> {"none", "live", "dropped", "abandoned", "released"}]
BY DEF TypeOK, SetPipes

(* Type correctness; in particular no source ever uses more recovery       *)
(* attempts than its budget.                                               *)
THEOREM TypeCorrect == Spec => []TypeOK
<1>1. Init => TypeOK
  <2> SUFFICES ASSUME Init
               PROVE  TypeOK
    OBVIOUS
  <2>1. /\ generation \in Nat
        /\ capture \in CaptureStatuses
        /\ source \in [Sources -> SourceStatuses]
    BY DEF Init, CaptureStatuses, SourceStatuses
  <2>2. /\ open \in BOOLEAN /\ micRequested \in BOOLEAN
        /\ slot \in [Sources -> Pipes \cup {NoPipe}]
        /\ used \in [Sources -> 0..MaxAttempts]
        /\ health \in [Sources -> {"unset", "young", "aged"}]
    <3>1. 0 \in 0..MaxAttempts
      BY ConstantAssumption
    <3> QED
      BY <3>1 DEF Init
  <2>3. /\ pipe \in [Pipes -> {"none", "live", "dropped", "abandoned", "released"}]
        /\ raised \in [Pipes -> SUBSET {"monitor", "worker"}]
        /\ signal \in [Pipes -> {"none", "checked", "marked", "done"}]
    BY DEF Init
  <2>4. /\ startPc \in [StartCalls -> StartPcs]
        /\ startGen \in [StartCalls -> Nat]
        /\ startReq \in [StartCalls -> SUBSET Sources]
        /\ startErr \in [StartCalls -> Sources]
        /\ startDone \in [StartCalls -> BOOLEAN]
        /\ startDog \in [StartCalls -> DogPcs]
    BY SourcesKnown DEF Init, StartPcs, DogPcs
  <2>5. /\ stopPc \in [StopCalls -> StopPcs]
        /\ stopGen \in [StopCalls -> Nat]
        /\ stopHeld \in [StopCalls -> SUBSET Pipes]
        /\ stopDone \in [StopCalls -> BOOLEAN]
        /\ stopDog \in [StopCalls -> DogPcs]
    BY DEF Init, StopPcs, DogPcs
  <2>6. /\ taskPc \in [Tasks -> TaskPcs]
        /\ taskSrc \in [Tasks -> Sources]
        /\ taskGen \in [Tasks -> Nat]
        /\ taskFrom \in [Tasks -> Pipes \cup {NoPipe}]
        /\ taskRetry \in [Tasks -> BOOLEAN]
        /\ shutPc \in {"new", "take", "dropping", "done"}
    BY SourcesKnown DEF Init, TaskPcs
  <2> QED
    BY <2>1, <2>2, <2>3, <2>4, <2>5, <2>6 DEF TypeOK
<1>2. TypeOK /\ [Next]_vars => TypeOK'
  <2> SUFFICES ASSUME TypeOK, [Next]_vars
               PROVE  TypeOK'
    OBVIOUS
  <2> USE DEF TypeOK, stateVars, sessionVars, pipeVars, startVars, stopVars, taskVars
  <2>1. ASSUME NEW c \in StartCalls, NEW req \in Requests,
               StartRejected(c, req) \/ StartBegin(c, req)
        PROVE  TypeOK'
    BY <2>1, ConstantAssumption
    DEF StartRejected, StartBegin, GoStart, StartPcs, CaptureStatuses, SourceStatuses
  <2>2. ASSUME NEW c \in StopCalls, StopBegin(c)
        PROVE  TypeOK'
    BY <2>2 DEF StopBegin, GoStop, StopPcs
  <2>3. ASSUME NEW c \in StartCalls, StartModelFails(c)
        PROVE  TypeOK'
    BY <2>3, SourcesKnown DEF StartModelFails, GoStart, StartPcs
  <2>4. ASSUME NEW c \in StartCalls, StartModelReady(c)
        PROVE  TypeOK'
    BY <2>4 DEF StartModelReady, GoStart, StartPcs, DogPcs
  <2>5. ASSUME NEW c \in StartCalls, StartMicFails(c)
        PROVE  TypeOK'
    BY <2>5, SourcesKnown DEF StartMicFails, GoStart, StartPcs
  <2>6. ASSUME NEW c \in StartCalls, StartMicOpens(c)
        PROVE  TypeOK'
    <3>1. pipe' \in [Pipes -> {"none", "live", "dropped", "abandoned", "released"}]
      BY <2>6, PipeTyped DEF StartMicOpens
    <3>2. startPc' \in [StartCalls -> StartPcs] /\ startDone' \in [StartCalls -> BOOLEAN]
      BY <2>6, ZenonT(40) DEF StartMicOpens, GoStart, StartPcs
    <3> QED
      BY <2>6, <3>1, <3>2 DEF StartMicOpens
  <2>7. ASSUME NEW c \in StartCalls, StartSysFails(c)
        PROVE  TypeOK'
    BY <2>7, SourcesKnown DEF StartSysFails, GoStart, StartPcs, SetPipes
  <2>8. ASSUME NEW c \in StartCalls, StartSysOpens(c)
        PROVE  TypeOK'
    BY <2>8 DEF StartSysOpens, GoStart, StartPcs, SetPipes
  <2>9. ASSUME NEW c \in StartCalls, StartMicDone(c)
        PROVE  TypeOK'
    BY <2>9 DEF StartMicDone, GoStart, StartPcs
  <2>10. ASSUME NEW c \in StartCalls, StartCheck(c)
        PROVE  TypeOK'
    BY <2>10 DEF StartCheck, GoStart, StartPcs, SetPipes
  <2>11. ASSUME NEW c \in StartCalls, StartInstall(c)
        PROVE  TypeOK'
    <3>1. pipe' \in [Pipes -> {"none", "live", "dropped", "abandoned", "released"}]
      BY <2>11, PipeTyped DEF StartInstall
    <3>2. startPc' \in [StartCalls -> StartPcs]
      BY <2>11 DEF StartInstall, GoStart, StartPcs
    <3> QED
      BY <2>11, <3>1, <3>2, SessionTyped DEF StartInstall
  <2>12. ASSUME NEW c \in StartCalls, StartDropped(c)
        PROVE  TypeOK'
    BY <2>12 DEF StartDropped, GoStart, StartPcs, SetPipes
  <2>13. ASSUME NEW c \in StartCalls, StartCommit(c)
        PROVE  TypeOK'
    BY <2>13 DEF StartCommit, GoStart, StartPcs, CaptureStatuses, SourceStatuses
  <2>14. ASSUME NEW c \in StartCalls, StartFailCheck(c)
        PROVE  TypeOK'
    BY <2>14 DEF StartFailCheck, GoStart, StartPcs
  <2>15. ASSUME NEW c \in StartCalls, StartFailApply(c)
        PROVE  TypeOK'
    BY <2>15 DEF StartFailApply, GoStart, StartPcs, CaptureStatuses, SourceStatuses
  <2>16. ASSUME NEW c \in StartCalls, StartDogExpires(c)
        PROVE  TypeOK'
    BY <2>16 DEF StartDogExpires, DogPcs
  <2>17. ASSUME NEW c \in StartCalls, StartDogExchanges(c)
        PROVE  TypeOK'
    BY <2>17 DEF StartDogExchanges, DogPcs
  <2>18. ASSUME NEW c \in StartCalls, StartDogCommits(c)
        PROVE  TypeOK'
    BY <2>18, SourcesKnown DEF StartDogCommits, DogPcs, CaptureStatuses, SourceStatuses
  <2>19. ASSUME NEW c \in StopCalls, StopLook(c)
        PROVE  TypeOK'
    BY <2>19 DEF StopLook, GoStop, StopPcs
  <2>20. ASSUME NEW c \in StopCalls, StopTake(c)
        PROVE  TypeOK'
    BY <2>20, SlotsHoldPipes, SessionTyped DEF StopTake, GoStop, StopPcs
  <2>21. ASSUME NEW c \in StopCalls, StopApply(c)
        PROVE  TypeOK'
    BY <2>21 DEF StopApply, GoStop, StopPcs, DogPcs, CaptureStatuses
  <2>22. ASSUME NEW c \in StopCalls, StopCheck(c)
        PROVE  TypeOK'
    BY <2>22 DEF StopCheck, GoStop, StopPcs
  <2>23. ASSUME NEW c \in StopCalls, StopCommit(c)
        PROVE  TypeOK'
    BY <2>23 DEF StopCommit, GoStop, StopPcs, CaptureStatuses, SourceStatuses
  <2>24. ASSUME NEW c \in StopCalls, StopJoined(c)
        PROVE  TypeOK'
    BY <2>24 DEF StopJoined, GoStop, StopPcs, SetPipes
  <2>25. ASSUME NEW c \in StopCalls, StopDogExpires(c)
        PROVE  TypeOK'
    BY <2>25 DEF StopDogExpires, DogPcs
  <2>26. ASSUME NEW c \in StopCalls, StopDogCommits(c)
        PROVE  TypeOK'
    BY <2>26 DEF StopDogCommits, DogPcs, CaptureStatuses
  <2>27. ASSUME NEW t \in Tasks, TaskCheck(t)
        PROVE  TypeOK'
    BY <2>27 DEF TaskCheck, GoTask, TaskPcs
  <2>28. ASSUME NEW t \in Tasks, TaskSession(t)
        PROVE  TypeOK'
    <3>1. taskSrc[t] \in Sources
      OBVIOUS
    <3>2. pipe' \in [Pipes -> {"none", "live", "dropped", "abandoned", "released"}]
      BY <2>28, PipeTyped DEF TaskSession
    <3>5. /\ slot' \in [Sources -> Pipes \cup {NoPipe}]
          /\ health' \in [Sources -> {"unset", "young", "aged"}]
      BY <2>28, <3>1 DEF TaskSession
    <3>6. UNCHANGED <<open, micRequested>>
      BY <2>28 DEF TaskSession
    <3>3. used' \in [Sources -> 0..MaxAttempts]
      BY <2>28, <3>1, AttemptsBounded DEF TaskSession
    <3>4. /\ taskPc' \in [Tasks -> TaskPcs]
          /\ taskFrom' \in [Tasks -> Pipes \cup {NoPipe}]
      BY <2>28 DEF TaskSession, GoTask, TaskPcs
    <3>7. UNCHANGED <<generation, stateVars, raised, signal, startVars, stopVars,
                      taskSrc, taskGen, taskRetry, shutPc>>
      BY <2>28 DEF TaskSession
    <3> QED
      BY <3>2, <3>3, <3>4, <3>5, <3>6, <3>7
  <2>29. ASSUME NEW t \in Tasks, TaskStatus(t)
        PROVE  TypeOK'
    BY <2>29 DEF TaskStatus, GoTask, TaskPcs, SourceStatuses
  <2>30. ASSUME NEW t \in Tasks, TaskTerminal(t)
        PROVE  TypeOK'
    BY <2>30 DEF TaskTerminal, GoTask, TaskPcs
  <2>31. ASSUME NEW t \in Tasks, TaskSurvey(t)
        PROVE  TypeOK'
    BY <2>31 DEF TaskSurvey, GoTask, TaskPcs, CaptureStatuses, SourceStatuses
  <2>32. ASSUME NEW t \in Tasks, TaskBackoff(t)
        PROVE  TypeOK'
    BY <2>32 DEF TaskBackoff, GoTask, TaskPcs
  <2>33. ASSUME NEW t \in Tasks, TaskContext(t)
        PROVE  TypeOK'
    BY <2>33 DEF TaskContext, GoTask, TaskPcs
  <2>34. ASSUME NEW t \in Tasks, TaskRestartOpens(t)
        PROVE  TypeOK'
    <3>1. pipe' \in [Pipes -> {"none", "live", "dropped", "abandoned", "released"}]
      BY <2>34, PipeTyped DEF TaskRestartOpens
    <3>2. taskPc' \in [Tasks -> TaskPcs] /\ taskFrom' \in [Tasks -> Pipes \cup {NoPipe}]
      BY <2>34 DEF TaskRestartOpens, GoTask, TaskPcs
    <3> QED
      BY <2>34, <3>1, <3>2 DEF TaskRestartOpens
  <2>35. ASSUME NEW t \in Tasks, TaskPanics(t)
        PROVE  TypeOK'
    BY <2>35 DEF TaskPanics, GoTask, TaskPcs
  <2>36. ASSUME NEW t \in Tasks, TaskPanicCheck(t)
        PROVE  TypeOK'
    BY <2>36 DEF TaskPanicCheck, GoTask, TaskPcs
  <2>37. ASSUME NEW t \in Tasks, TaskOpened(t)
        PROVE  TypeOK'
    <3>1. pipe' \in [Pipes -> {"none", "live", "dropped", "abandoned", "released"}]
      BY <2>37, PipeTyped DEF TaskOpened
    <3>2. taskPc' \in [Tasks -> TaskPcs] /\ taskFrom' \in [Tasks -> Pipes \cup {NoPipe}]
      BY <2>37 DEF TaskOpened, GoTask, TaskPcs
    <3> QED
      BY <2>37, <3>1, <3>2 DEF TaskOpened
  <2>38. ASSUME NEW t \in Tasks, TaskInstall(t)
        PROVE  TypeOK'
    <3>1. slot' \in [Sources -> Pipes \cup {NoPipe}]
      <4>1. TaskPipe(t) \in Pipes
        BY PipesOpened
      <4>2. \/ UNCHANGED slot
            \/ slot' = [slot EXCEPT ![taskSrc[t]] = TaskPipe(t)]
        BY <2>38 DEF TaskInstall
      <4> QED
        BY <4>1, <4>2
    <3>2. pipe' \in [Pipes -> {"none", "live", "dropped", "abandoned", "released"}]
      BY <2>38, PipeTyped DEF TaskInstall
    <3>3. /\ taskPc' \in [Tasks -> TaskPcs]
          /\ taskFrom' \in [Tasks -> Pipes \cup {NoPipe}]
      BY <2>38 DEF TaskInstall, GoTask, TaskPcs
    <3> QED
      BY <2>38, <3>1, <3>2, <3>3 DEF TaskInstall
  <2>39. ASSUME NEW t \in Tasks, TaskDropped(t)
        PROVE  TypeOK'
    BY <2>39 DEF TaskDropped, GoTask, TaskPcs, SetPipes
  <2>40. ASSUME NEW t \in Tasks, TaskResumed(t)
        PROVE  TypeOK'
    BY <2>40 DEF TaskResumed, GoTask, TaskPcs, SourceStatuses
  <2>41. ASSUME NEW p \in Pipes, SignalCheck(p)
        PROVE  TypeOK'
    BY <2>41 DEF SignalCheck
  <2>42. ASSUME NEW p \in Pipes, SignalMark(p)
        PROVE  TypeOK'
    BY <2>42 DEF SignalMark, SourceStatuses, Pipes
  <2>43. ASSUME NEW p \in Pipes, SignalHealth(p)
        PROVE  TypeOK'
    BY <2>43 DEF SignalHealth, Pipes
  <2>44. ASSUME NEW p \in Pipes, AbandonJoined(p)
        PROVE  TypeOK'
    BY <2>44 DEF AbandonJoined, SetPipes
  <2>45. ASSUME NEW t \in Tasks, NEW retry \in BOOLEAN, TaskRestartFails(t, retry)
        PROVE  TypeOK'
    BY <2>45 DEF TaskRestartFails, GoTask, TaskPcs
  <2>46. ASSUME NEW p \in Pipes, NEW thread \in {"monitor", "worker"},
               NEW retry \in BOOLEAN, NEW t \in Tasks, Raise(p, thread, retry, t)
        PROVE  TypeOK'
    <3>1. PipeGen(p) \in Nat /\ p[2] \in Sources
      BY DEF PipeGen, Pipes, Openers
    <3>2. /\ raised' \in [Pipes -> SUBSET {"monitor", "worker"}]
          /\ taskPc' \in [Tasks -> TaskPcs]
          /\ taskSrc' \in [Tasks -> Sources]
          /\ taskGen' \in [Tasks -> Nat]
          /\ taskFrom' \in [Tasks -> Pipes \cup {NoPipe}]
          /\ taskRetry' \in [Tasks -> BOOLEAN]
      BY <2>46, <3>1 DEF Raise, TaskPcs
    <3> QED
      BY <2>46, <3>2 DEF Raise
  <2>47. CASE ShutdownBegin
    BY <2>47, ConstantAssumption DEF ShutdownBegin
  <2>48. CASE ShutdownTake
    BY <2>48, SessionTyped, PipeTyped DEF ShutdownTake
  <2>49. CASE ShutdownJoined
    BY <2>49, ConstantAssumption DEF ShutdownJoined, SetPipes
  <2>50. ASSUME NEW s \in Sources, HealthAges(s)
        PROVE  TypeOK'
    BY <2>50 DEF HealthAges
  <2>51. ASSUME NEW found \in BOOLEAN, ListMicrophones(found)
        PROVE  TypeOK'
    BY <2>51, SourcesKnown DEF ListMicrophones, SourceStatuses
  <2>52. CASE UNCHANGED vars
    BY <2>52 DEF vars
  <2>53. ASSUME NEW c \in StartCalls, StartStep(c) \/ StartDogStep(c)
        PROVE  TypeOK'
    BY <2>3, <2>4, <2>5, <2>6, <2>7, <2>8, <2>9, <2>10, <2>11, <2>12, <2>13,
       <2>14, <2>15, <2>16, <2>17, <2>18, <2>53
    DEF StartStep, StartModelReturns, StartMicReturns, StartSysReturns,
        StartThread, StartDogStep
  <2>54. ASSUME NEW c \in StopCalls, StopStep(c) \/ StopDogStep(c)
        PROVE  TypeOK'
    BY <2>19, <2>20, <2>21, <2>22, <2>23, <2>24, <2>25, <2>26, <2>54
    DEF StopStep, StopThread, StopDogStep
  <2>55. ASSUME NEW t \in Tasks, HandlerStep(t) \/ RecoveryStep(t)
        PROVE  TypeOK'
    BY <2>27, <2>28, <2>29, <2>30, <2>31, <2>32, <2>33, <2>34, <2>35, <2>36,
       <2>37, <2>38, <2>39, <2>40, <2>45, <2>55
    DEF HandlerStep, RecoveryStep
  <2>56. ASSUME NEW p \in Pipes, PipeStep(p)
        PROVE  TypeOK'
    BY <2>41, <2>42, <2>43, <2>44, <2>46, <2>56 DEF PipeStep, SignalStep
  <2>57. ASSUME InternalStep PROVE TypeOK'
    BY <2>47, <2>48, <2>49, <2>50, <2>51, <2>53, <2>54, <2>55, <2>56, <2>57
    DEF InternalStep, ShutdownStep
  <2> QED
    BY <2>1, <2>2, <2>52, <2>57 DEF Next
<1> QED
  BY <1>1, <1>2, PTL DEF Spec

-----------------------------------------------------------------------------
(* Who closes which pipeline: SingleOwner and AtomicStart.                 *)

(* The sources a start call has open at its program counter                *)
Expected(c) ==
  {s \in startReq[c] : \/ startPc[c] \in {"check", "install"}
                       \/ startPc[c] \in {"micUp", "sys"} /\ s = "microphone"}

(* Until it installs them, a start call has exactly those sources open.    *)
OwnsUntilInstalled(c) ==
  /\ startPc[c] = "model" => startReq[c] # {}
  /\ startPc[c] \in {"mic", "micUp"} => "microphone" \in startReq[c]
  /\ startPc[c] = "sys" => "system" \in startReq[c]
  /\ startPc[c] \notin {"dropping", "commit", "listening"} =>
       \A s \in Sources : IF s \in Expected(c) THEN pipe[StartPipe(c, s)] = "live"
                          ELSE Unowned(StartPipe(c, s))
StartOwns == \A c \in StartCalls : OwnsUntilInstalled(c)

(* An attempt opens its one pipeline late and only once.                   *)
AttemptPcs == {"opened", "install"}
LatePcs == AttemptPcs \cup {"dropping", "resumed", "done"}
OpensOnce(t) ==
  /\ taskPc[t] \notin LatePcs => \A s \in Sources : pipe[<<t, s>>] = "none"
  /\ taskPc[t] \in AttemptPcs =>
       \A s \in Sources : pipe[<<t, s>>] = IF s = taskSrc[t] THEN "live" ELSE "none"
TaskOwns == \A t \in Tasks : OpensOnce(t)

(* A stop call holds nothing before it takes the session.                  *)
StopOwns ==
  \A c \in StopCalls : stopPc[c] \in {"new", "look", "take"} => stopHeld[c] = {}

(* SingleOwner pipeline by pipeline: two owners exclude each other, and a  *)
(* running pipeline has one.                                               *)
InSlot(p) == slot[p[2]] = p
OneOwner ==
  \A p \in Pipes :
    /\ InSlot(p) => pipe[p] = "live" /\ ~Opening(p)
    /\ \A c \in StopCalls : p \in stopHeld[c] =>
         /\ pipe[p] = "live" /\ ~Opening(p) /\ ~InSlot(p)
         /\ \A d \in StopCalls : p \in stopHeld[d] => d = c
    /\ pipe[p] = "live" =>
         Opening(p) \/ InSlot(p) \/ \E c \in StopCalls : p \in stopHeld[c]
SlotsMatch == \A s \in Sources : slot[s] # NoPipe => slot[s][2] = s

Ownership == OneOwner /\ SlotsMatch /\ StartOwns /\ TaskOwns /\ StopOwns

(* A pipeline is only ever in the slot of its own source.                  *)
LEMMA SlotOfItsSource ==
  ASSUME TypeOK, Ownership
  PROVE  \A p \in Pipes : p \in InSlots <=> InSlot(p)
BY ConstantAssumption DEF Ownership, SlotsMatch, InSlots, InSlot, TypeOK, Pipes

(* Ownership is the stronger statement.                                    *)
LEMMA OwnershipImplies ==
  ASSUME TypeOK, Ownership
  PROVE  SingleOwner /\ AtomicStart
<1>1. \A p \in Pipes : p \in InSlots <=> InSlot(p)
  BY SlotOfItsSource
<1>2. SingleOwner
  BY <1>1 DEF Ownership, OneOwner, SingleOwner, Stopping, InSlot
<1>3. AtomicStart
  BY DEF Ownership, StartOwns, OwnsUntilInstalled, AtomicStart, Expected
<1> QED
  BY <1>2, <1>3

-----------------------------------------------------------------------------
(* Most steps move one program counter and touch no pipeline.              *)
pipes == <<pipe, slot, stopHeld>>

(* A step that touches no pipeline and no program counter of a command or  *)
(* a handler changes no owner.                                             *)
LEMMA NothingMoves ==
  ASSUME Ownership, UNCHANGED <<pipes, startPc, startReq, stopPc, taskPc, taskSrc>>
  PROVE  Ownership'
BY DEF pipes, Ownership, OneOwner, InSlot, Opening, SlotsMatch, StartOwns,
       OwnsUntilInstalled, Expected, Unowned, TaskOwns, OpensOnce, StopOwns

(* A start call keeps what it owns while it, its request and its pipelines *)
(* stay as they are.                                                       *)
LEMMA StartUntouched ==
  ASSUME Ownership, NEW c \in StartCalls,
         startPc'[c] = startPc[c], startReq'[c] = startReq[c],
         \A s \in Sources : pipe'[StartPipe(c, s)] = pipe[StartPipe(c, s)]
  PROVE  OwnsUntilInstalled(c)'
BY DEF Ownership, StartOwns, OwnsUntilInstalled, Expected, Unowned, StartPipe

(* So does a recovery attempt.                                             *)
LEMMA TaskUntouched ==
  ASSUME Ownership, NEW t \in Tasks,
         taskPc'[t] = taskPc[t], taskSrc'[t] = taskSrc[t],
         \A s \in Sources : pipe'[<<t, s>>] = pipe[<<t, s>>]
  PROVE  OpensOnce(t)'
BY DEF Ownership, TaskOwns, OpensOnce

(* A stop call that moves on without touching a pipeline changes no owner. *)
LEMMA StopMoves ==
  ASSUME TypeOK, Ownership, NEW c \in StopCalls, NEW pc,
         GoStop(c, pc),
         UNCHANGED <<pipes, startPc, startReq, taskPc, taskSrc>>,
         pc \in {"look", "take"} => stopPc[c] \in {"new", "look", "take"},
         pc # "new"
  PROVE  Ownership'
<1> USE DEF pipes
<1>1. StopOwns'
  BY DEF Ownership, StopOwns, GoStop, TypeOK
<1> QED
  BY <1>1 DEF Ownership, OneOwner, InSlot, Opening, SlotsMatch, StartOwns,
              OwnsUntilInstalled, Expected, Unowned, TaskOwns, OpensOnce

(* Nor does a handler that neither opens nor installs.                     *)
LEMMA TaskMoves ==
  ASSUME TypeOK, Ownership, NEW t \in Tasks,
         UNCHANGED <<pipes, startPc, startReq, stopPc>>,
         taskPc' = [taskPc EXCEPT ![t] = taskPc'[t]],
         taskPc[t] \notin AttemptPcs, taskPc'[t] \notin AttemptPcs,
         taskPc[t] \in LatePcs => taskPc'[t] \in LatePcs,
         \A u \in Tasks : u # t => taskSrc'[u] = taskSrc[u]
  PROVE  Ownership'
<1> USE DEF pipes
<1>1. \A p \in Pipes : Opening(p)' <=> Opening(p)
  BY ConstantAssumption DEF Opening, AttemptPcs, TypeOK
<1>2. OneOwner'
  BY <1>1 DEF Ownership, OneOwner, InSlot
<1>3. TaskOwns'
  BY DEF Ownership, TaskOwns, OpensOnce, TypeOK
<1> QED
  BY <1>2, <1>3 DEF Ownership, SlotsMatch, StartOwns, OwnsUntilInstalled,
                   Expected, Unowned, StopOwns

-----------------------------------------------------------------------------
(* The steps that open, hand over or close pipelines                       *)

(* A pipeline is its opener and its source.                                *)
LEMMA PipeParts ==
  /\ \A p \in Pipes : p = <<p[1], p[2]>> /\ p[1] \in Openers /\ p[2] \in Sources
  /\ \A c \in StartCalls, s \in Sources :
       /\ StartPipe(c, s) \in Pipes
       /\ StartPipe(c, s)[1] = c /\ StartPipe(c, s)[2] = s
  /\ \A t \in Tasks, s \in Sources :
       /\ <<t, s>> \in Pipes /\ <<t, s>>[1] = t /\ <<t, s>>[2] = s
BY DEF Pipes, Openers, StartPipe

(* Pipelines that open are opening afterwards, those that close were.      *)
LEMMA OpenOrClose ==
  ASSUME TypeOK, Ownership, UNCHANGED <<slot, stopHeld>>,
         \A p \in Pipes :
           \/ pipe'[p] = pipe[p] /\ (Opening(p)' <=> Opening(p))
           \/ /\ pipe[p] = "live" => Opening(p)
              /\ pipe'[p] = "live" => Opening(p)'
  PROVE  OneOwner'
BY DEF Ownership, OneOwner, InSlot

(* A step leaves a call or an attempt alone if it touches none of its      *)
(* pipelines, or only those past opening.                                  *)
Spared(o) ==
  \A p \in Pipes :
    p[1] = o => pipe'[p] = pipe[p] \/ (~Unowned(p) /\ ~Opening(p))

(* Who is spared keeps what it owns.                                       *)
LEMMA Bystanders ==
  ASSUME TypeOK, Ownership
  PROVE  /\ \A c \in StartCalls :
              Spared(c) /\ startPc'[c] = startPc[c] /\ startReq'[c] = startReq[c]
                => OwnsUntilInstalled(c)'
         /\ \A t \in Tasks :
              Spared(t) /\ taskPc'[t] = taskPc[t] /\ taskSrc'[t] = taskSrc[t]
                => OpensOnce(t)'
<1>1. ASSUME NEW c \in StartCalls, Spared(c),
             startPc'[c] = startPc[c], startReq'[c] = startReq[c]
      PROVE  OwnsUntilInstalled(c)'
  <2>1. CASE startPc[c] \in {"dropping", "commit", "listening"}
    BY <1>1, <2>1 DEF OwnsUntilInstalled, Ownership, StartOwns
  <2>2. CASE startPc[c] \notin {"dropping", "commit", "listening"}
    <3>1. \A s \in Sources : Unowned(StartPipe(c, s)) \/ Opening(StartPipe(c, s))
      BY <2>2, PipeParts DEF Ownership, StartOwns, OwnsUntilInstalled, Expected, Opening
    <3>2. \A s \in Sources : pipe'[StartPipe(c, s)] = pipe[StartPipe(c, s)]
      BY <1>1, <3>1, PipeParts DEF Spared
    <3> QED
      BY <1>1, <3>2, StartUntouched
  <2> QED
    BY <2>1, <2>2
<1>2. ASSUME NEW t \in Tasks, Spared(t),
             taskPc'[t] = taskPc[t], taskSrc'[t] = taskSrc[t]
      PROVE  OpensOnce(t)'
  <2>1. CASE taskPc[t] \in LatePcs \ AttemptPcs
    BY <1>2, <2>1 DEF OpensOnce
  <2>2. CASE taskPc[t] \notin LatePcs \ AttemptPcs
    <3>1. \A s \in Sources : Unowned(<<t, s>>) \/ Opening(<<t, s>>)
      BY <2>2, PipeParts DEF Ownership, TaskOwns, OpensOnce, Opening, Unowned,
                             AttemptPcs, LatePcs
    <3>2. \A s \in Sources : pipe'[<<t, s>>] = pipe[<<t, s>>]
      BY <1>2, <3>1, PipeParts DEF Spared
    <3> QED
      BY <1>2, <3>2, TaskUntouched
  <2> QED
    BY <2>1, <2>2
<1> QED
  BY <1>1, <1>2

Installed == {"dropping", "commit", "listening"}

(* A start call that has not installed anything works on its own pipelines *)
(* only; what it has to get right is what it has open afterwards.          *)
LEMMA StartOpensOrCloses ==
  ASSUME TypeOK, Ownership, NEW c \in StartCalls, NEW pc,
         UNCHANGED <<slot, stopHeld, stopPc, taskPc, taskSrc>>,
         GoStart(c, pc), startPc[c] \notin Installed, pc \notin Installed,
         \A d \in StartCalls : d # c => startReq'[d] = startReq[d],
         \A p \in Pipes : p[1] # c => pipe'[p] = pipe[p],
         OwnsUntilInstalled(c)'
  PROVE  Ownership'
<1>1. /\ startPc'[c] = pc
      /\ \A d \in StartCalls : d # c => startPc'[d] = startPc[d]
  BY DEF GoStart, TypeOK
<1>2. \A p \in Pipes : p[1] # c => (Opening(p)' <=> Opening(p))
  BY <1>1 DEF Opening
<1>3. \A s \in Sources :
        /\ pipe[StartPipe(c, s)] = "live" => Opening(StartPipe(c, s))
        /\ pipe'[StartPipe(c, s)] = "live" => Opening(StartPipe(c, s))'
  <2>1. ASSUME NEW s \in Sources, pipe[StartPipe(c, s)] = "live"
        PROVE  Opening(StartPipe(c, s))
    BY <2>1, PipeParts DEF Ownership, StartOwns, OwnsUntilInstalled, Expected,
                           Unowned, Opening, Installed
  <2>2. ASSUME NEW s \in Sources, pipe'[StartPipe(c, s)] = "live"
        PROVE  Opening(StartPipe(c, s))'
    BY <1>1, <2>2, PipeParts DEF OwnsUntilInstalled, Expected, Unowned, Opening, Installed
  <2> QED
    BY <2>1, <2>2
<1>4. \A p \in Pipes : p[1] = c => \E s \in Sources : p = StartPipe(c, s)
  BY PipeParts DEF StartPipe
<1>5. OneOwner'
  <2>1. \A p \in Pipes :
          p[1] = c => /\ pipe[p] = "live" => Opening(p)
                      /\ pipe'[p] = "live" => Opening(p)'
    BY <1>3, <1>4
  <2>2. ASSUME NEW p \in Pipes
        PROVE  \/ pipe'[p] = pipe[p] /\ (Opening(p)' <=> Opening(p))
               \/ /\ pipe[p] = "live" => Opening(p)
                  /\ pipe'[p] = "live" => Opening(p)'
    BY <1>1, <1>2, <2>1
  <2> QED
    BY <2>2, OpenOrClose
<1>6. StartOwns' /\ TaskOwns'
  <2>1. \A d \in StartCalls : d # c => OwnsUntilInstalled(d)'
    BY <1>1, Bystanders DEF Spared
  <2>2. \A t \in Tasks : OpensOnce(t)'
    BY <1>1, Bystanders, ConstantAssumption DEF Spared
  <2> QED
    BY <2>1, <2>2 DEF StartOwns, TaskOwns
<1> QED
  BY <1>5, <1>6 DEF Ownership, SlotsMatch, StopOwns

(* The steps of a start that open and close nothing                        *)
LEMMA StartFailsOrProceeds ==
  ASSUME TypeOK, Ownership, NEW c \in StartCalls, NEW req,
         \/ StartRejected(c, req) \/ StartBegin(c, req)
         \/ StartModelFails(c) \/ StartModelReady(c) \/ StartMicFails(c)
         \/ StartFailCheck(c) \/ StartFailApply(c)
  PROVE  Ownership'
<1> USE DEF stateVars, sessionVars, pipeVars, stopVars, taskVars
<1>1. /\ UNCHANGED <<pipe, slot, stopHeld, stopPc, taskPc, taskSrc>>
      /\ \A d \in StartCalls : d # c => startReq'[d] = startReq[d]
  BY DEF StartRejected, StartBegin, StartModelFails, StartModelReady, StartMicFails,
         StartFailCheck, StartFailApply, TypeOK
<1>2. /\ startPc[c] \in {"new", "model", "mic", "failCheck", "failApply"}
      /\ \A s \in Sources : Unowned(StartPipe(c, s))
  BY DEF StartRejected, StartBegin, StartModelFails, StartModelReady, StartMicFails,
         StartFailCheck, StartFailApply, Ownership, StartOwns, OwnsUntilInstalled, Expected
<1>3. PICK pc \in {"rejected", "model", "mic", "sys", "failCheck", "failApply", "failed"} :
        /\ GoStart(c, pc)
        /\ pc = "model" => startReq'[c] # {}
        /\ pc = "mic" => "microphone" \in startReq'[c]
        /\ pc = "sys" => "system" \in startReq'[c] /\ "microphone" \notin startReq'[c]
  <2>1. CASE StartRejected(c, req)
    BY <2>1 DEF StartRejected
  <2>2. CASE StartBegin(c, req)
    BY <2>2 DEF StartBegin, TypeOK
  <2>3. CASE StartModelReady(c)
    <3>1. startReq[c] # {} /\ startReq[c] \subseteq {"microphone", "system"}
      BY <2>3 DEF StartModelReady, Ownership, StartOwns, OwnsUntilInstalled, TypeOK, Sources
    <3> QED
      BY <2>3, <3>1 DEF StartModelReady
  <2>4. CASE StartModelFails(c) \/ StartMicFails(c) \/ StartFailCheck(c) \/ StartFailApply(c)
    BY <2>4 DEF StartModelFails, StartMicFails, StartFailCheck, StartFailApply
  <2> QED
    BY <2>1, <2>2, <2>3, <2>4
<1>4. startPc'[c] = pc
  BY <1>3 DEF GoStart, TypeOK
<1>5. Expected(c)' = {}
  BY <1>3, <1>4 DEF Expected
<1>6. OwnsUntilInstalled(c)'
  BY <1>1, <1>2, <1>3, <1>4, <1>5 DEF OwnsUntilInstalled, Unowned
<1> QED
  BY <1>1, <1>2, <1>3, <1>6, StartOpensOrCloses DEF Installed

(* A start that fails with devices open releases exactly those.            *)
LEMMA OpenedReleased ==
  ASSUME TypeOK, Ownership, NEW c \in StartCalls, startPc[c] \notin Installed,
         NEW P \in SUBSET Pipes, OpenedBy(c) \subseteq P, SetPipes(P, "released")
  PROVE  \A s \in Sources : Unowned(StartPipe(c, s))'
<1>1. \A s \in Sources : Unowned(StartPipe(c, s)) \/ StartPipe(c, s) \in OpenedBy(c)
  BY PipeParts DEF Ownership, StartOwns, OwnsUntilInstalled, Installed, OpenedBy
<1> QED
  BY <1>1, PipeParts DEF SetPipes, Unowned

(* The steps of a start that open devices, or close them again             *)
LEMMA StartOpensDevices ==
  ASSUME TypeOK, Ownership, NEW c \in StartCalls,
         \/ StartMicOpens(c) \/ StartMicDone(c)
         \/ StartSysFails(c) \/ StartSysOpens(c) \/ StartCheck(c)
  PROVE  Ownership'
<1> DEFINE mic == StartPipe(c, "microphone")
           sys == StartPipe(c, "system")
<1> USE DEF stateVars, sessionVars, pipeVars, stopVars, taskVars
<1>1. /\ mic \in Pipes /\ mic[1] = c /\ sys \in Pipes /\ sys[1] = c /\ mic # sys
      /\ \A s \in Sources : s = "microphone" \/ s = "system"
      /\ startReq[c] \subseteq Sources
  BY PipeParts, SourcesKnown DEF Sources, StartPipe, TypeOK
<1>2. \A p \in OpenedBy(c) : p \in Pipes /\ p[1] = c
  BY DEF OpenedBy
<1>3. /\ UNCHANGED <<slot, stopHeld, stopPc, taskPc, taskSrc, startReq>>
      /\ startPc[c] \in {"mic", "micUp", "sys", "check"}
  BY DEF StartMicOpens, StartMicDone, StartSysFails, StartSysOpens, StartCheck
<1>4. \A s \in Sources : IF s \in Expected(c) THEN pipe[StartPipe(c, s)] = "live"
                         ELSE Unowned(StartPipe(c, s))
  BY <1>3 DEF Ownership, StartOwns, OwnsUntilInstalled
<1> HIDE DEF mic, sys
<1>5. ASSUME startPc'[c] = "failCheck" \/ startPc'[c] = "failed",
             \A s \in Sources : Unowned(StartPipe(c, s))'
      PROVE  OwnsUntilInstalled(c)'
  BY <1>5 DEF OwnsUntilInstalled, Expected
<1>6. CASE StartMicOpens(c)
  <2>1. "microphone" \in startReq[c] /\ Unowned(mic) /\ Unowned(sys)
    BY <1>4, <1>6, SourcesKnown
    DEF StartMicOpens, Ownership, StartOwns, OwnsUntilInstalled, Expected, mic, sys
  <2>2. CASE StartIsCurrent(c)
    <3>1. GoStart(c, "micUp") /\ SetPipes({mic}, "live")
      BY <1>6, <2>2 DEF StartMicOpens, mic
    <3>2. startPc'[c] = "micUp" /\ pipe'[mic] = "live" /\ Unowned(sys)'
      BY <1>1, <2>1, <3>1 DEF GoStart, SetPipes, Unowned, TypeOK
    <3>3. OwnsUntilInstalled(c)'
      BY <1>1, <1>3, <2>1, <3>2 DEF OwnsUntilInstalled, Expected, mic, sys
    <3>4. \A p \in Pipes : p[1] # c => pipe'[p] = pipe[p]
      BY <1>1, <3>1 DEF SetPipes
    <3> QED
      BY <1>3, <3>1, <3>3, <3>4, StartOpensOrCloses DEF Installed
  <2>3. CASE ~StartIsCurrent(c)
    <3>1. GoStart(c, "failed") /\ SetPipes({mic}, "released")
      BY <1>6, <2>3 DEF StartMicOpens, mic
    <3>2. startPc'[c] = "failed" /\ Unowned(mic)' /\ Unowned(sys)'
      BY <1>1, <2>1, <3>1 DEF GoStart, SetPipes, Unowned, TypeOK
    <3>3. OwnsUntilInstalled(c)'
      BY <1>1, <3>2 DEF OwnsUntilInstalled, Expected, mic, sys
    <3>4. \A p \in Pipes : p[1] # c => pipe'[p] = pipe[p]
      BY <1>1, <3>1 DEF SetPipes
    <3> QED
      BY <1>3, <3>1, <3>3, <3>4, StartOpensOrCloses DEF Installed
  <2> QED
    BY <2>2, <2>3
<1>7. CASE StartMicDone(c)
  <2>1. PICK pc \in {"sys", "check"} :
          GoStart(c, pc) /\ (pc = "sys" <=> "system" \in startReq[c])
    BY <1>7 DEF StartMicDone
  <2>2. /\ "microphone" \in startReq[c] /\ pipe[mic] = "live" /\ Unowned(sys)
        /\ startPc'[c] = pc /\ UNCHANGED pipe
    BY <1>4, <1>7, <2>1, SourcesKnown
    DEF StartMicDone, GoStart, Ownership, StartOwns, OwnsUntilInstalled, Expected, mic, sys,
        TypeOK
  <2>3. OwnsUntilInstalled(c)'
    BY <1>1, <1>3, <2>1, <2>2 DEF OwnsUntilInstalled, Expected, Unowned, mic, sys
  <2> QED
    BY <1>3, <2>1, <2>2, <2>3, StartOpensOrCloses DEF Installed
<1>8. ASSUME NEW P \in SUBSET Pipes, NEW pc \in {"failCheck", "failed"},
             OpenedBy(c) \subseteq P, \A p \in P : p[1] = c,
             SetPipes(P, "released"), GoStart(c, pc)
      PROVE  Ownership'
  <2>1. startPc[c] \notin Installed
    BY <1>3 DEF Installed
  <2>2. \A s \in Sources : Unowned(StartPipe(c, s))'
    BY <1>8, <2>1, OpenedReleased
  <2>3. OwnsUntilInstalled(c)'
    BY <1>8, <2>2 DEF GoStart, TypeOK, OwnsUntilInstalled, Expected
  <2>4. \A p \in Pipes : p[1] # c => pipe'[p] = pipe[p]
    BY <1>8 DEF SetPipes
  <2> QED
    BY <1>3, <1>8, <2>1, <2>3, <2>4, StartOpensOrCloses DEF Installed
<1>9. CASE StartSysFails(c)
  BY <1>2, <1>8, <1>9 DEF StartSysFails
<1>10. CASE StartSysOpens(c)
  <2>1. CASE StartIsCurrent(c)
    <3>1. GoStart(c, "check") /\ SetPipes({sys}, "live") /\ startPc[c] = "sys"
      BY <1>10, <2>1 DEF StartSysOpens, sys
    <3>2. "system" \in startReq[c]
      BY <3>1 DEF Ownership, StartOwns, OwnsUntilInstalled
    <3>3. startPc'[c] = "check" /\ pipe'[sys] = "live" /\ pipe'[mic] = pipe[mic]
      BY <1>1, <3>1 DEF GoStart, SetPipes, TypeOK
    <3>4. IF "microphone" \in startReq[c] THEN pipe[mic] = "live" ELSE Unowned(mic)
      BY <1>4, <3>1, SourcesKnown DEF Expected, mic
    <3>5. OwnsUntilInstalled(c)'
      BY <1>1, <1>3, <3>2, <3>3, <3>4 DEF OwnsUntilInstalled, Expected, Unowned, mic, sys
    <3>6. \A p \in Pipes : p[1] # c => pipe'[p] = pipe[p]
      BY <1>1, <3>1 DEF SetPipes
    <3> QED
      BY <1>3, <3>1, <3>5, <3>6, StartOpensOrCloses DEF Installed
  <2>2. CASE ~StartIsCurrent(c)
    <3>1. /\ GoStart(c, "failed")
          /\ SetPipes(OpenedBy(c) \cup {sys}, "released")
      BY <1>10, <2>2 DEF StartSysOpens, sys
    <3> QED
      BY <1>1, <1>2, <1>8, <3>1
  <2> QED
    BY <2>1, <2>2
<1>11. CASE StartCheck(c)
  <2>1. CASE StartIsCurrent(c)
    <3>1. GoStart(c, "install") /\ UNCHANGED pipe /\ startPc[c] = "check"
      BY <1>11, <2>1 DEF StartCheck
    <3>2. startPc'[c] = "install" /\ Expected(c)' = Expected(c)
      BY <1>3, <3>1 DEF GoStart, TypeOK, Expected
    <3>3. OwnsUntilInstalled(c)'
      BY <1>4, <3>1, <3>2 DEF OwnsUntilInstalled, Unowned
    <3> QED
      BY <1>3, <3>1, <3>3, StartOpensOrCloses DEF Installed
  <2>2. CASE ~StartIsCurrent(c)
    BY <1>2, <1>8, <1>11, <2>2 DEF StartCheck
  <2> QED
    BY <2>1, <2>2
<1> QED
  BY <1>6, <1>7, <1>9, <1>10, <1>11

(* The session section of a start: what it opened goes into the slots, and *)
(* what was there before is dropped.                                       *)
LEMMA StartInstalls ==
  ASSUME TypeOK, Ownership, NEW c \in StartCalls, StartInstall(c)
  PROVE  Ownership'
<1> USE DEF stateVars, stopVars, taskVars
<1>1. /\ startPc[c] = "install"
      /\ UNCHANGED <<startReq, stopHeld, stopPc, taskPc, taskSrc>>
      /\ slot' = [s \in Sources |-> IF s \in startReq[c] THEN StartPipe(c, s) ELSE NoPipe]
      /\ SetPipes(InSlots, "dropped")
  BY DEF StartInstall
<1>2. /\ startPc'[c] \in {"commit", "dropping"}
      /\ \A d \in StartCalls : d # c => startPc'[d] = startPc[d]
  BY DEF StartInstall, GoStart, TypeOK
<1>3. \A p \in Pipes :
        p[1] = c => /\ Opening(p) /\ ~Opening(p)'
                    /\ pipe[p] = "live" <=> p[2] \in startReq[c]
  <2>1. \A s \in Sources : pipe[StartPipe(c, s)] = "live" <=> s \in startReq[c]
    BY <1>1 DEF Ownership, StartOwns, OwnsUntilInstalled, Expected, Unowned
  <2> QED
    BY <1>1, <1>2, <2>1, PipeParts, ConstantAssumption DEF Opening, StartPipe
<1>4. \A p \in Pipes : p[1] # c => (Opening(p)' <=> Opening(p))
  BY <1>1, <1>2 DEF Opening
<1>5. \A p \in Pipes : InSlot(p)' <=> p[1] = c /\ p[2] \in startReq[c]
  BY <1>1, PipeParts, ConstantAssumption DEF InSlot, StartPipe
<1>6. \A p \in Pipes : pipe'[p] = IF InSlot(p) THEN "dropped" ELSE pipe[p]
  BY <1>1, SlotOfItsSource DEF SetPipes
<1>7. \A p \in Pipes : InSlot(p) => pipe[p] = "live" /\ ~Opening(p)
  BY DEF Ownership, OneOwner
<1>8. OneOwner'
  <2>1. ASSUME NEW p \in Pipes, InSlot(p)'
        PROVE  pipe'[p] = "live" /\ ~Opening(p)'
    BY <2>1, <1>3, <1>5, <1>6, <1>7
  <2>2. ASSUME NEW p \in Pipes, NEW d \in StopCalls, p \in stopHeld'[d]
        PROVE  /\ pipe'[p] = "live" /\ ~Opening(p)' /\ ~InSlot(p)'
               /\ \A e \in StopCalls : p \in stopHeld'[e] => e = d
    <3>1. /\ pipe[p] = "live" /\ ~Opening(p) /\ ~InSlot(p)
          /\ \A e \in StopCalls : p \in stopHeld[e] => e = d
      BY <2>2, <1>1 DEF Ownership, OneOwner
    <3>2. p[1] # c
      BY <1>3, <3>1
    <3> QED
      BY <1>1, <1>4, <1>5, <1>6, <3>1, <3>2
  <2>3. ASSUME NEW p \in Pipes, pipe'[p] = "live"
        PROVE  Opening(p)' \/ InSlot(p)' \/ \E d \in StopCalls : p \in stopHeld'[d]
    BY <2>3, <1>1, <1>3, <1>4, <1>5, <1>6 DEF Ownership, OneOwner
  <2> QED
    BY <2>1, <2>2, <2>3 DEF OneOwner
<1>9. SlotsMatch'
  BY <1>1, PipeParts DEF SlotsMatch
<1>10. StartOwns' /\ TaskOwns'
  <2>1. OwnsUntilInstalled(c)'
    BY <1>2 DEF OwnsUntilInstalled
  <2>2. \A p \in Pipes : pipe'[p] = pipe[p] \/ (~Unowned(p) /\ ~Opening(p))
    BY <1>6, <1>7 DEF Unowned
  <2>3. \A d \in StartCalls : d # c => OwnsUntilInstalled(d)'
    BY <1>1, <1>2, <2>2, Bystanders DEF Spared
  <2>4. \A t \in Tasks : OpensOnce(t)'
    BY <1>1, <2>2, Bystanders DEF Spared
  <2> QED
    BY <2>1, <2>3, <2>4 DEF StartOwns, TaskOwns
<1> QED
  BY <1>1, <1>8, <1>9, <1>10 DEF Ownership, StopOwns

(* Joining pipelines nobody owns any more                                  *)
LEMMA OpeningIsLive ==
  ASSUME TypeOK, Ownership, NEW p \in Pipes, Opening(p)
  PROVE  pipe[p] = "live" \/ Unowned(p)
<1>1. CASE p[1] \in StartCalls /\ startPc[p[1]] \in {"micUp", "sys", "check", "install"}
  BY <1>1, PipeParts DEF Ownership, StartOwns, OwnsUntilInstalled, StartPipe
<1>2. CASE p[1] \in Tasks /\ taskPc[p[1]] \in {"opened", "install"}
  BY <1>2, PipeParts DEF Ownership, TaskOwns, OpensOnce, AttemptPcs, Unowned
<1> QED
  BY <1>1, <1>2 DEF Opening

(* A pipeline that was dropped or abandoned has no owner to lose.          *)
LEMMA GoneReleased ==
  ASSUME TypeOK, Ownership, NEW P \in SUBSET Pipes, SetPipes(P, "released"),
         \A p \in P : pipe[p] \in {"dropped", "abandoned"}
  PROVE  /\ \A p \in Pipes : pipe'[p] = pipe[p] \/ (~Unowned(p) /\ ~Opening(p))
         /\ \A p \in Pipes : pipe'[p] = "live" <=> pipe[p] = "live"
BY OpeningIsLive DEF SetPipes, Unowned

(* The end of a start that has installed its session                       *)
LEMMA StartCommits ==
  ASSUME TypeOK, Ownership, NEW c \in StartCalls, StartDropped(c) \/ StartCommit(c)
  PROVE  Ownership'
<1> USE DEF stateVars, sessionVars, pipeVars, stopVars, taskVars
<1>1. /\ UNCHANGED <<slot, stopHeld, startReq, stopPc, taskPc, taskSrc>>
      /\ startPc[c] \in Installed /\ startPc'[c] \in Installed
      /\ \A d \in StartCalls : d # c => startPc'[d] = startPc[d]
  BY DEF StartDropped, StartCommit, GoStart, TypeOK, Installed
<1>2. \A p \in Pipes : Opening(p)' <=> Opening(p)
  BY <1>1, ConstantAssumption DEF Opening, Installed
<1>3. /\ \A p \in Pipes : pipe'[p] = pipe[p] \/ (~Unowned(p) /\ ~Opening(p))
      /\ \A p \in Pipes : pipe'[p] = "live" <=> pipe[p] = "live"
  <2>1. CASE StartDropped(c)
    BY <2>1, GoneReleased DEF StartDropped, Dropped
  <2>2. CASE StartCommit(c)
    BY <2>2 DEF StartCommit
  <2> QED
    BY <2>1, <2>2
<1>4. OneOwner'
  BY <1>1, <1>2, <1>3 DEF Ownership, OneOwner, InSlot
<1>5. OwnsUntilInstalled(c)'
  BY <1>1 DEF OwnsUntilInstalled, Installed
<1>6. StartOwns' /\ TaskOwns'
  BY <1>1, <1>3, <1>5, Bystanders DEF StartOwns, TaskOwns, Spared
<1> QED
  BY <1>1, <1>4, <1>6 DEF Ownership, SlotsMatch, StopOwns

(* The same for the joins that belong to no start                          *)
LEMMA OthersJoin ==
  ASSUME TypeOK, Ownership,
         \/ ShutdownJoined
         \/ \E t \in Tasks : TaskDropped(t)
         \/ \E p \in Pipes : AbandonJoined(p)
  PROVE  Ownership'
<1> USE DEF stateVars, sessionVars, pipeVars, startVars, stopVars, taskVars
<1>1. PICK P \in SUBSET Pipes :
        SetPipes(P, "released") /\ \A p \in P : pipe[p] \in {"dropped", "abandoned"}
  <2>1. CASE ShutdownJoined \/ \E t \in Tasks : TaskDropped(t)
    <3>1. Dropped \in SUBSET Pipes /\ \A p \in Dropped : pipe[p] = "dropped"
      BY DEF Dropped
    <3>2. SetPipes(Dropped, "released")
      BY <2>1 DEF ShutdownJoined, TaskDropped
    <3> QED
      BY <3>1, <3>2
  <2>2. ASSUME NEW p \in Pipes, AbandonJoined(p)
        PROVE  \E P \in SUBSET Pipes :
                 SetPipes(P, "released") /\ \A q \in P : pipe[q] \in {"dropped", "abandoned"}
    <3>1. {p} \in SUBSET Pipes /\ \A q \in {p} : pipe[q] = "abandoned"
      BY <2>2 DEF AbandonJoined
    <3> QED
      BY <2>2, <3>1 DEF AbandonJoined
  <2> QED
    BY <2>1, <2>2
<1>2. /\ UNCHANGED <<slot, stopHeld, startPc, startReq, stopPc, taskSrc>>
      /\ \A t \in Tasks :
           \/ taskPc'[t] = taskPc[t]
           \/ taskPc[t] = "dropping" /\ taskPc'[t] = "resumed"
  <2>1. CASE ShutdownJoined \/ \E p \in Pipes : AbandonJoined(p)
    BY <2>1 DEF ShutdownJoined, AbandonJoined
  <2>2. CASE \E t \in Tasks : TaskDropped(t)
    BY <2>2 DEF TaskDropped, GoTask, TypeOK
  <2> QED
    BY <2>1, <2>2
<1>3. /\ \A p \in Pipes : pipe'[p] = pipe[p] \/ (~Unowned(p) /\ ~Opening(p))
      /\ \A p \in Pipes : pipe'[p] = "live" <=> pipe[p] = "live"
  BY <1>1, GoneReleased
<1>4. \A p \in Pipes : Opening(p)' <=> Opening(p)
  BY <1>2 DEF Opening
<1>5. OneOwner'
  BY <1>2, <1>3, <1>4 DEF Ownership, OneOwner, InSlot
<1>6. /\ \A c \in StartCalls : OwnsUntilInstalled(c)'
      /\ \A t \in Tasks : taskPc'[t] = taskPc[t] => OpensOnce(t)'
  BY <1>2, <1>3, Bystanders DEF Spared
<1>7. \A t \in Tasks : taskPc'[t] = "resumed" => OpensOnce(t)'
  BY DEF OpensOnce, LatePcs, AttemptPcs
<1> QED
  BY <1>2, <1>5, <1>6, <1>7 DEF Ownership, SlotsMatch, StopOwns, StartOwns, TaskOwns

-----------------------------------------------------------------------------
(* Stop and shutdown take whatever is in the session.                      *)

(* No pipeline is in a slot of an emptied session.                         *)
LEMMA SessionEmptied ==
  ASSUME TypeOK, Ownership, EmptySession
  PROVE  SlotsMatch' /\ \A p \in Pipes : ~InSlot(p)'
BY PipeParts, ConstantAssumption DEF EmptySession, SlotsMatch, InSlot

(* stop_capture becomes the owner of what it takes from the session.       *)
LEMMA StopTakes ==
  ASSUME TypeOK, Ownership, NEW c \in StopCalls, StopTake(c)
  PROVE  Ownership'
<1> USE DEF stateVars, pipeVars, startVars, taskVars
<1>1. /\ UNCHANGED <<pipe, startPc, startReq, taskPc, taskSrc>>
      /\ EmptySession
      /\ stopHeld[c] = {}
      /\ stopHeld'[c] = InSlots
      /\ \A d \in StopCalls : d # c => stopHeld'[d] = stopHeld[d]
      /\ stopPc'[c] = "apply"
      /\ \A d \in StopCalls : d # c => stopPc'[d] = stopPc[d]
  BY DEF StopTake, GoStop, TypeOK, Ownership, StopOwns
<1>2. \A p \in Pipes : Opening(p)' <=> Opening(p)
  BY <1>1 DEF Opening
<1>3. SlotsMatch' /\ \A p \in Pipes : ~InSlot(p)'
  BY <1>1, SessionEmptied
<1>4. OneOwner'
  <2>1. ASSUME NEW p \in Pipes, NEW d \in StopCalls, p \in stopHeld'[d]
        PROVE  /\ pipe[p] = "live" /\ ~Opening(p)
               /\ \A e \in StopCalls : p \in stopHeld'[e] => e = d
    <3>1. CASE d = c
      BY <1>1, <2>1, <3>1, SlotOfItsSource DEF Ownership, OneOwner
    <3>2. CASE d # c
      BY <1>1, <2>1, <3>2, SlotOfItsSource DEF Ownership, OneOwner
    <3> QED
      BY <3>1, <3>2
  <2>2. ASSUME NEW p \in Pipes, pipe[p] = "live"
        PROVE  Opening(p) \/ \E d \in StopCalls : p \in stopHeld'[d]
    BY <1>1, <2>2, SlotOfItsSource DEF Ownership, OneOwner
  <2> QED
    BY <1>1, <1>2, <1>3, <2>1, <2>2 DEF OneOwner
<1>5. StartOwns' /\ TaskOwns'
  BY <1>1, Bystanders DEF StartOwns, TaskOwns, Spared
<1>6. StopOwns'
  BY <1>1 DEF Ownership, StopOwns
<1> QED
  BY <1>3, <1>4, <1>5, <1>6 DEF Ownership

(* stop_capture has joined the threads and gives up its pipelines.         *)
LEMMA StopJoins ==
  ASSUME TypeOK, Ownership, NEW c \in StopCalls, StopJoined(c)
  PROVE  Ownership'
<1> USE DEF stateVars, sessionVars, startVars, taskVars
<1>1. /\ UNCHANGED <<slot, startPc, startReq, taskPc, taskSrc>>
      /\ SetPipes(stopHeld[c], "released")
      /\ stopHeld' = [stopHeld EXCEPT ![c] = {}]
      /\ stopPc' = [stopPc EXCEPT ![c] = "check"]
  BY DEF StopJoined, GoStop
<1>2. \A p \in Pipes : Opening(p)' <=> Opening(p)
  BY <1>1 DEF Opening
<1>3. \A p \in Pipes : pipe'[p] = IF p \in stopHeld[c] THEN "released" ELSE pipe[p]
  BY <1>1 DEF SetPipes
<1>4. \A p \in Pipes :
        p \in stopHeld[c] =>
          /\ pipe[p] = "live" /\ ~Opening(p) /\ ~InSlot(p)
          /\ \A d \in StopCalls : p \in stopHeld[d] => d = c
  BY DEF Ownership, OneOwner
<1>5. \A d \in StopCalls : stopHeld'[d] = IF d = c THEN {} ELSE stopHeld[d]
  BY <1>1 DEF TypeOK
<1>6. OneOwner'
  <2>1. \A p \in Pipes : InSlot(p)' <=> InSlot(p)
    BY <1>1 DEF InSlot
  <2>2. ASSUME NEW p \in Pipes, p \in stopHeld[c]
        PROVE  /\ pipe'[p] = "released" /\ ~InSlot(p)'
               /\ \A d \in StopCalls : p \notin stopHeld'[d]
    BY <1>3, <1>4, <1>5, <2>1, <2>2
  <2>3. ASSUME NEW p \in Pipes, p \notin stopHeld[c]
        PROVE  /\ pipe'[p] = pipe[p]
               /\ \A d \in StopCalls : p \in stopHeld'[d] <=> p \in stopHeld[d]
    BY <1>3, <1>5, <2>3
  <2> QED
    BY <1>2, <2>1, <2>2, <2>3 DEF Ownership, OneOwner
<1>7. StartOwns' /\ TaskOwns'
  BY <1>1, <1>3, <1>4, Bystanders DEF StartOwns, TaskOwns, Spared, Unowned
<1>8. StopOwns'
  BY <1>1, <1>5 DEF Ownership, StopOwns, TypeOK
<1> QED
  BY <1>1, <1>6, <1>7, <1>8 DEF Ownership, SlotsMatch

(* shutdown drops the pipelines of the session.                            *)
LEMMA ShutdownTakes ==
  ASSUME TypeOK, Ownership, ShutdownTake
  PROVE  Ownership'
<1> USE DEF stateVars, startVars, stopVars, taskVars
<1>1. /\ UNCHANGED <<stopHeld, stopPc, startPc, startReq, taskPc, taskSrc>>
      /\ EmptySession
      /\ \A p \in Pipes : pipe'[p] = IF InSlot(p) THEN "dropped" ELSE pipe[p]
  BY SlotOfItsSource DEF ShutdownTake, SetPipes
<1>2. \A p \in Pipes : Opening(p)' <=> Opening(p)
  BY <1>1 DEF Opening
<1>3. SlotsMatch' /\ \A p \in Pipes : ~InSlot(p)'
  BY <1>1, SessionEmptied
<1>4. OneOwner'
  BY <1>1, <1>2, <1>3 DEF Ownership, OneOwner
<1>5. \A p \in Pipes : InSlot(p) => ~Unowned(p) /\ ~Opening(p)
  BY DEF Ownership, OneOwner, Unowned
<1>6. StartOwns' /\ TaskOwns'
  BY <1>1, <1>5, Bystanders DEF StartOwns, TaskOwns, Spared
<1> QED
  BY <1>1, <1>3, <1>4, <1>6 DEF Ownership, StopOwns

-----------------------------------------------------------------------------
(* A handler takes a source from the session, an attempt puts one back.    *)

(* The session section of handle_source_runtime_error                      *)
LEMMA TaskTakesSource ==
  ASSUME TypeOK, Ownership, NEW t \in Tasks, TaskSession(t), open
  PROVE  Ownership'
<1> DEFINE src == taskSrc[t]
<1> USE DEF stateVars, startVars, stopVars
<1>1. /\ UNCHANGED <<stopHeld, stopPc, startPc, startReq, taskSrc>>
      /\ slot' = [slot EXCEPT ![src] = NoPipe]
      /\ SetPipes(Replaced(src), "abandoned")
      /\ taskPc[t] = "session" /\ taskPc'[t] \in {"status", "terminal"}
      /\ \A u \in Tasks : u # t => taskPc'[u] = taskPc[u]
  BY DEF TaskSession, GoTask, TypeOK
<1>2. src \in Sources
  BY DEF TypeOK
<1>3. \A p \in Pipes : Opening(p)' <=> Opening(p)
  BY <1>1, ConstantAssumption DEF Opening
<1>4. \A p \in Pipes : InSlot(p)' <=> InSlot(p) /\ p[2] # src
  BY <1>1, <1>2, PipeParts, ConstantAssumption DEF InSlot, TypeOK
<1>5. \A p \in Pipes : pipe'[p] = IF InSlot(p) /\ p[2] = src THEN "abandoned" ELSE pipe[p]
  BY <1>1, <1>2, ConstantAssumption
  DEF SetPipes, Replaced, InSlot, Ownership, SlotsMatch, TypeOK
<1>6. \A p \in Pipes : InSlot(p) => ~Unowned(p) /\ ~Opening(p)
  BY DEF Ownership, OneOwner, Unowned
<1> HIDE DEF src
<1>7. OneOwner'
  BY <1>1, <1>3, <1>4, <1>5 DEF Ownership, OneOwner
<1>8. SlotsMatch'
  BY <1>1, <1>2 DEF Ownership, SlotsMatch, TypeOK
<1>9. StartOwns'
  BY <1>1, <1>5, <1>6, Bystanders DEF StartOwns, Spared
<1>10. TaskOwns'
  <2>1. \A u \in Tasks : u # t => OpensOnce(u)'
    BY <1>1, <1>5, <1>6, Bystanders DEF Spared
  <2>2. \A s \in Sources : pipe[<<t, s>>] = "none"
    BY <1>1 DEF Ownership, TaskOwns, OpensOnce, LatePcs, AttemptPcs
  <2>3. \A s \in Sources : pipe'[<<t, s>>] = "none"
    BY <1>5, <1>6, <2>2, PipeParts DEF Unowned
  <2>4. OpensOnce(t)'
    BY <1>1, <2>3 DEF OpensOnce, AttemptPcs
  <2> QED
    BY <2>1, <2>4 DEF TaskOwns
<1> QED
  BY <1>1, <1>7, <1>8, <1>9, <1>10 DEF Ownership, StopOwns

(* An attempt opens its pipeline, or gives it up.                          *)
LEMMA AttemptOpensOrGivesUp ==
  ASSUME TypeOK, Ownership, NEW t \in Tasks, NEW pc,
         UNCHANGED <<slot, stopHeld, startPc, startReq, stopPc, taskSrc>>,
         GoTask(t, pc),
         \A p \in Pipes : p # TaskPipe(t) => pipe'[p] = pipe[p],
         \/ /\ taskPc[t] = "restart" /\ pc = "opened" /\ pipe'[TaskPipe(t)] = "live"
         \/ /\ taskPc[t] \in {"restart", "opened", "install"} /\ pc = "done"
            /\ pipe'[TaskPipe(t)] # "live"
         \/ /\ taskPc[t] = "opened" /\ pc = "install" /\ UNCHANGED pipe
  PROVE  Ownership'
<1>1. /\ taskPc'[t] = pc
      /\ \A u \in Tasks : u # t => taskPc'[u] = taskPc[u]
      /\ TaskPipe(t) \in Pipes /\ TaskPipe(t) = <<t, taskSrc[t]>> /\ taskSrc[t] \in Sources
  BY PipesOpened DEF GoTask, TypeOK, TaskPipe
<1>2. \A p \in Pipes : p[1] # t => (Opening(p)' <=> Opening(p))
  BY <1>1 DEF Opening
<1>3. \A s \in Sources :
        pipe[<<t, s>>] = "live" => taskPc[t] \in AttemptPcs /\ s = taskSrc[t]
  BY DEF Ownership, TaskOwns, OpensOnce, LatePcs, AttemptPcs
<1>4. OpensOnce(t)'
  BY <1>1, PipeParts
  DEF Ownership, TaskOwns, OpensOnce, LatePcs, AttemptPcs
<1>5. \A p \in Pipes :
        p[1] = t => /\ pipe[p] = "live" => Opening(p)
                    /\ pipe'[p] = "live" => Opening(p)'
  BY <1>1, <1>3, <1>4, PipeParts DEF Opening, AttemptPcs
<1>6. \A p \in Pipes : p[1] # t => pipe'[p] = pipe[p]
  BY <1>1, PipeParts
<1>7. OneOwner'
  <2>1. ASSUME NEW p \in Pipes
        PROVE  \/ pipe'[p] = pipe[p] /\ (Opening(p)' <=> Opening(p))
               \/ /\ pipe[p] = "live" => Opening(p)
                  /\ pipe'[p] = "live" => Opening(p)'
    BY <1>2, <1>5, <1>6
  <2> QED
    BY <2>1, OpenOrClose
<1>8. StartOwns'
  BY <1>6, Bystanders, ConstantAssumption DEF StartOwns, Spared
<1>9. TaskOwns'
  <2>1. \A u \in Tasks : u # t => OpensOnce(u)'
    BY <1>1, <1>6, Bystanders DEF Spared
  <2> QED
    BY <1>4, <2>1 DEF TaskOwns
<1> QED
  BY <1>7, <1>8, <1>9 DEF Ownership, SlotsMatch, StopOwns

(* The session section of run_recovery_attempt that installs               *)
LEMMA TaskInstallsPipe ==
  ASSUME TypeOK, Ownership, NEW t \in Tasks, TaskInstall(t), open
  PROVE  Ownership'
<1> DEFINE src == taskSrc[t]
           new == TaskPipe(t)
<1> USE DEF stateVars, startVars, stopVars
<1>1. /\ UNCHANGED <<stopHeld, stopPc, startPc, startReq, taskSrc>>
      /\ slot' = [slot EXCEPT ![src] = new]
      /\ SetPipes(Replaced(src), "dropped")
      /\ taskPc[t] = "install" /\ taskPc'[t] \in {"resumed", "dropping"}
      /\ \A u \in Tasks : u # t => taskPc'[u] = taskPc[u]
  BY DEF TaskInstall, GoTask, TypeOK
<1>2. /\ src \in Sources /\ new \in Pipes /\ new[1] = t /\ new[2] = src
      /\ new = <<t, src>>
  BY PipesOpened DEF TypeOK, TaskPipe
<1>3. \A p \in Pipes : p[1] # t => (Opening(p)' <=> Opening(p))
  BY <1>1 DEF Opening
<1>4. \A p \in Pipes : p[1] = t => Opening(p) /\ ~Opening(p)'
  BY <1>1, ConstantAssumption DEF Opening
<1>5. \A p \in Pipes : p[1] = t => (pipe[p] = "live" <=> p = new)
  BY <1>1, <1>2, PipeParts DEF Ownership, TaskOwns, OpensOnce, AttemptPcs
<1>6. \A p \in Pipes : InSlot(p)' <=> p = new \/ (InSlot(p) /\ p[2] # src)
  BY <1>1, <1>2, PipeParts DEF InSlot, TypeOK
<1>7. \A p \in Pipes : pipe'[p] = IF InSlot(p) /\ p[2] = src THEN "dropped" ELSE pipe[p]
  BY <1>1, <1>2, ConstantAssumption
  DEF SetPipes, Replaced, InSlot, Ownership, SlotsMatch, TypeOK
<1>8. \A p \in Pipes : InSlot(p) => pipe[p] = "live" /\ ~Opening(p) /\ p[1] # t
  BY <1>4 DEF Ownership, OneOwner
<1> HIDE DEF src, new
<1>9. OneOwner'
  <2>1. ASSUME NEW p \in Pipes, InSlot(p)'
        PROVE  pipe'[p] = "live" /\ ~Opening(p)'
    BY <2>1, <1>2, <1>3, <1>4, <1>5, <1>6, <1>7, <1>8
  <2>2. ASSUME NEW p \in Pipes, NEW d \in StopCalls, p \in stopHeld'[d]
        PROVE  /\ pipe'[p] = "live" /\ ~Opening(p)' /\ ~InSlot(p)'
               /\ \A e \in StopCalls : p \in stopHeld'[e] => e = d
    <3>1. /\ pipe[p] = "live" /\ ~Opening(p) /\ ~InSlot(p)
          /\ \A e \in StopCalls : p \in stopHeld[e] => e = d
      BY <2>2, <1>1 DEF Ownership, OneOwner
    <3>2. p[1] # t
      BY <1>4, <3>1
    <3> QED
      BY <1>1, <1>2, <1>3, <1>6, <1>7, <3>1, <3>2
  <2>3. ASSUME NEW p \in Pipes, pipe'[p] = "live"
        PROVE  Opening(p)' \/ InSlot(p)' \/ \E d \in StopCalls : p \in stopHeld'[d]
    BY <2>3, <1>1, <1>3, <1>5, <1>6, <1>7 DEF Ownership, OneOwner
  <2> QED
    BY <2>1, <2>2, <2>3 DEF OneOwner
<1>10. SlotsMatch'
  BY <1>1, <1>2 DEF Ownership, SlotsMatch, TypeOK
<1>11. StartOwns'
  BY <1>1, <1>7, <1>8, Bystanders DEF StartOwns, Spared, Unowned
<1>12. TaskOwns'
  <2>1. \A u \in Tasks : u # t => OpensOnce(u)'
    BY <1>1, <1>7, <1>8, Bystanders DEF Spared, Unowned
  <2>2. OpensOnce(t)'
    BY <1>1 DEF OpensOnce, LatePcs, AttemptPcs
  <2> QED
    BY <2>1, <2>2 DEF TaskOwns
<1> QED
  BY <1>1, <1>9, <1>10, <1>11, <1>12 DEF Ownership, StopOwns

(* The steps of an attempt that open its pipeline or give it up            *)
LEMMA AttemptStepOwns ==
  ASSUME TypeOK, Ownership, NEW t \in Tasks,
         TaskRestartOpens(t) \/ TaskOpened(t) \/ (TaskInstall(t) /\ ~open)
  PROVE  Ownership'
<1> USE DEF stateVars, sessionVars, pipeVars, startVars, stopVars
<1>1. TaskPipe(t) \in Pipes
  BY PipesOpened
<1>2. UNCHANGED <<slot, stopHeld, startPc, startReq, stopPc, taskSrc>>
  BY DEF TaskRestartOpens, TaskOpened, TaskInstall
<1>3. ASSUME NEW life, SetPipes({TaskPipe(t)}, life)
      PROVE  /\ pipe'[TaskPipe(t)] = life
             /\ \A p \in Pipes : p # TaskPipe(t) => pipe'[p] = pipe[p]
  BY <1>1, <1>3 DEF SetPipes
<1>4. CASE TaskRestartOpens(t)
  <2>1. CASE TaskIsCurrent(t)
    BY <1>2, <1>3, <1>4, <2>1, AttemptOpensOrGivesUp DEF TaskRestartOpens
  <2>2. CASE ~TaskIsCurrent(t)
    BY <1>2, <1>3, <1>4, <2>2, AttemptOpensOrGivesUp DEF TaskRestartOpens
  <2> QED
    BY <2>1, <2>2
<1>5. CASE TaskOpened(t)
  <2>1. CASE TaskIsCurrent(t)
    BY <1>2, <1>5, <2>1, AttemptOpensOrGivesUp DEF TaskOpened
  <2>2. CASE ~TaskIsCurrent(t)
    BY <1>2, <1>3, <1>5, <2>2, AttemptOpensOrGivesUp DEF TaskOpened
  <2> QED
    BY <2>1, <2>2
<1>6. CASE TaskInstall(t) /\ ~open
  BY <1>2, <1>3, <1>6, AttemptOpensOrGivesUp DEF TaskInstall
<1> QED
  BY <1>4, <1>5, <1>6

(* The steps of handlers and attempts that touch no pipeline               *)
LEMMA TaskStepMoves ==
  ASSUME TypeOK, Ownership, NEW t \in Tasks,
         \/ TaskCheck(t) \/ (TaskSession(t) /\ ~open) \/ TaskStatus(t)
         \/ TaskTerminal(t) \/ TaskSurvey(t) \/ TaskBackoff(t) \/ TaskContext(t)
         \/ TaskPanics(t) \/ TaskPanicCheck(t) \/ TaskResumed(t)
         \/ \E retry \in BOOLEAN : TaskRestartFails(t, retry)
  PROVE  Ownership'
<1> USE DEF stateVars, sessionVars, pipeVars, startVars, stopVars
<1>1. /\ UNCHANGED <<pipes, startPc, startReq, stopPc, taskSrc>>
      /\ taskPc[t] \in LatePcs => taskPc[t] = "resumed"
  BY DEF TaskCheck, TaskSession, TaskStatus, TaskTerminal, TaskSurvey, TaskBackoff,
         TaskContext, TaskPanics, TaskPanicCheck, TaskResumed, TaskRestartFails, pipes,
         LatePcs, AttemptPcs
<1>2. \E pc \in TaskPcs \ AttemptPcs :
         GoTask(t, pc) /\ (taskPc[t] = "resumed" => pc = "done")
  BY DEF TaskCheck, TaskSession, TaskStatus, TaskTerminal, TaskSurvey, TaskBackoff,
         TaskContext, TaskPanics, TaskPanicCheck, TaskResumed, TaskRestartFails,
         AttemptPcs, TaskPcs
<1> QED
  BY <1>1, <1>2, TaskMoves DEF GoTask, TypeOK, LatePcs, AttemptPcs

(* A fault occupies a handler and changes nothing else.                    *)
LEMMA FaultRaised ==
  ASSUME TypeOK, Ownership, NEW p \in Pipes, NEW thread, NEW retry, NEW t \in Tasks,
         Raise(p, thread, retry, t)
  PROVE  Ownership'
<1>1. /\ UNCHANGED <<pipes, startPc, startReq, stopPc>>
      /\ taskPc' = [taskPc EXCEPT ![t] = taskPc'[t]]
      /\ taskPc[t] = "free" /\ taskPc'[t] = "check"
      /\ \A u \in Tasks : u # t => taskSrc'[u] = taskSrc[u]
  BY DEF Raise, pipes, stateVars, sessionVars, startVars, stopVars, TypeOK
<1> QED
  BY <1>1, TaskMoves DEF LatePcs, AttemptPcs

(* The steps of a stop that touch no pipeline                              *)
LEMMA StopStepMoves ==
  ASSUME TypeOK, Ownership, NEW c \in StopCalls,
         StopBegin(c) \/ StopLook(c) \/ StopApply(c) \/ StopCheck(c) \/ StopCommit(c)
  PROVE  Ownership'
<1>1. UNCHANGED <<pipes, startPc, startReq, taskPc, taskSrc>>
  BY DEF StopBegin, StopLook, StopApply, StopCheck, StopCommit, pipes, stateVars,
         sessionVars, pipeVars, startVars, taskVars
<1>2. \E pc \in StopPcs \ {"new"} :
         /\ GoStop(c, pc)
         /\ pc \in {"look", "take"} => stopPc[c] \in {"new", "look", "take"}
  BY DEF StopBegin, StopLook, StopApply, StopCheck, StopCommit, StopPcs
<1> QED
  BY <1>1, <1>2, StopMoves

(* The watchdogs, the first-signal callback, the clock and the device list *)
LEMMA OtherSteps ==
  ASSUME TypeOK, Ownership,
         \/ \E c \in StartCalls : StartDogStep(c)
         \/ \E c \in StopCalls : StopDogStep(c)
         \/ ShutdownBegin
         \/ \E p \in Pipes : SignalStep(p)
         \/ \E s \in Sources : HealthAges(s)
         \/ \E found \in BOOLEAN : ListMicrophones(found)
         \/ UNCHANGED vars
  PROVE  Ownership'
<1> USE DEF stateVars, sessionVars, pipeVars, startVars, stopVars, taskVars
<1> DEFINE Idle == UNCHANGED <<pipes, startPc, startReq, stopPc, taskPc, taskSrc>>
<1>1. ASSUME NEW c \in StartCalls, StartDogStep(c)
      PROVE  Idle
  BY <1>1 DEF StartDogStep, StartDogExpires, StartDogExchanges, StartDogCommits, pipes
<1>2. ASSUME NEW c \in StopCalls, StopDogStep(c)
      PROVE  Idle
  BY <1>2 DEF StopDogStep, StopDogExpires, StopDogCommits, pipes
<1>3. CASE ShutdownBegin
  BY <1>3, NothingMoves DEF ShutdownBegin, pipes
<1>4. ASSUME NEW p \in Pipes, SignalStep(p)
      PROVE  Idle
  BY <1>4 DEF SignalStep, SignalCheck, SignalMark, SignalHealth, pipes
<1>5. ASSUME NEW s \in Sources, HealthAges(s)
      PROVE  Idle
  BY <1>5 DEF HealthAges, pipes
<1>6. ASSUME NEW found \in BOOLEAN, ListMicrophones(found)
      PROVE  Idle
  BY <1>6 DEF ListMicrophones, pipes
<1>7. CASE UNCHANGED vars
  BY <1>7, NothingMoves DEF vars, pipes
<1> QED
  BY <1>1, <1>2, <1>3, <1>4, <1>5, <1>6, <1>7, NothingMoves

-----------------------------------------------------------------------------
LEMMA OwnershipInitially == Init => Ownership
<1> SUFFICES ASSUME Init
             PROVE  Ownership
  OBVIOUS
<1>1. OneOwner
  BY ConstantAssumption, PipeParts DEF Init, OneOwner, InSlot
<1>2. SlotsMatch
  BY DEF Init, SlotsMatch
<1>3. StartOwns
  BY PipeParts DEF Init, StartOwns, OwnsUntilInstalled, Expected, Unowned
<1>4. TaskOwns
  BY PipeParts DEF Init, TaskOwns, OpensOnce, AttemptPcs
<1>5. StopOwns
  BY DEF Init, StopOwns
<1> QED
  BY <1>1, <1>2, <1>3, <1>4, <1>5 DEF Ownership

(* The inductive invariant behind the two theorems below                   *)
THEOREM OwnershipInvariant == Spec => []Ownership
<1>1. Init => Ownership
  BY OwnershipInitially
<1>2. TypeOK /\ Ownership /\ [Next]_vars => Ownership'
  <2> SUFFICES ASSUME TypeOK, Ownership, [Next]_vars
               PROVE  Ownership'
    OBVIOUS
  <2>1. ASSUME NEW c \in StartCalls, NEW req \in Requests,
               StartRejected(c, req) \/ StartBegin(c, req)
        PROVE  Ownership'
    BY <2>1, StartFailsOrProceeds
  <2>2. ASSUME NEW c \in StartCalls, StartStep(c)
        PROVE  Ownership'
    <3>1. CASE \/ StartModelReturns(c) \/ StartMicFails(c)
               \/ StartFailCheck(c) \/ StartFailApply(c)
      BY <3>1, StartFailsOrProceeds DEF StartModelReturns
    <3>2. CASE StartMicOpens(c) \/ StartMicDone(c) \/ StartSysReturns(c) \/ StartCheck(c)
      BY <3>2, StartOpensDevices DEF StartSysReturns
    <3>3. CASE StartInstall(c) \/ StartDropped(c) \/ StartCommit(c)
      BY <3>3, StartInstalls, StartCommits
    <3> QED
      BY <2>2, <3>1, <3>2, <3>3 DEF StartStep, StartMicReturns, StartThread
  <2>3. ASSUME NEW c \in StopCalls, StopBegin(c) \/ StopStep(c)
        PROVE  Ownership'
    BY <2>3, StopStepMoves, StopTakes, StopJoins DEF StopStep, StopThread
  <2>4. CASE ShutdownStep
    BY <2>4, ShutdownTakes, OthersJoin DEF ShutdownStep
  <2>5. ASSUME NEW t \in Tasks, HandlerStep(t) \/ RecoveryStep(t)
        PROVE  Ownership'
    <3>1. CASE TaskSession(t)
      BY <3>1, TaskTakesSource, TaskStepMoves
    <3>2. CASE TaskInstall(t)
      BY <3>2, TaskInstallsPipe, AttemptStepOwns
    <3>3. CASE TaskRestartOpens(t) \/ TaskOpened(t)
      BY <3>3, AttemptStepOwns
    <3>4. CASE TaskDropped(t)
      BY <3>4, OthersJoin
    <3> QED
      BY <2>5, <3>1, <3>2, <3>3, <3>4, TaskStepMoves DEF HandlerStep, RecoveryStep
  <2>6. ASSUME NEW p \in Pipes, AbandonJoined(p)
        PROVE  Ownership'
    BY <2>6, OthersJoin
  <2>7. ASSUME NEW p \in Pipes, NEW thread \in {"monitor", "worker"},
               NEW retry \in BOOLEAN, NEW t \in Tasks, Raise(p, thread, retry, t)
        PROVE  Ownership'
    BY <2>7, FaultRaised
  <2> QED
    BY <2>1, <2>2, <2>3, <2>4, <2>5, <2>6, <2>7, OtherSteps
    DEF Next, InternalStep, PipeStep
<1> QED
  BY <1>1, <1>2, TypeCorrect, PTL DEF Spec

(* Every running pipeline belongs to exactly one of the call that opens    *)
(* it, the session slot of its source, or one stop call, whatever number   *)
(* of starts, stops, faults, watchdogs and attempts interleave.            *)
THEOREM PipelinesHaveOneOwner == Spec => []SingleOwner
<1>1. TypeOK /\ Ownership => SingleOwner
  BY OwnershipImplies
<1> QED
  BY <1>1, TypeCorrect, OwnershipInvariant, PTL

(* A start_capture that answered with an error has nothing open.           *)
THEOREM StartIsAtomic == Spec => []AtomicStart
<1>1. TypeOK /\ Ownership => AtomicStart
  BY OwnershipImplies
<1> QED
  BY <1>1, TypeCorrect, OwnershipInvariant, PTL

-----------------------------------------------------------------------------
(* Who pays for a recovery attempt.  Only a start opens the session, so    *)
(* before one has installed it no handler gets past its session section;   *)
(* an attempt is charged when it begins, and nothing but a first signal    *)
(* and a new session takes a charge back.                                  *)
NoneHeard == \A p \in Pipes : signal[p] # "done"
Uninstalled == \A c \in StartCalls : startPc[c] \notin Installed
EarlyPcs == {"free", "check", "session", "done"}

Dated ==
  /\ \A c \in StartCalls : startGen[c] <= generation
  /\ \A t \in Tasks : taskGen[t] <= generation
NotYetOpen == Uninstalled => ~open /\ \A t \in Tasks : taskPc[t] \in EarlyPcs
Unearned == NoneHeard => \A s \in Sources : health[s] = "unset"
WithinBudget(s) == IsFiniteSet(Attempts(s)) /\ Cardinality(Attempts(s)) <= used[s]
Charged == FirstSession /\ open /\ NoneHeard => \A s \in Sources : WithinBudget(s)

Paid == Dated /\ NotYetOpen /\ Unearned /\ Charged

(* A start call only moves forward.                                        *)
Forward ==
  \A c \in StartCalls :
    /\ startPc[c] \in Installed => startPc'[c] \in Installed
    /\ startPc[c] \notin {"new", "rejected"} => startPc'[c] \notin {"new", "rejected"}

(* What leaves the session, or closes it, and begins no attempt leaves     *)
(* every attempt paid for.                                                 *)
LEMMA NothingCharged ==
  ASSUME TypeOK, Paid, Forward, Dated', Unearned',
         NoneHeard' => NoneHeard,
         open' => open /\ used' = used,
         \A t \in Tasks : taskPc[t] \in EarlyPcs => taskPc'[t] \in EarlyPcs \/ open,
         \A s \in Sources : Attempts(s)' \subseteq Attempts(s)
  PROVE  Paid'
<1>1. NotYetOpen'
  <2>1. Uninstalled' => Uninstalled
    BY DEF Forward, Uninstalled
  <2> QED
    BY <2>1 DEF Paid, NotYetOpen
<1>2. Charged'
  <2> SUFFICES ASSUME FirstSession', open', NoneHeard', NEW s \in Sources
               PROVE  WithinBudget(s)'
    BY DEF Charged
  <2>1. FirstSession
    BY DEF Forward, FirstSession
  <2>2. IsFiniteSet(Attempts(s)) /\ Cardinality(Attempts(s)) <= used[s]
    BY <2>1 DEF Paid, Charged, WithinBudget
  <2>3. /\ IsFiniteSet(Attempts(s)') /\ Cardinality(Attempts(s)') <= Cardinality(Attempts(s))
        /\ Cardinality(Attempts(s)') \in Nat /\ Cardinality(Attempts(s)) \in Nat
    BY <2>2, FS_Subset, FS_CardinalityType
  <2>4. used'[s] = used[s] /\ used[s] \in Nat
    BY ConstantAssumption DEF TypeOK
  <2> QED
    BY <2>2, <2>3, <2>4 DEF WithinBudget
<1> QED
  BY <1>1, <1>2 DEF Paid

(* A new generation ends every attempt.                                    *)
LEMMA GenerationMoves ==
  ASSUME TypeOK, Paid, Forward,
         generation' = generation + 1,
         \A c \in StartCalls : startGen'[c] \in {startGen[c], generation + 1},
         UNCHANGED <<open, used, health, signal, taskVars>>
  PROVE  Paid'
<1>1. /\ generation \in Nat
      /\ \A t \in Tasks : taskGen[t] \in Nat /\ taskGen[t] <= generation
      /\ \A c \in StartCalls : startGen[c] \in Nat /\ startGen[c] <= generation
  BY DEF TypeOK, Paid, Dated
<1>2. Dated'
  <2>1. \A c \in StartCalls : startGen'[c] <= generation'
    BY <1>1
  <2>2. \A t \in Tasks : taskGen'[t] <= generation'
    BY <1>1 DEF taskVars
  <2> QED
    BY <2>1, <2>2 DEF Dated
<1>3. Unearned' /\ (NoneHeard' => NoneHeard)
  BY DEF Paid, Unearned, NoneHeard
<1>4. \A s \in Sources : Attempts(s)' = {}
  <2>1. \A t \in Tasks : taskGen'[t] # generation'
    BY <1>1 DEF taskVars
  <2> QED
    BY <2>1 DEF Attempts, TaskIsCurrent
<1> QED
  BY <1>2, <1>3, <1>4, NothingCharged DEF taskVars

(* Within a generation, what leaves the tasks alone                        *)
LEMMA TasksAlone ==
  ASSUME TypeOK, Paid, Forward, Unearned',
         NoneHeard' => NoneHeard,
         open' => open /\ used' = used,
         UNCHANGED <<generation, startGen, taskVars>>
  PROVE  Paid'
<1>1. Dated'
  BY DEF Paid, Dated, taskVars
<1>2. \A s \in Sources : Attempts(s)' = Attempts(s)
  BY DEF Attempts, TaskIsCurrent, taskVars
<1> QED
  BY <1>1, <1>2, NothingCharged DEF taskVars

LEMMA StartsPaid ==
  ASSUME TypeOK, Paid, NEW c \in StartCalls,
         \/ \E req \in Requests : StartRejected(c, req) \/ StartBegin(c, req)
         \/ StartModelReturns(c) \/ StartMicReturns(c) \/ StartSysReturns(c)
         \/ StartMicDone(c) \/ StartCheck(c) \/ StartDropped(c) \/ StartCommit(c)
         \/ StartFailCheck(c) \/ StartFailApply(c) \/ StartDogStep(c)
  PROVE  Paid'
<1> USE DEF sessionVars, pipeVars, startVars
<1>1. ASSUME NEW req \in Requests, StartBegin(c, req)
      PROVE  Paid'
  <2>1. Forward
    BY <1>1 DEF StartBegin, GoStart, Forward, TypeOK, Installed
  <2>2. \A d \in StartCalls : startGen'[d] \in {startGen[d], generation + 1}
    BY <1>1 DEF StartBegin, TypeOK
  <2> QED
    BY <1>1, <2>1, <2>2, GenerationMoves DEF StartBegin
<1>2. CASE StartDogStep(c)
  <2>1. Forward
    BY <1>2 DEF StartDogStep, StartDogExpires, StartDogExchanges, StartDogCommits, Forward
  <2>2. /\ generation' \in {generation, generation + 1}
        /\ UNCHANGED <<open, used, health, signal, startGen, taskVars>>
    BY <1>2 DEF StartDogStep, StartDogExpires, StartDogExchanges, StartDogCommits
  <2>3. CASE generation' = generation + 1
    BY <2>1, <2>2, <2>3, GenerationMoves
  <2>4. CASE generation' = generation
    BY <2>1, <2>2, <2>4, TasksAlone DEF Paid, Unearned, NoneHeard
  <2> QED
    BY <2>2, <2>3, <2>4
<1>3. ASSUME \/ \E req \in Requests : StartRejected(c, req)
             \/ StartModelReturns(c) \/ StartMicReturns(c) \/ StartSysReturns(c)
             \/ StartMicDone(c) \/ StartCheck(c) \/ StartDropped(c) \/ StartCommit(c)
             \/ StartFailCheck(c) \/ StartFailApply(c)
      PROVE  Paid'
  <2>1. \E pc \in StartPcs :
          /\ GoStart(c, pc)
          /\ startPc[c] \in Installed => pc \in Installed
          /\ startPc[c] \notin {"new", "rejected"} => pc \notin {"new", "rejected"}
    BY <1>3 DEF StartRejected, StartModelReturns, StartModelFails, StartModelReady,
         StartMicReturns, StartMicFails, StartMicOpens, StartSysReturns, StartSysFails,
         StartSysOpens, StartMicDone, StartCheck, StartDropped, StartCommit, StartFailCheck,
         StartFailApply, Installed, StartPcs
  <2>2. Forward
    BY <2>1 DEF GoStart, Forward, TypeOK
  <2>3. UNCHANGED <<generation, open, used, health, signal, startGen, taskVars>>
    BY <1>3 DEF StartRejected, StartModelReturns, StartModelFails, StartModelReady,
         StartMicReturns, StartMicFails, StartMicOpens, StartSysReturns, StartSysFails,
         StartSysOpens, StartMicDone, StartCheck, StartDropped, StartCommit, StartFailCheck,
         StartFailApply
  <2> QED
    BY <2>2, <2>3, TasksAlone DEF Paid, Unearned, NoneHeard
<1> QED
  BY <1>1, <1>2, <1>3

(* The first start installs its session while no attempt exists.           *)
LEMMA InstallPaid ==
  ASSUME TypeOK, Paid, NEW c \in StartCalls, StartInstall(c)
  PROVE  Paid'
<1>1. /\ startPc[c] = "install" /\ startPc'[c] \in Installed
      /\ \A d \in StartCalls : d # c => startPc'[d] = startPc[d]
      /\ used' = [s \in Sources |-> 0] /\ health' = [s \in Sources |-> "unset"]
      /\ UNCHANGED <<generation, signal, startGen, taskVars>>
  BY DEF StartInstall, GoStart, TypeOK, Installed
<1>2. ~Uninstalled'
  BY <1>1 DEF Uninstalled
<1>3. Dated' /\ Unearned'
  BY <1>1 DEF Paid, Dated, Unearned, taskVars
<1>4. ASSUME FirstSession', NEW s \in Sources
      PROVE  WithinBudget(s)'
  <2>1. \A d \in StartCalls : d # c => startPc[d] \in {"new", "rejected"}
    BY <1>1, <1>4 DEF FirstSession, Installed
  <2>2. Uninstalled
    BY <1>1, <2>1 DEF Uninstalled, Installed
  <2>3. \A t \in Tasks : taskPc[t] \in EarlyPcs
    BY <2>2 DEF Paid, NotYetOpen
  <2>4. Attempts(s)' = {}
    BY <1>1, <2>3 DEF Attempts, EarlyPcs, RecoveryPcs, taskVars
  <2>5. used'[s] = 0
    BY <1>1
  <2> QED
    BY <2>4, <2>5, FS_EmptySet DEF WithinBudget
<1> QED
  BY <1>2, <1>3, <1>4 DEF Paid, NotYetOpen, Charged

LEMMA StopsPaid ==
  ASSUME TypeOK, Paid,
         \/ \E c \in StopCalls : StopBegin(c) \/ StopStep(c) \/ StopDogStep(c)
         \/ ShutdownBegin \/ ShutdownStep
  PROVE  Paid'
<1> USE DEF sessionVars, pipeVars, startVars
<1>1. Forward
  BY DEF Forward, StopBegin, StopStep, StopThread, StopLook, StopTake, StopApply, StopJoined,
     StopCheck, StopCommit, StopDogStep, StopDogExpires, StopDogCommits, ShutdownBegin,
     ShutdownStep, ShutdownTake, ShutdownJoined
<1>2. CASE (\E c \in StopCalls : StopBegin(c)) \/ ShutdownBegin
  BY <1>1, <1>2, GenerationMoves DEF StopBegin, ShutdownBegin
<1>3. CASE (\E c \in StopCalls : StopTake(c)) \/ ShutdownTake
  <2>1. /\ ~open' /\ health' = [s \in Sources |-> "unset"]
        /\ UNCHANGED <<generation, signal, startGen, taskVars>>
    BY <1>3 DEF StopTake, ShutdownTake, EmptySession
  <2>2. Unearned' /\ (NoneHeard' => NoneHeard)
    BY <2>1 DEF Unearned, NoneHeard
  <2> QED
    BY <1>1, <2>1, <2>2, TasksAlone
<1>4. CASE \/ \E c \in StopCalls : \/ StopLook(c) \/ StopApply(c) \/ StopJoined(c)
                                   \/ StopCheck(c) \/ StopCommit(c) \/ StopDogStep(c)
           \/ ShutdownJoined
  <2>1. UNCHANGED <<generation, open, used, health, signal, startGen, taskVars>>
    BY <1>4 DEF StopLook, StopApply, StopJoined, StopCheck, StopCommit, StopDogStep,
         StopDogExpires, StopDogCommits, ShutdownJoined
  <2> QED
    BY <1>1, <2>1, TasksAlone DEF Paid, Unearned, NoneHeard
<1> QED
  BY <1>2, <1>3, <1>4 DEF StopStep, StopThread, ShutdownStep

(* A handler that finds the source still in the budget pays for the        *)
(* attempt it begins.                                                      *)
LEMMA AttemptPaid ==
  ASSUME TypeOK, Paid, NEW t \in Tasks, TaskSession(t)
  PROVE  Paid'
<1> DEFINE s == taskSrc[t]
           retry == taskRetry[t] /\ AttemptLeft(s)
<1>1. /\ s \in Sources /\ taskPc[t] = "session"
      /\ UNCHANGED <<generation, stateVars, raised, signal, startVars, stopVars,
                     taskSrc, taskGen, taskRetry, shutPc>>
  BY DEF TaskSession, TypeOK
<1>2. Forward /\ Dated' /\ (NoneHeard' => NoneHeard)
  BY <1>1 DEF Forward, Paid, Dated, NoneHeard, startVars
<1>3. CASE ~open
  <2>1. GoTask(t, "done") /\ UNCHANGED sessionVars
    BY <1>3 DEF TaskSession
  <2>2. \A u \in Tasks : taskPc'[u] = IF u = t THEN "done" ELSE taskPc[u]
    BY <2>1 DEF GoTask, TypeOK
  <2>3. \A r \in Sources : Attempts(r)' \subseteq Attempts(r)
    BY <1>1, <2>2 DEF Attempts, TaskIsCurrent, RecoveryPcs
  <2>4. Unearned'
    BY <1>1, <2>1 DEF Paid, Unearned, NoneHeard, sessionVars
  <2> QED
    BY <1>2, <2>1, <2>2, <2>3, <2>4, NothingCharged DEF sessionVars, EarlyPcs
<1>4. CASE open
  <2>1. /\ open' /\ health' = [health EXCEPT ![s] = "unset"]
        /\ used' = [used EXCEPT ![s] = IF retry THEN AttemptsBase(s) + 1 ELSE AttemptsBase(s)]
        /\ GoTask(t, IF retry THEN "status" ELSE "terminal")
    BY <1>4 DEF TaskSession
  <2>2. \A u \in Tasks :
          taskPc'[u] = IF u = t THEN (IF retry THEN "status" ELSE "terminal") ELSE taskPc[u]
    BY <2>1 DEF GoTask, TypeOK
  <2>3. ~Uninstalled'
    BY <1>1, <1>4 DEF Paid, NotYetOpen, Uninstalled, startVars
  <2>4. Unearned'
    BY <1>1, <2>1 DEF Paid, Unearned, NoneHeard, TypeOK
  <2>5. ASSUME FirstSession', NoneHeard', NEW r \in Sources
        PROVE  WithinBudget(r)'
    <3>1. /\ IsFiniteSet(Attempts(r)) /\ Cardinality(Attempts(r)) <= used[r]
          /\ Cardinality(Attempts(r)) \in Nat /\ used[r] \in Nat
      <4>1. FirstSession
        BY <1>1, <2>5 DEF FirstSession, startVars
      <4> QED
        BY <1>2, <1>4, <2>5, <4>1, FS_CardinalityType, ConstantAssumption
        DEF Paid, Charged, WithinBudget, TypeOK
    <3>2. AttemptsBase(s) = used[s]
      BY <1>1, <1>2, <2>5 DEF Paid, Unearned, AttemptsBase
    <3>3. CASE r = s /\ retry
      <4>1. Attempts(r)' \subseteq Attempts(r) \cup {t}
        BY <1>1, <2>2 DEF Attempts, TaskIsCurrent
      <4>2. /\ IsFiniteSet(Attempts(r) \cup {t})
            /\ Cardinality(Attempts(r) \cup {t}) <= Cardinality(Attempts(r)) + 1
            /\ Cardinality(Attempts(r) \cup {t}) \in Nat
        <5>1. /\ IsFiniteSet(Attempts(r) \cup {t})
              /\ Cardinality(Attempts(r) \cup {t}) =
                   IF t \in Attempts(r) THEN Cardinality(Attempts(r))
                   ELSE Cardinality(Attempts(r)) + 1
          BY <3>1, FS_AddElement
        <5> QED
          BY <3>1, <5>1
      <4>3. /\ IsFiniteSet(Attempts(r)')
            /\ Cardinality(Attempts(r)') <= Cardinality(Attempts(r) \cup {t})
            /\ Cardinality(Attempts(r)') \in Nat
        BY <4>1, <4>2, FS_Subset, FS_CardinalityType
      <4>4. used'[r] = used[r] + 1
        BY <1>1, <2>1, <3>2, <3>3 DEF TypeOK
      <4> QED
        BY <3>1, <4>2, <4>3, <4>4 DEF WithinBudget
    <3>4. CASE ~(r = s /\ retry)
      <4>1. Attempts(r)' \subseteq Attempts(r)
        BY <1>1, <2>2, <3>4 DEF Attempts, TaskIsCurrent, RecoveryPcs
      <4>2. /\ IsFiniteSet(Attempts(r)')
            /\ Cardinality(Attempts(r)') <= Cardinality(Attempts(r))
            /\ Cardinality(Attempts(r)') \in Nat
        BY <3>1, <4>1, FS_Subset, FS_CardinalityType
      <4>3. used'[r] = used[r]
        BY <1>1, <2>1, <3>2, <3>4 DEF TypeOK
      <4> QED
        BY <3>1, <4>2, <4>3 DEF WithinBudget
    <3> QED
      BY <3>3, <3>4
  <2> QED
    BY <1>2, <2>1, <2>3, <2>4, <2>5 DEF Paid, NotYetOpen, Charged
<1> QED
  BY <1>3, <1>4

(* Every other step of a handler or an attempt begins none.                *)
LEMMA TasksPaid ==
  ASSUME TypeOK, Paid, NEW t \in Tasks, HandlerStep(t) \/ RecoveryStep(t), ~TaskSession(t)
  PROVE  Paid'
<1>1. UNCHANGED <<generation, open, used, health, signal, startPc, startGen, taskSrc, taskGen>>
  BY DEF HandlerStep, TaskCheck, TaskStatus, TaskTerminal, TaskSurvey, RecoveryStep, TaskBackoff,
     TaskContext, TaskRestartOpens, TaskPanics, TaskRestartFails, TaskPanicCheck, TaskOpened,
     TaskInstall, TaskDropped, TaskResumed, sessionVars, pipeVars, startVars
<1>2. \E pc \in TaskPcs :
        /\ GoTask(t, pc)
        /\ pc \in RecoveryPcs => taskPc[t] \in RecoveryPcs
        /\ taskPc[t] \in EarlyPcs => pc \in EarlyPcs
  BY DEF HandlerStep, TaskCheck, TaskStatus, TaskTerminal, TaskSurvey, RecoveryStep, TaskBackoff,
     TaskContext, TaskRestartOpens, TaskPanics, TaskRestartFails, TaskPanicCheck, TaskOpened,
     TaskInstall, TaskDropped, TaskResumed, RecoveryPcs, EarlyPcs, TaskPcs
<1>3. /\ \A u \in Tasks : u # t => taskPc'[u] = taskPc[u]
      /\ taskPc'[t] \in RecoveryPcs => taskPc[t] \in RecoveryPcs
      /\ taskPc[t] \in EarlyPcs => taskPc'[t] \in EarlyPcs
  BY <1>2 DEF GoTask, TypeOK
<1>4. \A s \in Sources : Attempts(s)' \subseteq Attempts(s)
  BY <1>1, <1>3 DEF Attempts, TaskIsCurrent
<1>5. Forward /\ Dated' /\ Unearned' /\ (NoneHeard' => NoneHeard)
  BY <1>1 DEF Forward, Paid, Dated, Unearned, NoneHeard
<1>6. \A u \in Tasks : taskPc[u] \in EarlyPcs => taskPc'[u] \in EarlyPcs
  BY <1>3
<1> QED
  BY <1>1, <1>4, <1>5, <1>6, NothingCharged

LEMMA PipesPaid ==
  ASSUME TypeOK, Paid, NEW p \in Pipes, PipeStep(p)
  PROVE  Paid'
<1> USE DEF sessionVars, pipeVars, startVars
<1>1. ASSUME NEW thread \in {"monitor", "worker"}, NEW retry \in BOOLEAN, NEW t \in Tasks,
             Raise(p, thread, retry, t)
      PROVE  Paid'
  <2>1. /\ taskPc[t] = "free" /\ taskPc' = [taskPc EXCEPT ![t] = "check"]
        /\ taskSrc' = [taskSrc EXCEPT ![t] = p[2]]
        /\ taskGen' = [taskGen EXCEPT ![t] = PipeGen(p)]
        /\ UNCHANGED <<generation, open, used, health, signal, startPc, startGen>>
    BY <1>1 DEF Raise
  <2>2. PipeGen(p) <= generation
    BY DEF PipeGen, Pipes, Openers, Paid, Dated
  <2>3. /\ taskPc'[t] = "check" /\ taskGen'[t] = PipeGen(p)
        /\ \A u \in Tasks : u # t =>
             taskPc'[u] = taskPc[u] /\ taskSrc'[u] = taskSrc[u] /\ taskGen'[u] = taskGen[u]
    BY <2>1 DEF TypeOK
  <2>4. Dated'
    BY <2>1, <2>2, <2>3 DEF Paid, Dated
  <2>5. \A s \in Sources : Attempts(s)' \subseteq Attempts(s)
    BY <2>1, <2>3 DEF Attempts, TaskIsCurrent, RecoveryPcs
  <2>6. \A u \in Tasks : taskPc[u] \in EarlyPcs => taskPc'[u] \in EarlyPcs
    BY <2>3 DEF EarlyPcs
  <2>7. Forward /\ Unearned' /\ (NoneHeard' => NoneHeard)
    BY <2>1 DEF Forward, Paid, Unearned, NoneHeard
  <2> QED
    BY <2>1, <2>4, <2>5, <2>6, <2>7, NothingCharged
<1>2. CASE SignalCheck(p) \/ SignalMark(p) \/ AbandonJoined(p)
  <2>1. UNCHANGED <<generation, open, used, health, startPc, startGen, taskVars>>
    BY <1>2 DEF SignalCheck, SignalMark, AbandonJoined
  <2>2. NoneHeard' => NoneHeard
    BY <1>2 DEF SignalCheck, SignalMark, AbandonJoined, NoneHeard, TypeOK
  <2>3. Forward /\ Unearned'
    BY <2>1, <2>2 DEF Forward, Paid, Unearned
  <2> QED
    BY <2>1, <2>2, <2>3, TasksAlone
<1>3. CASE SignalHealth(p)
  <2>1. UNCHANGED <<generation, open, used, startPc, startGen, taskVars>>
    BY <1>3 DEF SignalHealth
  <2>2. ~NoneHeard'
    BY <1>3 DEF SignalHealth, NoneHeard, TypeOK
  <2>3. Forward /\ Unearned'
    BY <2>1, <2>2 DEF Forward, Unearned
  <2> QED
    BY <2>1, <2>2, <2>3, TasksAlone
<1> QED
  BY <1>1, <1>2, <1>3 DEF PipeStep, SignalStep

LEMMA OthersPaid ==
  ASSUME TypeOK, Paid,
         \/ \E s \in Sources : HealthAges(s)
         \/ \E found \in BOOLEAN : ListMicrophones(found)
         \/ UNCHANGED vars
  PROVE  Paid'
<1>1. UNCHANGED <<generation, open, used, signal, startPc, startGen, taskVars>>
  BY DEF HealthAges, ListMicrophones, vars, sessionVars, pipeVars, startVars
<1>2. Forward /\ (NoneHeard' => NoneHeard)
  BY <1>1 DEF Forward, NoneHeard
<1>3. Unearned'
  <2>1. ASSUME NEW s \in Sources, HealthAges(s)
        PROVE  ~NoneHeard'
    BY <1>2, <2>1 DEF HealthAges, Paid, Unearned
  <2>2. CASE UNCHANGED health
    BY <1>2, <2>2 DEF Paid, Unearned
  <2> QED
    BY <2>1, <2>2 DEF Unearned, ListMicrophones, vars, sessionVars
<1> QED
  BY <1>1, <1>2, <1>3, TasksAlone

(* The inductive invariant behind the theorem below                        *)
THEOREM ChargesInvariant == Spec => []Paid
<1>1. Init => Paid
  <2> SUFFICES ASSUME Init PROVE Paid
    OBVIOUS
  <2>1. Dated
    BY DEF Init, Dated
  <2>2. NotYetOpen
    BY DEF Init, NotYetOpen, EarlyPcs
  <2>3. Unearned /\ Charged
    BY DEF Init, Unearned, Charged
  <2> QED
    BY <2>1, <2>2, <2>3 DEF Paid
<1>2. TypeOK /\ Paid /\ [Next]_vars => Paid'
  BY StartsPaid, InstallPaid, StopsPaid, AttemptPaid, TasksPaid, PipesPaid, OthersPaid
  DEF Next, InternalStep, StartStep, StartThread
<1> QED
  BY <1>1, <1>2, TypeCorrect, PTL DEF Spec

(* Every recovery attempt of the first session is paid for: handlers that  *)
(* decide about one outage at the same time cannot both take the last      *)
(* attempt of the budget.                                                  *)
THEOREM EveryRecoveryIsPaid == Spec => []RecoveriesPaidFor
<1>1. Paid => RecoveriesPaidFor
  BY DEF Paid, Charged, WithinBudget, NoneHeard, RecoveriesPaidFor
<1> QED
  BY <1>1, ChargesInvariant, PTL

-----------------------------------------------------------------------------
(* Nothing leaks.  A pipeline leaves its slot for the hands of a thread    *)
(* that is still running: a teardown in place holds the session mutex      *)
(* until every pipeline it dropped is joined, and a stop keeps what it     *)
(* took until it has joined it.                                            *)
Swept == SessionFree => Dropped = {}
HeldWhileJoining ==
  \A c \in StopCalls : stopHeld[c] # {} => stopPc[c] \in {"apply", "joining"}
Accountable == Swept /\ HeldWhileJoining

(* Steps of the threads that may hold the session mutex, away from it      *)
LEMMA MutexKept ==
  ASSUME Swept,
         SessionFree' => SessionFree,
         \A p \in Pipes : pipe'[p] = "dropped" => pipe[p] = "dropped"
  PROVE  Swept'
BY DEF Swept, Dropped

LEMMA StartsSwept ==
  ASSUME TypeOK, Swept, NEW c \in StartCalls,
         (\E req \in Requests : StartRejected(c, req) \/ StartBegin(c, req)) \/ StartStep(c)
  PROVE  Swept'
<1>1. CASE StartInstall(c)
  <2>1. /\ SessionFree /\ SetPipes(InSlots, "dropped")
        /\ startPc' = [startPc EXCEPT ![c] = IF InSlots = {} THEN "commit" ELSE "dropping"]
    BY <1>1 DEF StartInstall, GoStart
  <2>2. CASE InSlots = {}
    BY <2>1, <2>2 DEF Swept, Dropped, SetPipes
  <2>3. CASE InSlots # {}
    BY <2>1, <2>3 DEF Swept, SessionFree, TypeOK
  <2> QED
    BY <2>2, <2>3
<1>2. CASE StartDropped(c)
  <2>1. \A p \in Pipes : pipe'[p] # "dropped"
    BY <1>2 DEF StartDropped, SetPipes, Dropped
  <2> QED
    BY <2>1 DEF Swept, Dropped
<1>3. ASSUME ~StartInstall(c), ~StartDropped(c)
      PROVE  Swept'
  <2>1. \E pc \in StartPcs : GoStart(c, pc) /\ pc # "dropping" /\ startPc[c] # "dropping"
    BY <1>3 DEF StartRejected, StartBegin, StartStep, StartModelReturns, StartModelFails,
       StartModelReady, StartMicReturns, StartMicFails, StartMicOpens, StartSysReturns,
       StartSysFails, StartSysOpens, StartThread, StartMicDone, StartCheck, StartCommit,
       StartFailCheck, StartFailApply, StartPcs
  <2>2. UNCHANGED <<taskPc, shutPc>>
    BY <1>3 DEF StartRejected, StartBegin, StartStep, StartModelReturns, StartModelFails,
       StartModelReady, StartMicReturns, StartMicFails, StartMicOpens, StartSysReturns,
       StartSysFails, StartSysOpens, StartThread, StartMicDone, StartCheck, StartCommit,
       StartFailCheck, StartFailApply, taskVars
  <2>3. SessionFree' => SessionFree
    BY <2>1, <2>2 DEF SessionFree, GoStart, TypeOK
  <2>4. \A p \in Pipes : pipe'[p] = "dropped" => pipe[p] = "dropped"
    BY <1>3 DEF StartRejected, StartBegin, StartStep, StartModelReturns, StartModelFails,
       StartModelReady, StartMicReturns, StartMicFails, StartMicOpens, StartSysReturns,
       StartSysFails, StartSysOpens, StartThread, StartMicDone, StartCheck, StartCommit,
       StartFailCheck, StartFailApply, pipeVars, SetPipes
  <2> QED
    BY <2>3, <2>4, MutexKept
<1> QED
  BY <1>1, <1>2, <1>3

LEMMA TasksSwept ==
  ASSUME TypeOK, Swept, NEW t \in Tasks, HandlerStep(t) \/ RecoveryStep(t)
  PROVE  Swept'
<1>1. CASE TaskInstall(t)
  <2>1. SessionFree
    BY <1>1 DEF TaskInstall
  <2>2. CASE ~open
    <3>1. \A p \in Pipes : pipe'[p] = "dropped" => pipe[p] = "dropped"
      BY <1>1, <2>2 DEF TaskInstall, SetPipes
    <3> QED
      BY <2>1, <3>1 DEF Swept, Dropped
  <2>3. CASE open /\ slot[taskSrc[t]] = NoPipe
    <3>1. UNCHANGED <<startPc, shutPc>> /\ SetPipes({}, "dropped")
      BY <1>1, <2>3 DEF TaskInstall, Replaced, startVars
    <3> QED
      BY <2>1, <3>1 DEF Swept, Dropped, SetPipes
  <2>4. CASE open /\ slot[taskSrc[t]] # NoPipe
    <3>1. GoTask(t, "dropping")
      BY <1>1, <2>4 DEF TaskInstall
    <3> QED
      BY <3>1 DEF GoTask, Swept, SessionFree, TypeOK
  <2> QED
    BY <2>2, <2>3, <2>4
<1>2. CASE TaskDropped(t)
  <2>1. \A p \in Pipes : pipe'[p] # "dropped"
    BY <1>2 DEF TaskDropped, SetPipes, Dropped
  <2> QED
    BY <2>1 DEF Swept, Dropped
<1>3. ASSUME ~TaskInstall(t), ~TaskDropped(t)
      PROVE  Swept'
  <2>1. \E pc \in TaskPcs : GoTask(t, pc) /\ taskPc[t] # "dropping"
    BY <1>3 DEF HandlerStep, RecoveryStep, TaskCheck, TaskSession, TaskStatus, TaskTerminal,
       TaskSurvey, TaskBackoff, TaskContext, TaskRestartOpens, TaskPanics, TaskRestartFails,
       TaskPanicCheck, TaskOpened, TaskResumed, TaskPcs
  <2>2. UNCHANGED <<startPc, shutPc>>
    BY <1>3 DEF HandlerStep, RecoveryStep, TaskCheck, TaskSession, TaskStatus, TaskTerminal,
       TaskSurvey, TaskBackoff, TaskContext, TaskRestartOpens, TaskPanics, TaskRestartFails,
       TaskPanicCheck, TaskOpened, TaskResumed, startVars
  <2>3. SessionFree' => SessionFree
    BY <2>1, <2>2 DEF SessionFree, GoTask, TypeOK
  <2>4. \A p \in Pipes : pipe'[p] = "dropped" => pipe[p] = "dropped"
    BY <1>3 DEF HandlerStep, RecoveryStep, TaskCheck, TaskSession, TaskStatus, TaskTerminal,
       TaskSurvey, TaskBackoff, TaskContext, TaskRestartOpens, TaskPanics, TaskRestartFails,
       TaskPanicCheck, TaskOpened, TaskResumed, pipeVars, SetPipes
  <2> QED
    BY <2>3, <2>4, MutexKept
<1> QED
  BY <1>1, <1>2, <1>3

LEMMA OthersSwept ==
  ASSUME TypeOK, Swept,
         \/ \E c \in StartCalls : StartDogStep(c)
         \/ \E c \in StopCalls : StopBegin(c) \/ StopStep(c) \/ StopDogStep(c)
         \/ ShutdownBegin \/ ShutdownStep
         \/ \E p \in Pipes : PipeStep(p)
         \/ \E s \in Sources : HealthAges(s)
         \/ \E found \in BOOLEAN : ListMicrophones(found)
         \/ UNCHANGED vars
  PROVE  Swept'
<1> USE DEF pipeVars, startVars, taskVars
<1>1. CASE ShutdownTake
  <2>1. SessionFree /\ SetPipes(InSlots, "dropped")
        /\ shutPc' = IF InSlots = {} THEN "done" ELSE "dropping"
    BY <1>1 DEF ShutdownTake
  <2> QED
    BY <2>1 DEF Swept, SessionFree, Dropped, SetPipes
<1>2. CASE ShutdownJoined
  <2>1. \A p \in Pipes : pipe'[p] # "dropped"
    BY <1>2 DEF ShutdownJoined, SetPipes, Dropped
  <2> QED
    BY <2>1 DEF Swept, Dropped
<1>3. ASSUME ~ShutdownTake, ~ShutdownJoined
      PROVE  Swept'
  <2>1. SessionFree' => SessionFree
    <3>1. CASE ShutdownBegin
      BY <3>1 DEF ShutdownBegin, SessionFree
    <3>2. ASSUME NEW p \in Pipes, PipeStep(p)
          PROVE  SessionFree' => SessionFree
      <4>1. UNCHANGED <<startPc, shutPc>>
        BY <3>2 DEF PipeStep, SignalStep, SignalCheck, SignalMark, SignalHealth, AbandonJoined,
           Raise
      <4>2. \A t \in Tasks : taskPc'[t] = taskPc[t] \/ taskPc[t] = "free"
        BY <3>2 DEF PipeStep, SignalStep, SignalCheck, SignalMark, SignalHealth, AbandonJoined,
           Raise, TypeOK
      <4> QED
        BY <4>1, <4>2 DEF SessionFree
    <3>3. ASSUME ~ShutdownBegin, \A p \in Pipes : ~PipeStep(p)
          PROVE  UNCHANGED <<startPc, taskPc, shutPc>>
      BY <1>3, <3>3 DEF StartDogStep, StartDogExpires, StartDogExchanges, StartDogCommits,
         StopBegin, StopStep, StopThread, StopLook, StopTake, StopApply, StopJoined, StopCheck,
         StopCommit, StopDogStep, StopDogExpires, StopDogCommits, ShutdownStep, HealthAges,
         ListMicrophones, vars
    <3> QED
      BY <3>1, <3>2, <3>3 DEF SessionFree
  <2>2. \A p \in Pipes : pipe'[p] = "dropped" => pipe[p] = "dropped"
    <3>1. ASSUME NEW c \in StopCalls, StopJoined(c), NEW p \in Pipes, pipe'[p] = "dropped"
          PROVE  pipe[p] = "dropped"
      BY <3>1 DEF StopJoined, SetPipes
    <3>2. ASSUME NEW q \in Pipes, AbandonJoined(q), NEW p \in Pipes, pipe'[p] = "dropped"
          PROVE  pipe[p] = "dropped"
      BY <3>2 DEF AbandonJoined, SetPipes
    <3>3. ASSUME \A c \in StopCalls : ~StopJoined(c), \A p \in Pipes : ~AbandonJoined(p)
          PROVE  UNCHANGED pipe
      <4>1. CASE \/ \E c \in StartCalls : StartDogStep(c)
                 \/ \E c \in StopCalls : StopBegin(c) \/ StopStep(c) \/ StopDogStep(c)
        BY <3>3, <4>1 DEF StartDogStep, StartDogExpires, StartDogExchanges, StartDogCommits,
           StopBegin, StopStep, StopThread, StopLook, StopTake, StopApply, StopCheck,
           StopCommit, StopDogStep, StopDogExpires, StopDogCommits
      <4>2. ASSUME NEW p \in Pipes, PipeStep(p)
            PROVE  UNCHANGED pipe
        BY <3>3, <4>2 DEF PipeStep, SignalStep, SignalCheck, SignalMark, SignalHealth, Raise
      <4>3. CASE \/ ShutdownBegin \/ ShutdownStep
                 \/ \E s \in Sources : HealthAges(s)
                 \/ \E found \in BOOLEAN : ListMicrophones(found)
                 \/ UNCHANGED vars
        BY <1>3, <4>3 DEF ShutdownBegin, ShutdownStep, HealthAges, ListMicrophones, vars
      <4> QED
        BY <4>1, <4>2, <4>3
    <3> QED
      BY <3>1, <3>2, <3>3
  <2> QED
    BY <2>1, <2>2, MutexKept
<1> QED
  BY <1>1, <1>2, <1>3

(* Between its session section and the end of its joins a stop goes        *)
(* nowhere else.                                                           *)
LEMMA StopsHold ==
  ASSUME TypeOK, Ownership, HeldWhileJoining, [Next]_vars
  PROVE  HeldWhileJoining'
<1>1. ASSUME NEW c \in StopCalls,
             StopBegin(c) \/ StopStep(c)
      PROVE  HeldWhileJoining'
  <2>1. /\ \A d \in StopCalls : d # c => stopPc'[d] = stopPc[d] /\ stopHeld'[d] = stopHeld[d]
        /\ stopHeld'[c] # {} => stopPc'[c] \in {"apply", "joining"}
    BY <1>1 DEF StopBegin, StopStep, StopThread, StopLook, StopTake, StopApply, StopJoined,
       StopCheck, StopCommit, GoStop, TypeOK, HeldWhileJoining, Ownership, StopOwns
  <2> QED
    BY <2>1 DEF HeldWhileJoining
<1> USE DEF stopVars
<1>2. ASSUME NEW c \in StartCalls,
             \/ \E req \in Requests : StartRejected(c, req) \/ StartBegin(c, req)
             \/ StartStep(c) \/ StartDogStep(c)
      PROVE  UNCHANGED <<stopPc, stopHeld>>
  BY <1>2 DEF StartRejected, StartBegin, StartStep, StartModelReturns, StartModelFails,
     StartModelReady, StartMicReturns, StartMicFails, StartMicOpens, StartSysReturns,
     StartSysFails, StartSysOpens, StartThread, StartMicDone, StartCheck, StartInstall,
     StartDropped, StartCommit, StartFailCheck, StartFailApply, StartDogStep,
     StartDogExpires, StartDogExchanges, StartDogCommits
<1>3. ASSUME NEW t \in Tasks, HandlerStep(t) \/ RecoveryStep(t)
      PROVE  UNCHANGED <<stopPc, stopHeld>>
  BY <1>3 DEF HandlerStep, RecoveryStep, TaskCheck, TaskSession, TaskStatus, TaskTerminal,
     TaskSurvey, TaskBackoff, TaskContext, TaskRestartOpens, TaskPanics, TaskRestartFails,
     TaskPanicCheck, TaskOpened, TaskInstall, TaskDropped, TaskResumed
<1>4. ASSUME \/ \E c \in StopCalls : StopDogStep(c)
             \/ ShutdownBegin \/ ShutdownStep
             \/ \E s \in Sources : HealthAges(s)
             \/ \E found \in BOOLEAN : ListMicrophones(found)
             \/ UNCHANGED vars
      PROVE  UNCHANGED <<stopPc, stopHeld>>
  BY <1>4 DEF StopDogStep, StopDogExpires, StopDogCommits, ShutdownBegin, ShutdownStep,
     ShutdownTake, ShutdownJoined, HealthAges, ListMicrophones, vars
<1>5. ASSUME NEW p \in Pipes, PipeStep(p)
      PROVE  UNCHANGED <<stopPc, stopHeld>>
  BY <1>5 DEF PipeStep, SignalStep, SignalCheck, SignalMark, SignalHealth, AbandonJoined, Raise
<1>6. CASE UNCHANGED <<stopPc, stopHeld>>
  BY <1>6 DEF HeldWhileJoining
<1> QED
  BY <1>1, <1>2, <1>3, <1>4, <1>5, <1>6 DEF Next, InternalStep

LEMMA AccountsKept == Spec => []Accountable
<1>1. Init => Accountable
  BY DEF Init, Accountable, Swept, Dropped, HeldWhileJoining
<1>2. TypeOK /\ Ownership /\ Accountable /\ [Next]_vars => Accountable'
  <2> SUFFICES ASSUME TypeOK, Ownership, Accountable, [Next]_vars
               PROVE  Swept' /\ HeldWhileJoining'
    BY DEF Accountable
  <2>1. Swept'
    BY StartsSwept, TasksSwept, OthersSwept DEF Next, InternalStep, Accountable
  <2> QED
    BY <2>1, StopsHold DEF Accountable
<1> QED
  BY <1>1, <1>2, TypeCorrect, OwnershipInvariant, PTL DEF Spec

(* Whatever a start, a recovery or a stop ever opened or took is closed    *)
(* when they are done, unless the session still holds it; also when        *)
(* watchdogs fire, starts fail, recoveries panic and shutdown interferes.  *)
THEOREM NothingLeaks == Spec => []OnlySessionRuns
<1>1. TypeOK /\ Ownership /\ Accountable => OnlySessionRuns
  <2> SUFFICES ASSUME TypeOK, Ownership, Accountable, AtRest, NEW p \in Pipes, p \notin InSlots
               PROVE  Unowned(p)
    BY DEF OnlySessionRuns
  <2>1. SessionFree
    BY DEF AtRest, SessionFree
  <2>2. ~Opening(p)
    BY DEF AtRest, Opening
  <2>3. \A c \in StopCalls : stopHeld[c] = {}
    BY DEF AtRest, Accountable, HeldWhileJoining
  <2>4. pipe[p] # "live"
    BY <2>2, <2>3, SlotOfItsSource DEF Ownership, OneOwner
  <2>5. pipe[p] # "dropped" /\ pipe[p] # "abandoned"
    BY <2>1 DEF Accountable, Swept, Dropped, AtRest
  <2> QED
    BY <2>4, <2>5 DEF TypeOK, Unowned
<1> QED
  BY <1>1, TypeCorrect, OwnershipInvariant, AccountsKept, PTL

-----------------------------------------------------------------------------
(* RuntimeManager implements PipelineOwnership, for any number of          *)
(* commands, handlers and recovery attempts.                               *)

(* The stage of a pipeline, without looking at its opener                  *)
Held(p) == \E c \in StopCalls : p \in stopHeld[c]
StageOf(p) ==
  IF InSlot(p) THEN "installed"
  ELSE IF pipe[p] = "live" THEN IF Held(p) THEN "closing" ELSE "opening"
  ELSE IF pipe[p] \in {"dropped", "abandoned"} THEN "closing"
  ELSE pipe[p]

LEMMA StageDetermined ==
  ASSUME TypeOK, Ownership, NEW p \in Pipes
  PROVE  Stage(p) = StageOf(p)
<1>1. pipe[p] \in {"none", "live", "dropped", "abandoned", "released"}
  BY DEF TypeOK
<1>2. /\ InSlot(p) => pipe[p] = "live" /\ ~Opening(p)
      /\ Held(p) => pipe[p] = "live" /\ ~Opening(p) /\ ~InSlot(p)
      /\ pipe[p] = "live" => Opening(p) \/ InSlot(p) \/ Held(p)
  BY DEF Ownership, OneOwner, Held
<1>3. Stopping(p) # {} <=> Held(p)
  BY DEF Stopping, Held
<1> QED
  BY <1>1, <1>2, <1>3 DEF Stage, StageOf, InSlot

LEMMA StageDeterminedNext ==
  ASSUME TypeOK', Ownership', NEW p \in Pipes
  PROVE  Stage(p)' = StageOf(p)'
<1>1. pipe'[p] \in {"none", "live", "dropped", "abandoned", "released"}
  BY DEF TypeOK
<1>2. /\ InSlot(p)' => pipe'[p] = "live" /\ ~Opening(p)'
      /\ Held(p)' => pipe'[p] = "live" /\ ~Opening(p)' /\ ~InSlot(p)'
      /\ pipe'[p] = "live" => Opening(p)' \/ InSlot(p)' \/ Held(p)'
  BY DEF Ownership, OneOwner, Held
<1>3. Stopping(p)' # {} <=> Held(p)'
  BY DEF Stopping, Held
<1> QED
  BY <1>1, <1>2, <1>3 DEF Stage, StageOf, InSlot

(* What the stage is in each of the cases                                  *)
LEMMA StageCases ==
  ASSUME TypeOK, Ownership, NEW p \in Pipes
  PROVE  /\ InSlot(p) => Stage(p) = "installed" /\ pipe[p] = "live" /\ ~Held(p)
         /\ Held(p) => Stage(p) = "closing" /\ pipe[p] = "live" /\ ~InSlot(p)
         /\ pipe[p] = "live" /\ ~InSlot(p) /\ ~Held(p) => Stage(p) = "opening"
         /\ pipe[p] \in {"dropped", "abandoned"} => Stage(p) = "closing"
         /\ pipe[p] \in {"none", "released"} => Stage(p) = pipe[p]
         /\ Opening(p) /\ pipe[p] = "live" => Stage(p) = "opening"
<1>1. /\ InSlot(p) => pipe[p] = "live" /\ ~Opening(p)
      /\ Held(p) => pipe[p] = "live" /\ ~Opening(p) /\ ~InSlot(p)
  BY DEF Ownership, OneOwner, Held
<1> QED
  BY <1>1, StageDetermined DEF StageOf

LEMMA StageCasesNext ==
  ASSUME TypeOK', Ownership', NEW p \in Pipes
  PROVE  /\ InSlot(p)' => Stage(p)' = "installed" /\ pipe'[p] = "live" /\ ~Held(p)'
         /\ Held(p)' => Stage(p)' = "closing" /\ pipe'[p] = "live" /\ ~InSlot(p)'
         /\ pipe'[p] = "live" /\ ~InSlot(p)' /\ ~Held(p)' => Stage(p)' = "opening"
         /\ pipe'[p] \in {"dropped", "abandoned"} => Stage(p)' = "closing"
         /\ pipe'[p] \in {"none", "released"} => Stage(p)' = pipe'[p]
         /\ Stage(p)' \in PO!Stages
<1>1. /\ InSlot(p)' => pipe'[p] = "live" /\ ~Opening(p)'
      /\ Held(p)' => pipe'[p] = "live" /\ ~Opening(p)' /\ ~InSlot(p)'
  BY DEF Ownership, OneOwner, Held
<1>2. pipe'[p] \in {"none", "live", "dropped", "abandoned", "released"}
  BY DEF TypeOK
<1> QED
  BY <1>1, <1>2, StageDeterminedNext DEF StageOf, PO!Stages

-----------------------------------------------------------------------------
(* From what happens to each pipeline to a step of PipelineOwnership       *)

Abstract == [PO!Next]_stages

LEMMA AbstractTable ==
  /\ PO!Pipelines = Pipes
  /\ \A p \in Pipes : stages[p] = Stage(p) /\ stages'[p] = Stage(p)'
  /\ (\A p \in Pipes : Stage(p)' \in PO!Stages) =>
       stages' \in [PO!Pipelines -> PO!Stages]
BY DEF PO!Pipelines, Pipes, stages

LEMMA Closes ==
  ASSUME TypeOK', Ownership',
         \A p \in Pipes : \/ Stage(p)' = Stage(p)
                          \/ Stage(p) = "installed" /\ Stage(p)' = "closing"
  PROVE  Abstract
BY AbstractTable, StageCasesNext DEF Abstract, PO!Next, PO!Close, PO!Stays, PO!Goes

LEMMA Joins ==
  ASSUME TypeOK', Ownership',
         \A p \in Pipes : \/ Stage(p)' = Stage(p)
                          \/ Stage(p) = "closing" /\ Stage(p)' = "released"
  PROVE  Abstract
BY AbstractTable, StageCasesNext DEF Abstract, PO!Next, PO!Join, PO!Stays, PO!Goes

LEMMA Opens ==
  ASSUME TypeOK', Ownership', NEW p \in Pipes,
         \/ Stage(p) = "none" /\ Stage(p)' = "opening"
         \/ Stage(p) = "opening" /\ Stage(p)' = "closing",
         \A q \in Pipes \ {p} : Stage(q)' = Stage(q)
  PROVE  Abstract
BY AbstractTable, StageCasesNext
   DEF Abstract, PO!Next, PO!Open, PO!GiveUp, PO!Stays, PO!Goes

LEMMA Refuses ==
  ASSUME TypeOK', Ownership', NEW o \in Openers,
         \A p \in Pipes : \/ Stage(p)' = Stage(p)
                          \/ /\ p[1] = o
                             /\ Stage(p) \in {"none", "opening"} /\ Stage(p)' = "released"
  PROVE  Abstract
BY AbstractTable, StageCasesNext DEF Abstract, PO!Next, PO!Refuse, PO!Stays, PO!Goes

LEMMA Installs ==
  ASSUME TypeOK', Ownership', NEW o \in Openers,
         \A p \in Pipes : \/ Stage(p)' = Stage(p)
                          \/ p[1] = o /\ Stage(p) = "opening" /\ Stage(p)' = "installed"
                          \/ Stage(p) = "installed" /\ Stage(p)' = "closing"
  PROVE  Abstract
<1>1. \A p, q \in Pipes :
        Stage(p)' = "installed" /\ Stage(q)' = "installed" /\ p[2] = q[2] => p = q
  <2>1. \A p \in Pipes : Stage(p)' = "installed" => InSlot(p)'
    <3>1. \A p \in Pipes : pipe'[p] \in {"none", "live", "dropped", "abandoned", "released"}
      BY DEF TypeOK
    <3> QED
      BY <3>1, StageCasesNext
  <2> QED
    BY <2>1 DEF InSlot
<1>2. PO!Install(o)
  BY <1>1, AbstractTable DEF PO!Install, PO!Stays, PO!Goes
<1> QED
  BY <1>2, AbstractTable, StageCasesNext DEF Abstract, PO!Next

-----------------------------------------------------------------------------
(* A start opens each of its pipelines at most once: until then it has     *)
(* never existed.                                                          *)
Fresh ==
  \A c \in StartCalls :
    /\ startPc[c] \in {"new", "model", "mic"} => pipe[StartPipe(c, "microphone")] = "none"
    /\ startPc[c] \in {"new", "model", "mic", "micUp", "sys"} =>
         pipe[StartPipe(c, "system")] = "none"

(* What the invariants say before and after a step                         *)
Known == TypeOK /\ Ownership /\ Fresh /\ TypeOK' /\ Ownership'

(* A pipeline whose record, slot and holder stay as they are stays.        *)
LEMMA StageKept ==
  ASSUME Known, NEW p \in Pipes,
         pipe'[p] = pipe[p], InSlot(p)' <=> InSlot(p), Held(p)' <=> Held(p)
  PROVE  Stage(p)' = Stage(p)
<1>1. StageOf(p)' = StageOf(p)
  BY DEF StageOf
<1> QED
  BY <1>1, StageDetermined, StageDeterminedNext DEF Known

LEMMA NothingHandedOver ==
  ASSUME Known, UNCHANGED pipes
  PROVE  Abstract
<1>1. \A p \in Pipes : Stage(p)' = Stage(p)
  BY StageKept DEF pipes, InSlot, Held
<1> QED
  BY <1>1, Closes DEF Known

(* A pipeline that is live and opening, or has never existed, is in nobody *)
(* else's hands.                                                           *)
LEMMA InOpenersHands ==
  ASSUME TypeOK, Ownership, NEW p \in Pipes,
         Opening(p) \/ pipe[p] # "live"
  PROVE  ~InSlot(p) /\ ~Held(p)
BY DEF Ownership, OneOwner, Held

LEMMA OpenedByIsOpening ==
  ASSUME TypeOK, Ownership, NEW c \in StartCalls, startPc[c] \notin Installed,
         NEW p \in OpenedBy(c)
  PROVE  p \in Pipes /\ p[1] = c /\ pipe[p] = "live" /\ Opening(p)
<1>1. p \in Pipes /\ p[1] = c /\ pipe[p] = "live"
  BY DEF OpenedBy
<1>2. PICK s \in Sources : p = StartPipe(c, s)
  BY <1>1, PipeParts DEF StartPipe
<1> QED
  BY <1>1, <1>2, PipeParts DEF Ownership, StartOwns, OwnsUntilInstalled, Expected,
                               Unowned, Opening, Installed

-----------------------------------------------------------------------------
(* What an opener does with its own pipelines                              *)

LEMMA OpenerOpens ==
  ASSUME Known, UNCHANGED <<slot, stopHeld>>, NEW p \in Pipes,
         pipe[p] = "none", SetPipes({p}, "live")
  PROVE  Abstract
<1>1. \A q \in Pipes : InSlot(q)' <=> InSlot(q)
  BY DEF InSlot
<1>2. \A q \in Pipes : Held(q)' <=> Held(q)
  BY DEF Held
<1>3. Stage(p) = "none" /\ Stage(p)' = "opening"
  BY <1>1, <1>2, InOpenersHands, StageCases, StageCasesNext DEF Known, SetPipes
<1>4. \A q \in Pipes \ {p} : Stage(q)' = Stage(q)
  BY <1>1, <1>2, StageKept DEF SetPipes
<1> QED
  BY <1>3, <1>4, Opens DEF Known

LEMMA OpenerGivesUp ==
  ASSUME Known, UNCHANGED <<slot, stopHeld>>, NEW p \in Pipes,
         pipe[p] = "live", Opening(p), SetPipes({p}, "abandoned")
  PROVE  Abstract
<1>1. \A q \in Pipes : InSlot(q)' <=> InSlot(q)
  BY DEF InSlot
<1>2. \A q \in Pipes : Held(q)' <=> Held(q)
  BY DEF Held
<1>3. Stage(p) = "opening" /\ Stage(p)' = "closing"
  BY StageCases, StageCasesNext DEF Known, SetPipes
<1>4. \A q \in Pipes \ {p} : Stage(q)' = Stage(q)
  BY <1>1, <1>2, StageKept DEF SetPipes
<1> QED
  BY <1>3, <1>4, Opens DEF Known

LEMMA OpenerRefuses ==
  ASSUME Known, UNCHANGED <<slot, stopHeld>>, NEW o \in Openers,
         NEW P \in SUBSET Pipes, SetPipes(P, "released"),
         \A p \in P : p[1] = o /\ (pipe[p] = "none" \/ (pipe[p] = "live" /\ Opening(p)))
  PROVE  Abstract
<1>1. \A q \in Pipes : InSlot(q)' <=> InSlot(q)
  BY DEF InSlot
<1>2. \A q \in Pipes : Held(q)' <=> Held(q)
  BY DEF Held
<1>3. ASSUME NEW p \in P
      PROVE  p[1] = o /\ Stage(p) \in {"none", "opening"} /\ Stage(p)' = "released"
  BY StageCases, StageCasesNext DEF Known, SetPipes
<1>4. \A q \in Pipes \ P : Stage(q)' = Stage(q)
  BY <1>1, <1>2, StageKept DEF SetPipes
<1> QED
  BY <1>3, <1>4, Refuses DEF Known

(* Joining what nobody owns any more                                       *)
LEMMA GoneJoined ==
  ASSUME Known, UNCHANGED <<slot, stopHeld>>, NEW P \in SUBSET Pipes,
         SetPipes(P, "released"), \A p \in P : pipe[p] \in {"dropped", "abandoned"}
  PROVE  Abstract
<1>1. \A q \in Pipes : InSlot(q)' <=> InSlot(q)
  BY DEF InSlot
<1>2. \A q \in Pipes : Held(q)' <=> Held(q)
  BY DEF Held
<1>3. \A p \in P : Stage(p) = "closing" /\ Stage(p)' = "released"
  BY StageCases, StageCasesNext DEF Known, SetPipes
<1>4. \A q \in Pipes \ P : Stage(q)' = Stage(q)
  BY <1>1, <1>2, StageKept DEF SetPipes
<1> QED
  BY <1>3, <1>4, Joins DEF Known

-----------------------------------------------------------------------------
(* Each step of the manager that touches a pipeline is a hand-over.        *)

LEMMA StartMicHandsOver ==
  ASSUME Known, NEW c \in StartCalls, StartMicOpens(c)
  PROVE  Abstract
<1> DEFINE mic == StartPipe(c, "microphone")
<1> USE DEF stateVars, sessionVars, stopVars
<1>1. /\ UNCHANGED <<slot, stopHeld>>
      /\ mic \in Pipes /\ mic[1] = c /\ c \in Openers /\ pipe[mic] = "none"
  BY PipeParts, SourcesKnown DEF StartMicOpens, Known, Fresh, Openers
<1>2. CASE SetPipes({mic}, "live")
  BY <1>1, <1>2, OpenerOpens
<1>3. CASE SetPipes({mic}, "released")
  BY <1>1, <1>3, OpenerRefuses
<1> QED
  BY <1>2, <1>3 DEF StartMicOpens

LEMMA StartSysHandsOver ==
  ASSUME Known, NEW c \in StartCalls,
         StartSysFails(c) \/ StartSysOpens(c) \/ StartCheck(c)
  PROVE  Abstract
<1> DEFINE sys == StartPipe(c, "system")
<1> USE DEF stateVars, sessionVars, stopVars, pipeVars
<1>1. /\ UNCHANGED <<slot, stopHeld>>
      /\ sys \in Pipes /\ sys[1] = c /\ c \in Openers
      /\ OpenedBy(c) \in SUBSET Pipes
      /\ startPc[c] \in {"sys", "check"}
      /\ startPc[c] = "sys" => pipe[sys] = "none"
  BY PipeParts, SourcesKnown
  DEF StartSysFails, StartSysOpens, StartCheck, Known, Fresh, Openers, OpenedBy
<1>2. \A p \in OpenedBy(c) : p[1] = c /\ pipe[p] = "live" /\ Opening(p)
  BY <1>1, OpenedByIsOpening DEF Known, Installed
<1>3. CASE SetPipes(OpenedBy(c), "released")
  BY <1>1, <1>2, <1>3, OpenerRefuses
<1>4. CASE startPc[c] = "sys" /\ SetPipes({sys}, "live")
  BY <1>1, <1>4, OpenerOpens
<1>5. CASE startPc[c] = "sys" /\ SetPipes(OpenedBy(c) \cup {sys}, "released")
  <2>1. \A p \in OpenedBy(c) \cup {sys} :
          p[1] = c /\ (pipe[p] = "none" \/ (pipe[p] = "live" /\ Opening(p)))
    BY <1>1, <1>2, <1>5
  <2>2. OpenedBy(c) \cup {sys} \in SUBSET Pipes
    BY <1>1
  <2> QED
    BY <1>1, <1>5, <2>1, <2>2, OpenerRefuses
<1>6. CASE UNCHANGED pipe
  BY <1>1, <1>6, NothingHandedOver DEF pipes
<1> QED
  BY <1>3, <1>4, <1>5, <1>6 DEF StartSysFails, StartSysOpens, StartCheck

LEMMA StartInstallHandsOver ==
  ASSUME Known, NEW c \in StartCalls, StartInstall(c)
  PROVE  Abstract
<1> USE DEF stateVars, stopVars
<1>1. /\ startPc[c] = "install" /\ UNCHANGED stopHeld /\ c \in Openers
      /\ slot' = [s \in Sources |-> IF s \in startReq[c] THEN StartPipe(c, s) ELSE NoPipe]
  BY DEF StartInstall, Openers
<1>2. \A p \in Pipes : pipe'[p] = IF InSlot(p) THEN "dropped" ELSE pipe[p]
  BY SlotOfItsSource DEF StartInstall, SetPipes, Known
<1>3. \A p \in Pipes : InSlot(p)' <=> p[1] = c /\ p[2] \in startReq[c]
  BY <1>1, PipeParts, ConstantAssumption DEF InSlot, StartPipe
<1>4. ASSUME NEW p \in Pipes, p[1] = c
      PROVE  /\ pipe[p] = "live" <=> p[2] \in startReq[c]
             /\ Opening(p)
  <2>1. \A s \in Sources : pipe[StartPipe(c, s)] = "live" <=> s \in startReq[c]
    BY <1>1 DEF Known, Ownership, StartOwns, OwnsUntilInstalled, Expected, Unowned
  <2> QED
    BY <1>1, <1>4, <2>1, PipeParts DEF StartPipe, Opening
<1>5. ASSUME NEW p \in Pipes, p[1] = c, p[2] \in startReq[c]
      PROVE  Stage(p) = "opening" /\ Stage(p)' = "installed"
  BY <1>3, <1>4, <1>5, StageCases, StageCasesNext DEF Known
<1>6. ASSUME NEW p \in Pipes, InSlot(p)
      PROVE  Stage(p) = "installed" /\ Stage(p)' = "closing"
  BY <1>2, <1>6, StageCases, StageCasesNext DEF Known
<1>7. ASSUME NEW p \in Pipes, ~InSlot(p), ~(p[1] = c /\ p[2] \in startReq[c])
      PROVE  Stage(p)' = Stage(p)
  BY <1>1, <1>2, <1>3, <1>7, StageKept DEF Held
<1> QED
  BY <1>1, <1>5, <1>6, <1>7, Installs DEF Known

(* The session is emptied into a stop call's hands or dropped.             *)
LEMMA SessionHandsOver ==
  ASSUME Known, (\E c \in StopCalls : StopTake(c)) \/ ShutdownTake
  PROVE  Abstract
<1>1. \A p \in Pipes : ~InSlot(p)'
  BY SessionEmptied DEF StopTake, ShutdownTake, Known
<1>2. ASSUME NEW p \in Pipes, ~InSlot(p)
      PROVE  Stage(p)' = Stage(p)
  <2>1. CASE ShutdownTake
    BY <1>1, <1>2, <2>1, StageKept, SlotOfItsSource
    DEF ShutdownTake, SetPipes, stopVars, Held, Known
  <2>2. ASSUME NEW c \in StopCalls, StopTake(c)
        PROVE  Stage(p)' = Stage(p)
    <3>1. pipe' = pipe /\ stopHeld' = [stopHeld EXCEPT ![c] = InSlots]
      BY <2>2 DEF StopTake, pipeVars
    <3>2. stopHeld[c] = {} /\ p \notin InSlots
      BY <1>2, <2>2, SlotOfItsSource DEF StopTake, Known, Ownership, StopOwns
    <3>3. Held(p)' <=> Held(p)
      BY <3>1, <3>2 DEF Held, Known, TypeOK
    <3> QED
      BY <1>1, <1>2, <3>1, <3>3, StageKept
  <2> QED
    BY <2>1, <2>2
<1>3. ASSUME NEW p \in Pipes, InSlot(p)
      PROVE  Stage(p) = "installed" /\ Stage(p)' = "closing"
  <2>1. Stage(p) = "installed" /\ p \in InSlots
    BY <1>3, StageCases, SlotOfItsSource DEF Known
  <2>2. CASE ShutdownTake
    BY <2>1, <2>2, StageCasesNext DEF ShutdownTake, SetPipes, Known
  <2>3. ASSUME NEW c \in StopCalls, StopTake(c)
        PROVE  Stage(p)' = "closing"
    <3>1. Held(p)'
      BY <2>1, <2>3 DEF StopTake, Held, Known, TypeOK
    <3> QED
      BY <3>1, StageCasesNext DEF Known
  <2> QED
    BY <2>1, <2>2, <2>3
<1> QED
  BY <1>2, <1>3, Closes DEF Known

LEMMA StopJoinHandsOver ==
  ASSUME Known, NEW c \in StopCalls, StopJoined(c)
  PROVE  Abstract
<1>1. /\ UNCHANGED slot
      /\ SetPipes(stopHeld[c], "released")
      /\ stopHeld' = [stopHeld EXCEPT ![c] = {}]
  BY DEF StopJoined, sessionVars
<1>2. \A p \in Pipes : InSlot(p)' <=> InSlot(p)
  BY <1>1 DEF InSlot
<1>3. ASSUME NEW p \in Pipes, p \in stopHeld[c]
      PROVE  Stage(p) = "closing" /\ Stage(p)' = "released"
  <2>1. Held(p)
    BY <1>3 DEF Held
  <2> QED
    BY <1>1, <1>3, <2>1, StageCases, StageCasesNext DEF Known, SetPipes
<1>4. ASSUME NEW p \in Pipes, p \notin stopHeld[c]
      PROVE  Stage(p)' = Stage(p)
  <2>1. pipe'[p] = pipe[p]
    BY <1>1, <1>4 DEF SetPipes
  <2>2. Held(p)' <=> Held(p)
    BY <1>1, <1>4 DEF Held, Known, TypeOK
  <2> QED
    BY <1>2, <2>1, <2>2, StageKept
<1> QED
  BY <1>3, <1>4, Joins DEF Known

(* A handler takes its source out of the session.                          *)
LEMMA TaskSessionHandsOver ==
  ASSUME Known, NEW t \in Tasks, TaskSession(t)
  PROVE  Abstract
<1> DEFINE src == taskSrc[t]
<1>1. CASE ~open
  BY <1>1, NothingHandedOver DEF TaskSession, pipes, sessionVars, stopVars
<1>2. CASE open
  <2>1. /\ UNCHANGED stopHeld
        /\ src \in Sources
        /\ slot' = [slot EXCEPT ![src] = NoPipe]
        /\ SetPipes(Replaced(src), "abandoned")
    BY <1>2 DEF TaskSession, stopVars, Known, TypeOK
  <2>2. \A p \in Pipes : p \in Replaced(src) <=> InSlot(p) /\ p[2] = src
    BY <2>1, PipeParts, ConstantAssumption
    DEF Replaced, InSlot, Known, Ownership, SlotsMatch
  <2>3. \A p \in Pipes : InSlot(p)' <=> InSlot(p) /\ p[2] # src
    BY <2>1, PipeParts, ConstantAssumption DEF InSlot, Known, TypeOK
  <2>4. ASSUME NEW p \in Pipes, p \in Replaced(src)
        PROVE  Stage(p) = "installed" /\ Stage(p)' = "closing"
    BY <2>1, <2>2, <2>4, StageCases, StageCasesNext DEF Known, SetPipes
  <2>5. ASSUME NEW p \in Pipes, p \notin Replaced(src)
        PROVE  Stage(p)' = Stage(p)
    <3>1. pipe'[p] = pipe[p]
      BY <2>1, <2>5 DEF SetPipes
    <3>2. (Held(p)' <=> Held(p)) /\ (InSlot(p)' <=> InSlot(p))
      BY <2>1, <2>2, <2>3, <2>5 DEF Held
    <3> QED
      BY <3>1, <3>2, StageKept
  <2> QED
    BY <2>4, <2>5, Closes DEF Known
<1> QED
  BY <1>1, <1>2

(* An attempt opens its pipeline, gives it up or puts it into the session. *)
LEMMA AttemptHandsOver ==
  ASSUME Known, NEW t \in Tasks,
         TaskRestartOpens(t) \/ TaskOpened(t) \/ (TaskInstall(t) /\ ~open)
  PROVE  Abstract
<1> DEFINE new == TaskPipe(t)
<1> USE DEF stateVars, sessionVars, stopVars
<1>1. /\ UNCHANGED <<slot, stopHeld>>
      /\ new \in Pipes /\ new[1] = t /\ t \in Openers /\ new = <<t, taskSrc[t]>>
      /\ taskSrc[t] \in Sources
  BY PipesOpened, PipeParts
  DEF TaskRestartOpens, TaskOpened, TaskInstall, Known, TypeOK, Openers, TaskPipe
<1>2. taskPc[t] = "restart" => pipe[new] = "none"
  BY <1>1 DEF Known, Ownership, TaskOwns, OpensOnce, LatePcs, AttemptPcs
<1>3. taskPc[t] \in AttemptPcs => pipe[new] = "live" /\ Opening(new)
  BY <1>1 DEF Known, Ownership, TaskOwns, OpensOnce, AttemptPcs, Opening
<1>4. CASE TaskRestartOpens(t)
  <2>1. CASE SetPipes({new}, "live")
    BY <1>1, <1>2, <1>4, <2>1, OpenerOpens DEF TaskRestartOpens
  <2>2. CASE SetPipes({new}, "released")
    BY <1>1, <1>2, <1>4, <2>2, OpenerRefuses DEF TaskRestartOpens
  <2>3. SetPipes({new}, "live") \/ SetPipes({new}, "released")
    BY <1>4 DEF TaskRestartOpens
  <2> QED
    BY <2>1, <2>2, <2>3
<1>5. CASE TaskOpened(t) \/ (TaskInstall(t) /\ ~open)
  <2>1. taskPc[t] \in AttemptPcs
    BY <1>5 DEF TaskOpened, TaskInstall, AttemptPcs
  <2>2. CASE SetPipes({new}, "abandoned")
    BY <1>1, <1>3, <2>1, <2>2, OpenerGivesUp
  <2>3. CASE UNCHANGED pipe
    BY <1>1, <2>3, NothingHandedOver DEF pipes
  <2>4. SetPipes({new}, "abandoned") \/ UNCHANGED pipe
    BY <1>5 DEF TaskOpened, TaskInstall
  <2> QED
    BY <2>2, <2>3, <2>4
<1> QED
  BY <1>4, <1>5

LEMMA AttemptInstallHandsOver ==
  ASSUME Known, NEW t \in Tasks, TaskInstall(t), open
  PROVE  Abstract
<1>0. PICK src \in Sources, new \in Pipes : src = taskSrc[t] /\ new = TaskPipe(t)
  BY PipesOpened DEF Known, TypeOK
<1>1. /\ UNCHANGED stopHeld /\ taskPc[t] = "install"
      /\ slot' = [slot EXCEPT ![src] = new]
      /\ SetPipes(Replaced(src), "dropped")
  BY <1>0 DEF TaskInstall, stopVars
<1>2. /\ new[1] = t /\ new[2] = src
      /\ new = <<t, src>> /\ t \in Openers
  BY <1>0 DEF TaskPipe, Openers
<1>3. pipe[new] = "live" /\ Opening(new)
  BY <1>0, <1>1, <1>2 DEF Known, Ownership, TaskOwns, OpensOnce, AttemptPcs, Opening
<1>4. Stage(new) = "opening" /\ ~InSlot(new)
  BY <1>2, <1>3, StageCases, InOpenersHands DEF Known
<1>5. \A p \in Pipes : p \in Replaced(src) <=> InSlot(p) /\ p[2] = src
  BY <1>1, <1>2, PipeParts, ConstantAssumption
  DEF Replaced, InSlot, Known, Ownership, SlotsMatch
<1>6. \A p \in Pipes : InSlot(p)' <=> p = new \/ (InSlot(p) /\ p[2] # src)
  BY <1>1, <1>2, PipeParts DEF InSlot, Known, TypeOK
<1>7. Stage(new)' = "installed"
  BY <1>2, <1>6, StageCasesNext DEF Known
<1>8. ASSUME NEW p \in Pipes, p \in Replaced(src)
      PROVE  Stage(p) = "installed" /\ Stage(p)' = "closing"
  BY <1>1, <1>5, <1>8, StageCases, StageCasesNext DEF Known, SetPipes
<1>9. ASSUME NEW p \in Pipes, p \notin Replaced(src), p # new
      PROVE  Stage(p)' = Stage(p)
  <2>1. pipe'[p] = pipe[p]
    BY <1>1, <1>9 DEF SetPipes
  <2>2. (Held(p)' <=> Held(p)) /\ (InSlot(p)' <=> InSlot(p))
    BY <1>1, <1>5, <1>6, <1>9 DEF Held
  <2> QED
    BY <2>1, <2>2, StageKept
<1> QED
  BY <1>2, <1>4, <1>7, <1>8, <1>9, Installs DEF Known

(* What was dropped or abandoned is joined.                                *)
LEMMA JoinHandsOver ==
  ASSUME Known,
         \/ ShutdownJoined
         \/ \E c \in StartCalls : StartDropped(c)
         \/ \E t \in Tasks : TaskDropped(t)
         \/ \E p \in Pipes : AbandonJoined(p)
  PROVE  Abstract
<1> USE DEF sessionVars, stopVars
<1>1. CASE \E p \in Pipes : AbandonJoined(p)
  <2>1. PICK p \in Pipes : AbandonJoined(p)
    BY <1>1
  <2>2. {p} \in SUBSET Pipes /\ \A q \in {p} : pipe[q] \in {"dropped", "abandoned"}
    BY <2>1 DEF AbandonJoined
  <2> QED
    BY <2>1, <2>2, GoneJoined DEF AbandonJoined
<1>2. CASE \/ ShutdownJoined
           \/ \E c \in StartCalls : StartDropped(c)
           \/ \E t \in Tasks : TaskDropped(t)
  <2>1. Dropped \in SUBSET Pipes /\ \A p \in Dropped : pipe[p] \in {"dropped", "abandoned"}
    BY DEF Dropped
  <2>2. SetPipes(Dropped, "released") /\ UNCHANGED <<slot, stopHeld>>
    BY <1>2 DEF ShutdownJoined, StartDropped, TaskDropped
  <2> QED
    BY <2>1, <2>2, GoneJoined
<1> QED
  BY <1>1, <1>2

-----------------------------------------------------------------------------
(* The other steps touch no pipeline.                                      *)

LEMMA CommandsTouchNothing ==
  ASSUME \/ \E c \in StartCalls, req \in Requests : StartRejected(c, req) \/ StartBegin(c, req)
         \/ \E c \in StartCalls :
              \/ StartModelReturns(c) \/ StartMicFails(c) \/ StartMicDone(c)
              \/ StartCommit(c) \/ StartFailCheck(c) \/ StartFailApply(c)
              \/ StartDogStep(c)
         \/ \E c \in StopCalls :
              \/ StopBegin(c) \/ StopLook(c) \/ StopApply(c) \/ StopCheck(c)
              \/ StopCommit(c) \/ StopDogStep(c)
         \/ ShutdownBegin
  PROVE  UNCHANGED pipes
<1> USE DEF stateVars, sessionVars, pipeVars, startVars, stopVars, pipes
<1>1. ASSUME NEW c \in StartCalls, NEW req \in Requests,
             StartRejected(c, req) \/ StartBegin(c, req)
      PROVE  UNCHANGED pipes
  BY <1>1 DEF StartRejected, StartBegin
<1>2. ASSUME NEW c \in StartCalls,
             \/ StartModelReturns(c) \/ StartMicFails(c) \/ StartMicDone(c)
             \/ StartCommit(c) \/ StartFailCheck(c) \/ StartFailApply(c)
      PROVE  UNCHANGED pipes
  BY <1>2 DEF StartModelReturns, StartModelFails, StartModelReady, StartMicFails,
              StartMicDone, StartCommit, StartFailCheck, StartFailApply
<1>3. ASSUME NEW c \in StartCalls, StartDogStep(c)
      PROVE  UNCHANGED pipes
  BY <1>3 DEF StartDogStep, StartDogExpires, StartDogExchanges, StartDogCommits
<1>4. ASSUME NEW c \in StopCalls,
             \/ StopBegin(c) \/ StopLook(c) \/ StopApply(c) \/ StopCheck(c)
             \/ StopCommit(c) \/ StopDogStep(c)
      PROVE  UNCHANGED pipes
  BY <1>4 DEF StopBegin, StopLook, StopApply, StopCheck, StopCommit, StopDogStep,
              StopDogExpires, StopDogCommits
<1>5. CASE ShutdownBegin
  BY <1>5 DEF ShutdownBegin
<1> QED
  BY <1>1, <1>2, <1>3, <1>4, <1>5

LEMMA CallbacksTouchNothing ==
  ASSUME \/ \E t \in Tasks :
              \/ TaskCheck(t) \/ TaskStatus(t) \/ TaskTerminal(t) \/ TaskSurvey(t)
              \/ TaskBackoff(t) \/ TaskContext(t) \/ TaskPanics(t)
              \/ TaskPanicCheck(t) \/ TaskResumed(t)
              \/ \E retry \in BOOLEAN : TaskRestartFails(t, retry)
         \/ \E p \in Pipes : SignalStep(p)
         \/ \E p \in Pipes, thread \in {"monitor", "worker"}, retry \in BOOLEAN, t \in Tasks :
              Raise(p, thread, retry, t)
         \/ \E s \in Sources : HealthAges(s)
         \/ \E found \in BOOLEAN : ListMicrophones(found)
         \/ UNCHANGED vars
  PROVE  UNCHANGED pipes
<1> USE DEF stateVars, sessionVars, pipeVars, startVars, stopVars, pipes
<1>1. ASSUME NEW t \in Tasks,
             \/ TaskCheck(t) \/ TaskStatus(t) \/ TaskTerminal(t) \/ TaskSurvey(t)
             \/ TaskBackoff(t) \/ TaskContext(t) \/ TaskPanics(t)
             \/ TaskPanicCheck(t) \/ TaskResumed(t)
             \/ \E retry \in BOOLEAN : TaskRestartFails(t, retry)
      PROVE  UNCHANGED pipes
  BY <1>1 DEF TaskCheck, TaskStatus, TaskTerminal, TaskSurvey, TaskBackoff, TaskContext,
              TaskPanics, TaskPanicCheck, TaskResumed, TaskRestartFails
<1>2. ASSUME NEW p \in Pipes, SignalStep(p)
      PROVE  UNCHANGED pipes
  BY <1>2 DEF SignalStep, SignalCheck, SignalMark, SignalHealth
<1>3. ASSUME NEW p \in Pipes, NEW thread, NEW retry, NEW t \in Tasks,
             Raise(p, thread, retry, t)
      PROVE  UNCHANGED pipes
  BY <1>3 DEF Raise
<1>4. CASE \E s \in Sources : HealthAges(s)
  BY <1>4 DEF HealthAges
<1>5. CASE \E found \in BOOLEAN : ListMicrophones(found)
  BY <1>5 DEF ListMicrophones
<1>6. CASE UNCHANGED vars
  BY <1>6 DEF vars
<1> QED
  BY <1>1, <1>2, <1>3, <1>4, <1>5, <1>6

-----------------------------------------------------------------------------
(* Only the call itself brings its pipelines into existence.               *)
LEMMA NoneStays ==
  ASSUME TypeOK, Ownership, [Next]_vars, NEW c \in StartCalls, NEW s \in Sources,
         pipe[StartPipe(c, s)] = "none",
         ~StartMicOpens(c), ~StartSysOpens(c)
  PROVE  pipe'[StartPipe(c, s)] = "none"
<1> DEFINE p == StartPipe(c, s)
<1>1. p \in Pipes /\ p[1] = c /\ c \notin Tasks
  BY PipeParts, ConstantAssumption
<1>2. /\ p \notin InSlots /\ p \notin Dropped
      /\ \A d \in StartCalls : p \notin OpenedBy(d)
      /\ \A d \in StopCalls : p \notin stopHeld[d]
      /\ \A t \in Tasks : p # TaskPipe(t) /\ p \notin Replaced(taskSrc[t])
  <2>1. ~InSlot(p) /\ \A d \in StopCalls : p \notin stopHeld[d]
    BY <1>1 DEF Ownership, OneOwner
  <2>2. \A t \in Tasks : p \notin Replaced(taskSrc[t])
    BY <1>1, <2>1, SlotOfItsSource DEF Replaced, InSlots, TypeOK
  <2>3. \A t \in Tasks : p # TaskPipe(t)
    BY <1>1 DEF TaskPipe
  <2> QED
    BY <1>1, <2>1, <2>2, <2>3, SlotOfItsSource DEF Dropped, OpenedBy
<1>3. ASSUME NEW P, NEW life, SetPipes(P, life), p \notin P
      PROVE  pipe'[p] = "none"
  BY <1>1, <1>3 DEF SetPipes
<1>4. CASE UNCHANGED pipes
  BY <1>4 DEF pipes
<1>5. ASSUME NEW d \in StartCalls, StartMicOpens(d)
      PROVE  pipe'[p] = "none"
  <2>1. d # c /\ StartPipe(d, "microphone") # p
    BY <1>1, <1>5, PipeParts, SourcesKnown
  <2> QED
    BY <1>3, <1>5, <2>1 DEF StartMicOpens
<1>6. ASSUME NEW d \in StartCalls, StartSysOpens(d)
      PROVE  pipe'[p] = "none"
  <2>1. d # c /\ StartPipe(d, "system") # p
    BY <1>1, <1>6, PipeParts, SourcesKnown
  <2> QED
    BY <1>2, <1>3, <1>6, <2>1 DEF StartSysOpens
<1>7. ASSUME NEW d \in StartCalls, StartSysFails(d) \/ StartCheck(d)
      PROVE  pipe'[p] = "none"
  BY <1>2, <1>3, <1>7 DEF StartSysFails, StartCheck
<1>8. ASSUME NEW d \in StartCalls, StartInstall(d) \/ StartDropped(d)
      PROVE  pipe'[p] = "none"
  BY <1>2, <1>3, <1>8 DEF StartInstall, StartDropped
<1>9. ASSUME NEW d \in StopCalls, StopTake(d) \/ StopJoined(d)
      PROVE  pipe'[p] = "none"
  BY <1>2, <1>3, <1>9 DEF StopTake, StopJoined, pipeVars
<1>10. CASE ShutdownStep
  BY <1>2, <1>3, <1>10 DEF ShutdownStep, ShutdownTake, ShutdownJoined
<1>11. ASSUME NEW t \in Tasks, TaskSession(t) \/ TaskInstall(t)
       PROVE  pipe'[p] = "none"
  BY <1>2, <1>3, <1>11 DEF TaskSession, TaskInstall
<1>12. ASSUME NEW t \in Tasks, TaskRestartOpens(t) \/ TaskOpened(t) \/ TaskDropped(t)
       PROVE  pipe'[p] = "none"
  BY <1>2, <1>3, <1>12 DEF TaskRestartOpens, TaskOpened, TaskDropped
<1>13. ASSUME NEW q \in Pipes, AbandonJoined(q)
       PROVE  pipe'[p] = "none"
  BY <1>3, <1>13 DEF AbandonJoined
<1> QED
  BY <1>4, <1>5, <1>6, <1>7, <1>8, <1>9, <1>10, <1>11, <1>12, <1>13,
     CommandsTouchNothing, CallbacksTouchNothing
  DEF Next, InternalStep, PipeStep, StartStep, StartThread, StartMicReturns,
      StartSysReturns, StopStep, StopThread, HandlerStep, RecoveryStep

(* A start call never goes back to before it opened something.             *)
LEMMA StartsOnce ==
  ASSUME TypeOK, [Next]_vars, NEW c \in StartCalls
  PROVE  /\ startPc'[c] \in {"new", "model", "mic"} =>
              startPc[c] \in {"new", "model", "mic"} /\ ~StartMicOpens(c) /\ ~StartSysOpens(c)
         /\ startPc'[c] \in {"new", "model", "mic", "micUp", "sys"} =>
              startPc[c] \in {"new", "model", "mic", "micUp", "sys"} /\ ~StartSysOpens(c)
<1>1. ASSUME NEW d \in StartCalls, NEW req \in Requests, StartRejected(d, req) \/ StartBegin(d, req)
      PROVE  startPc'[c] = startPc[c] \/ startPc[c] = "new"
  BY <1>1 DEF StartRejected, StartBegin, GoStart, TypeOK
<1>2. ASSUME NEW d \in StartCalls, StartStep(d), d # c
      PROVE  startPc'[c] = startPc[c]
  BY <1>2 DEF StartStep, StartModelReturns, StartModelFails, StartModelReady,
     StartMicReturns, StartMicFails, StartMicOpens, StartSysReturns, StartSysFails,
     StartSysOpens, StartThread, StartMicDone, StartCheck, StartInstall, StartDropped,
     StartCommit, StartFailCheck, StartFailApply, GoStart, TypeOK
<1>3. CASE StartStep(c)
  <2>1. StartModelReturns(c) => startPc[c] = "model"
    BY DEF StartModelReturns, StartModelFails, StartModelReady
  <2>2. StartMicReturns(c) =>
          startPc[c] = "mic" /\ startPc'[c] \in {"micUp", "failed", "failCheck"}
    BY DEF StartMicReturns, StartMicFails, StartMicOpens, GoStart, TypeOK
  <2>3. StartMicDone(c) => startPc[c] = "micUp" /\ startPc'[c] \in {"sys", "check"}
    BY DEF StartMicDone, GoStart, TypeOK
  <2>4. StartSysReturns(c) => startPc'[c] \in {"check", "failed", "failCheck"}
    BY DEF StartSysReturns, StartSysFails, StartSysOpens, GoStart, TypeOK
  <2>5. StartThread(c) /\ ~StartMicDone(c) =>
          startPc'[c] \notin {"new", "model", "mic", "micUp", "sys"}
    BY DEF StartThread, StartCheck, StartInstall, StartDropped, StartCommit,
           StartFailCheck, StartFailApply, GoStart, TypeOK
  <2> QED
    BY <1>3, <2>1, <2>2, <2>3, <2>4, <2>5
    DEF StartStep, StartModelReturns, StartMicReturns, StartSysReturns
<1>4. /\ StartMicOpens(c) => startPc'[c] \notin {"new", "model", "mic"}
      /\ StartSysOpens(c) => startPc'[c] \notin {"new", "model", "mic", "micUp", "sys"}
  BY DEF StartMicOpens, StartSysOpens, GoStart, TypeOK
<1>5. ASSUME NEW d \in StartCalls, StartDogStep(d)
      PROVE  startPc' = startPc
  BY <1>5 DEF StartDogStep, StartDogExpires, StartDogExchanges, StartDogCommits
<1>6. ASSUME NEW d \in StopCalls, StopBegin(d) \/ StopStep(d) \/ StopDogStep(d)
      PROVE  startPc' = startPc
  BY <1>6 DEF StopBegin, StopStep, StopThread, StopLook, StopTake, StopApply, StopCheck,
     StopCommit, StopJoined, StopDogStep, StopDogExpires, StopDogCommits, startVars
<1>7. ShutdownBegin \/ ShutdownStep => startPc' = startPc
  BY DEF ShutdownBegin, ShutdownStep, ShutdownTake, ShutdownJoined, startVars
<1>8. ASSUME NEW t \in Tasks, HandlerStep(t) \/ RecoveryStep(t)
      PROVE  startPc' = startPc
  BY <1>8 DEF HandlerStep, TaskCheck, TaskSession, TaskStatus, TaskTerminal, TaskSurvey,
     RecoveryStep, TaskBackoff, TaskContext, TaskRestartOpens, TaskPanics,
     TaskRestartFails, TaskPanicCheck, TaskOpened, TaskInstall, TaskDropped,
     TaskResumed, startVars
<1>9. ASSUME NEW p \in Pipes, PipeStep(p)
      PROVE  startPc' = startPc
  BY <1>9 DEF PipeStep, SignalStep, SignalCheck, SignalMark, SignalHealth,
     AbandonJoined, Raise, startVars
<1>10. /\ \A s \in Sources : HealthAges(s) => startPc' = startPc
       /\ \A found \in BOOLEAN : ListMicrophones(found) => startPc' = startPc
       /\ UNCHANGED vars => startPc' = startPc
  BY DEF HealthAges, ListMicrophones, vars, startVars
<1> QED
  BY <1>1, <1>2, <1>3, <1>4, <1>5, <1>6, <1>7, <1>8, <1>9, <1>10
  DEF Next, InternalStep

(* Until a call has opened a source, the pipeline it would open is         *)
(* nowhere: what makes "opening" the first stage of every pipeline.        *)
THEOREM FreshInvariant == Spec => []Fresh
<1>1. Init => Fresh
  BY PipeParts, SourcesKnown DEF Init, Fresh
<1>2. TypeOK /\ Ownership /\ Fresh /\ [Next]_vars => Fresh'
  <2> SUFFICES ASSUME TypeOK, Ownership, Fresh, [Next]_vars, NEW c \in StartCalls
               PROVE  /\ startPc'[c] \in {"new", "model", "mic"} =>
                           pipe'[StartPipe(c, "microphone")] = "none"
                      /\ startPc'[c] \in {"new", "model", "mic", "micUp", "sys"} =>
                           pipe'[StartPipe(c, "system")] = "none"
    BY DEF Fresh, StartPipe
  <2>1. CASE startPc'[c] \in {"new", "model", "mic"}
    BY <2>1, StartsOnce, NoneStays, SourcesKnown DEF Fresh
  <2>2. CASE startPc'[c] \in {"micUp", "sys"}
    <3>1. pipe[StartPipe(c, "system")] = "none" /\ ~StartSysOpens(c)
      BY <2>2, StartsOnce DEF Fresh
    <3>2. CASE StartMicOpens(c)
      <4>1. /\ StartPipe(c, "system") \in Pipes
            /\ StartPipe(c, "system") # StartPipe(c, "microphone")
        BY PipeParts, SourcesKnown DEF StartPipe
      <4> QED
        BY <3>1, <3>2, <4>1, <2>2 DEF StartMicOpens, SetPipes
    <3>3. CASE ~StartMicOpens(c)
      BY <2>2, <3>1, <3>3, NoneStays, SourcesKnown
    <3> QED
      BY <2>2, <3>2, <3>3
  <2> QED
    BY <2>1, <2>2
<1> QED
  BY <1>1, <1>2, TypeCorrect, OwnershipInvariant, PTL DEF Spec

-----------------------------------------------------------------------------
(* Whatever the manager does is a step of PipelineOwnership, or nothing.   *)
LEMMA EveryStepHandsOver ==
  ASSUME Known, [Next]_vars
  PROVE  Abstract
<1>1. CASE \E c \in StartCalls, req \in Requests : StartRejected(c, req) \/ StartBegin(c, req)
  BY <1>1, CommandsTouchNothing, NothingHandedOver
<1>2. ASSUME NEW c \in StartCalls, StartStep(c)
      PROVE  Abstract
  <2>1. CASE \/ StartModelReturns(c) \/ StartMicFails(c) \/ StartMicDone(c)
             \/ StartCommit(c) \/ StartFailCheck(c) \/ StartFailApply(c)
    BY <2>1, CommandsTouchNothing, NothingHandedOver
  <2>2. CASE StartMicOpens(c)
    BY <2>2, StartMicHandsOver
  <2>3. CASE StartSysFails(c) \/ StartSysOpens(c) \/ StartCheck(c)
    BY <2>3, StartSysHandsOver
  <2>4. CASE StartInstall(c)
    BY <2>4, StartInstallHandsOver
  <2>5. CASE StartDropped(c)
    BY <2>5, JoinHandsOver
  <2> QED
    BY <1>2, <2>1, <2>2, <2>3, <2>4, <2>5
    DEF StartStep, StartThread, StartMicReturns, StartSysReturns
<1>3. ASSUME NEW c \in StartCalls, StartDogStep(c)
      PROVE  Abstract
  BY <1>3, CommandsTouchNothing, NothingHandedOver
<1>4. ASSUME NEW c \in StopCalls, StopBegin(c) \/ StopStep(c) \/ StopDogStep(c)
      PROVE  Abstract
  <2>1. CASE \/ StopBegin(c) \/ StopLook(c) \/ StopApply(c) \/ StopCheck(c)
             \/ StopCommit(c) \/ StopDogStep(c)
    BY <2>1, CommandsTouchNothing, NothingHandedOver
  <2>2. CASE StopTake(c)
    BY <2>2, SessionHandsOver
  <2>3. CASE StopJoined(c)
    BY <2>3, StopJoinHandsOver
  <2> QED
    BY <1>4, <2>1, <2>2, <2>3 DEF StopStep, StopThread
<1>5. CASE ShutdownBegin
  BY <1>5, CommandsTouchNothing, NothingHandedOver
<1>6. CASE ShutdownStep
  BY <1>6, SessionHandsOver, JoinHandsOver DEF ShutdownStep
<1>7. ASSUME NEW t \in Tasks, HandlerStep(t) \/ RecoveryStep(t)
      PROVE  Abstract
  <2>1. CASE \/ TaskCheck(t) \/ TaskStatus(t) \/ TaskTerminal(t) \/ TaskSurvey(t)
             \/ TaskBackoff(t) \/ TaskContext(t) \/ TaskPanics(t)
             \/ TaskPanicCheck(t) \/ TaskResumed(t)
             \/ \E retry \in BOOLEAN : TaskRestartFails(t, retry)
    BY <2>1, CallbacksTouchNothing, NothingHandedOver
  <2>2. CASE TaskSession(t)
    BY <2>2, TaskSessionHandsOver
  <2>3. CASE TaskRestartOpens(t) \/ TaskOpened(t)
    BY <2>3, AttemptHandsOver
  <2>4. CASE TaskInstall(t)
    BY <2>4, AttemptHandsOver, AttemptInstallHandsOver
  <2>5. CASE TaskDropped(t)
    BY <2>5, JoinHandsOver
  <2> QED
    BY <1>7, <2>1, <2>2, <2>3, <2>4, <2>5 DEF HandlerStep, RecoveryStep
<1>8. ASSUME NEW p \in Pipes, PipeStep(p)
      PROVE  Abstract
  <2>1. CASE AbandonJoined(p)
    BY <2>1, JoinHandsOver
  <2>2. CASE ~AbandonJoined(p)
    BY <1>8, <2>2, CallbacksTouchNothing, NothingHandedOver DEF PipeStep
  <2> QED
    BY <2>1, <2>2
<1>9. CASE \/ \E s \in Sources : HealthAges(s)
           \/ \E found \in BOOLEAN : ListMicrophones(found)
           \/ UNCHANGED vars
  BY <1>9, CallbacksTouchNothing, NothingHandedOver
<1> QED
  BY <1>1, <1>2, <1>3, <1>4, <1>5, <1>6, <1>7, <1>8, <1>9 DEF Next, InternalStep

(* RefinesOwnership: for any number of start calls, stop calls and         *)
(* handlers, the pipelines of the manager are handed over as               *)
(* PipelineOwnership allows, from the opener to the session to one closer. *)
THEOREM ManagerRefinesOwnership == Spec => RefinesOwnership
<1>1. Init => PO!Init
  <2> SUFFICES ASSUME Init PROVE PO!Init
    OBVIOUS
  <2>1. \A p \in Pipes : Stage(p) = "none"
    BY PipeParts DEF Init, Stage
  <2> QED
    BY <2>1, AbstractTable DEF PO!Init, stages, PO!Pipelines, Pipes
<1>2. TypeOK /\ Ownership /\ Fresh /\ TypeOK' /\ Ownership' /\ [Next]_vars => Abstract
  BY EveryStepHandsOver DEF Known
<1> QED
  BY <1>1, <1>2, TypeCorrect, OwnershipInvariant, FreshInvariant, PTL
  DEF Spec, RefinesOwnership, PO!Spec, Abstract
=============================================================================
