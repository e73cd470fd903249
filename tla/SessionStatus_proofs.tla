------------------------ MODULE SessionStatus_proofs ------------------------
(***************************************************************************)
(* Theorems about what the session status says: the transitional statuses  *)
(* of the manager, and the application whose commands are the buttons of   *)
(* the webview.  The later sections need ever more of the environment:     *)
(* every run; no watchdog or shutdown; no fault either.                    *)
(***************************************************************************)
EXTENDS CaptureApp, RuntimeManager_proofs

-----------------------------------------------------------------------------
(* No transitional status outlives its work, as long as one command moved  *)
(* the generation.                                                         *)

Accepted(c) == startPc[c] \notin {"new", "rejected"}
InFlight(c) == startPc[c] \notin {"new", "rejected", "listening", "failed"}
Working(s) == {t \in Tasks : taskSrc[t] = s /\ taskPc[t] \notin {"free", "done"}}

Traced ==
  /\ \A c \in StartCalls, s \in Sources :
       ~Unowned(StartPipe(c, s)) => Accepted(c) /\ s \in startReq[c]
  /\ \A t \in Tasks, s \in Sources :
       pipe[<<t, s>>] # "none" => taskPc[t] # "free" /\ s = taskSrc[t]
  /\ \A t \in Tasks : taskPc[t] # "free" =>
       \E c \in StartCalls : Accepted(c) /\ taskSrc[t] \in startReq[c]
OneCommand ==
  /\ generation = 0 => /\ \A c \in StartCalls : ~Accepted(c)
                       /\ \A d \in StopCalls : stopPc[d] = "new"
                       /\ shutPc = "new"
  /\ \A c \in StartCalls : Accepted(c) =>
       /\ StartIsCurrent(c)
       /\ \A d \in StartCalls : Accepted(d) => d = c
       /\ \A d \in StopCalls : stopPc[d] = "new"
       /\ shutPc = "new"
  /\ \A c \in StartCalls : startDog[c] # "won" /\ (startDog[c] # "off" => Accepted(c))
  /\ \A d \in StopCalls : stopPc[d] \in {"new", "look", "rejected"} /\ stopDog[d] = "off"
  /\ \A t \in Tasks : taskPc[t] # "free" => TaskIsCurrent(t)
OneSession ==
  /\ (\A c \in StartCalls : ~Accepted(c)) =>
       capture = "idle" /\ \A s \in Sources : source[s] # "starting"
  /\ \A c \in StartCalls : startPc[c] \in Installed =>
       open /\ (micRequested <=> "microphone" \in startReq[c])
Explained ==
  /\ capture # "stopping"
  /\ capture = "starting" => \E c \in StartCalls : InFlight(c)
  /\ \A s \in Sources : source[s] = "starting" =>
       \/ \E c \in StartCalls : InFlight(c) /\ s \in startReq[c]
       \/ open /\ Working(s) # {}

Single == generation <= 1 => OneCommand /\ OneSession /\ Explained

(* A step that opens nothing, forgets no request and hires no handler      *)
LEMMA TracedKept ==
  ASSUME Traced,
         \A p \in Pipes : \/ pipe'[p] = pipe[p] \/ ~Unowned(p)
                          \/ p[1] \in StartCalls /\ pipe'[p] = "released",
         \A c \in StartCalls : Accepted(c) => Accepted(c)' /\ startReq'[c] = startReq[c],
         \A t \in Tasks : /\ taskSrc'[t] = taskSrc[t]
                          /\ taskPc'[t] = "free" <=> taskPc[t] = "free"
  PROVE  Traced'
<1>1. ASSUME NEW c \in StartCalls, NEW s \in Sources, ~Unowned(StartPipe(c, s))'
      PROVE  Accepted(c)' /\ s \in startReq'[c]
  <2>1. ~Unowned(StartPipe(c, s))
    BY <1>1, PipeParts DEF Unowned
  <2> QED
    BY <2>1 DEF Traced
<1>2. ASSUME NEW t \in Tasks, NEW s \in Sources, pipe'[<<t, s>>] # "none"
      PROVE  taskPc'[t] # "free" /\ s = taskSrc'[t]
  <2>1. pipe[<<t, s>>] # "none"
    BY <1>2, PipeParts, ConstantAssumption DEF Unowned
  <2> QED
    BY <2>1 DEF Traced
<1>3. ASSUME NEW t \in Tasks, taskPc'[t] # "free"
      PROVE  \E c \in StartCalls : Accepted(c)' /\ taskSrc'[t] \in startReq'[c]
  BY <1>3 DEF Traced
<1> QED
  BY <1>1, <1>2, <1>3 DEF Traced

(* What a start opened is what was asked for.                              *)
LEMMA StartsTraced ==
  ASSUME TypeOK, Ownership, Traced, NEW c \in StartCalls,
         (\E req \in Requests : StartRejected(c, req) \/ StartBegin(c, req)) \/ StartStep(c)
  PROVE  Traced'
<1> USE DEF pipeVars, taskVars
<1>1. /\ UNCHANGED <<taskPc, taskSrc>>
      /\ \A d \in StartCalls : Accepted(d) => Accepted(d)' /\ startReq'[d] = startReq[d]
  <2>1. UNCHANGED <<taskPc, taskSrc>>
    BY DEF StartRejected, StartBegin, StartStep, StartModelReturns, StartModelFails,
       StartModelReady, StartMicReturns, StartMicFails, StartMicOpens, StartSysReturns,
       StartSysFails, StartSysOpens, StartThread, StartMicDone, StartCheck, StartInstall,
       StartDropped, StartCommit, StartFailCheck, StartFailApply
  <2>2. CASE \E req \in Requests : StartRejected(c, req) \/ StartBegin(c, req)
    BY <2>1, <2>2 DEF StartRejected, StartBegin, GoStart, Accepted, TypeOK
  <2>3. CASE StartStep(c)
    <3>1. UNCHANGED startReq /\ \E pc \in StartPcs \ {"new", "rejected"} : GoStart(c, pc)
      BY <2>3 DEF StartStep, StartModelReturns, StartModelFails,
         StartModelReady, StartMicReturns, StartMicFails, StartMicOpens, StartSysReturns,
         StartSysFails, StartSysOpens, StartThread, StartMicDone, StartCheck, StartInstall,
         StartDropped, StartCommit, StartFailCheck, StartFailApply, StartPcs
    <3>2. startPc'[c] \notin {"new", "rejected"} /\ \A d \in StartCalls \ {c} : startPc'[d] = startPc[d]
      BY <3>1 DEF GoStart, TypeOK
    <3> QED
      BY <2>1, <3>1, <3>2 DEF Accepted
  <2> QED
    BY <2>1, <2>2, <2>3
<1>2. ASSUME NEW s \in startReq[c], SetPipes({StartPipe(c, s)}, "live"),
             startPc[c] \in {"mic", "sys"}
      PROVE  Traced'
  <2>1. /\ s \in Sources
        /\ \A p \in Pipes : p # StartPipe(c, s) => pipe'[p] = pipe[p]
    BY <1>2 DEF SetPipes, TypeOK
  <2>2. Accepted(c)' /\ s \in startReq'[c]
    BY <1>1, <1>2 DEF Accepted
  <2>3. ASSUME NEW d \in StartCalls, NEW r \in Sources, ~Unowned(StartPipe(d, r))'
        PROVE  Accepted(d)' /\ r \in startReq'[d]
    <3>1. CASE d = c /\ r = s
      BY <2>2, <3>1
    <3>2. CASE ~(d = c /\ r = s)
      <4>1. StartPipe(d, r) # StartPipe(c, s)
        BY <3>2 DEF StartPipe
      <4>2. ~Unowned(StartPipe(d, r))
        BY <2>1, <2>3, <4>1, PipeParts DEF Unowned
      <4> QED
        BY <1>1, <4>2 DEF Traced
    <3> QED
      BY <3>1, <3>2
  <2>4. \A t \in Tasks, r \in Sources : pipe'[<<t, r>>] = pipe[<<t, r>>]
    <3>1. c \notin Tasks
      BY ConstantAssumption
    <3>2. \A t \in Tasks, r \in Sources : <<t, r>> # StartPipe(c, s)
      BY <3>1 DEF StartPipe
    <3> QED
      BY <2>1, <3>2, PipeParts
  <2> QED
    BY <1>1, <2>3, <2>4 DEF Traced
<1>3. ASSUME \A p \in Pipes : \/ pipe'[p] = pipe[p] \/ ~Unowned(p)
                              \/ p[1] \in StartCalls /\ pipe'[p] = "released"
      PROVE  Traced'
  BY <1>1, <1>3, TracedKept
<1>4. CASE StartMicOpens(c)
  <2>1. /\ startPc[c] = "mic"
        /\ \/ SetPipes({StartPipe(c, "microphone")}, "live")
           \/ SetPipes({StartPipe(c, "microphone")}, "released")
    BY <1>4 DEF StartMicOpens
  <2>2. "microphone" \in startReq[c]
    BY <2>1 DEF Ownership, StartOwns, OwnsUntilInstalled
  <2> QED
    BY <1>2, <1>3, <2>1, <2>2, PipeParts, SourcesKnown DEF SetPipes
<1>5. CASE StartSysOpens(c)
  <2>1. /\ startPc[c] = "sys"
        /\ \/ SetPipes({StartPipe(c, "system")}, "live")
           \/ SetPipes(OpenedBy(c) \cup {StartPipe(c, "system")}, "released")
    BY <1>5 DEF StartSysOpens
  <2>2. "system" \in startReq[c]
    BY <2>1 DEF Ownership, StartOwns, OwnsUntilInstalled
  <2>3. \A p \in OpenedBy(c) : p[1] = c
    BY DEF OpenedBy
  <2> QED
    BY <1>2, <1>3, <2>1, <2>2, <2>3, PipeParts, SourcesKnown DEF SetPipes
<1>6. CASE StartSysFails(c) \/ StartCheck(c)
  <2>1. SetPipes(OpenedBy(c), "released") \/ UNCHANGED pipe
    BY <1>6 DEF StartSysFails, StartCheck
  <2> QED
    BY <1>3, <2>1 DEF SetPipes, OpenedBy
<1>7. CASE StartInstall(c)
  <2>1. \A p \in InSlots : p \in Pipes => ~Unowned(p)
    BY SlotOfItsSource DEF Ownership, OneOwner, Unowned
  <2> QED
    BY <1>3, <1>7, <2>1 DEF StartInstall, SetPipes
<1>8. CASE StartDropped(c)
  BY <1>3, <1>8 DEF StartDropped, SetPipes, Dropped, Unowned
<1>9. CASE UNCHANGED pipe
  BY <1>3, <1>9
<1> QED
  BY <1>4, <1>5, <1>6, <1>7, <1>8, <1>9
  DEF StartRejected, StartBegin, StartStep, StartModelReturns, StartModelFails,
      StartModelReady, StartMicReturns, StartMicFails, StartSysReturns, StartThread,
      StartMicDone, StartCommit, StartFailCheck, StartFailApply

(* An attempt opens the source it was made for.                            *)
LEMMA TasksTraced ==
  ASSUME TypeOK, Ownership, Traced, NEW t \in Tasks, HandlerStep(t) \/ RecoveryStep(t)
  PROVE  Traced'
<1> USE DEF pipeVars, startVars
<1>1. /\ UNCHANGED <<startPc, startReq, taskSrc>>
      /\ taskPc[t] # "free"
      /\ \E pc \in TaskPcs \ {"free"} : GoTask(t, pc)
  BY DEF HandlerStep, RecoveryStep, TaskCheck, TaskSession, TaskStatus, TaskTerminal,
     TaskSurvey, TaskBackoff, TaskContext, TaskRestartOpens, TaskPanics, TaskRestartFails,
     TaskPanicCheck, TaskOpened, TaskInstall, TaskDropped, TaskResumed, TaskPcs
<1>2. /\ \A c \in StartCalls : Accepted(c) => Accepted(c)' /\ startReq'[c] = startReq[c]
      /\ \A u \in Tasks : /\ taskSrc'[u] = taskSrc[u]
                          /\ taskPc'[u] = "free" <=> taskPc[u] = "free"
  BY <1>1 DEF Accepted, GoTask, TypeOK
<1>3. ASSUME \A p \in Pipes : pipe'[p] = pipe[p] \/ ~Unowned(p)
      PROVE  Traced'
  BY <1>2, <1>3, TracedKept
<1>4. CASE TaskRestartOpens(t)
  <2>1. \A p \in Pipes : p # TaskPipe(t) => pipe'[p] = pipe[p]
    BY <1>4 DEF TaskRestartOpens, SetPipes
  <2>2. ASSUME NEW u \in Tasks, NEW s \in Sources, pipe'[<<u, s>>] # "none"
        PROVE  taskPc'[u] # "free" /\ s = taskSrc'[u]
    <3>1. CASE <<u, s>> = TaskPipe(t)
      BY <1>1, <1>2, <3>1 DEF TaskPipe
    <3>2. CASE <<u, s>> # TaskPipe(t)
      BY <1>2, <2>1, <2>2, <3>2, PipeParts DEF Traced
    <3> QED
      BY <3>1, <3>2
  <2>3. \A c \in StartCalls, s \in Sources : pipe'[StartPipe(c, s)] = pipe[StartPipe(c, s)]
    BY <2>1, PipeParts, ConstantAssumption DEF TaskPipe
  <2> QED
    BY <1>2, <2>2, <2>3 DEF Traced, Unowned
<1>5. CASE TaskSession(t) \/ TaskInstall(t)
  <2>1. taskPc[t] = "install" => pipe[TaskPipe(t)] = "live"
    BY DEF Ownership, TaskOwns, OpensOnce, AttemptPcs, TaskPipe, TypeOK
  <2>2. \A p \in Replaced(taskSrc[t]) : p \in Pipes => pipe[p] = "live"
    BY SlotOfItsSource DEF Replaced, InSlots, Ownership, OneOwner, TypeOK
  <2>3. CASE TaskSession(t)
    BY <1>3, <2>2, <2>3 DEF TaskSession, SetPipes, Unowned
  <2>4. CASE TaskInstall(t)
    BY <1>3, <2>1, <2>2, <2>4 DEF TaskInstall, SetPipes, Unowned
  <2> QED
    BY <1>5, <2>3, <2>4
<1>6. CASE TaskOpened(t)
  <2>1. pipe[TaskPipe(t)] = "live"
    BY <1>6 DEF TaskOpened, Ownership, TaskOwns, OpensOnce, AttemptPcs, TaskPipe, TypeOK
  <2> QED
    BY <1>3, <1>6, <2>1 DEF TaskOpened, SetPipes, Unowned
<1>7. CASE TaskDropped(t)
  BY <1>3, <1>7 DEF TaskDropped, SetPipes, Dropped, Unowned
<1>8. CASE UNCHANGED pipe
  BY <1>3, <1>8
<1> QED
  BY <1>4, <1>5, <1>6, <1>7, <1>8
  DEF HandlerStep, RecoveryStep, TaskCheck, TaskStatus, TaskTerminal, TaskSurvey,
      TaskBackoff, TaskContext, TaskPanics, TaskRestartFails, TaskPanicCheck, TaskResumed

(* A handler is hired for a source somebody asked for.                     *)
LEMMA FaultTraced ==
  ASSUME TypeOK, Ownership, Traced, NEW p \in Pipes, NEW thread, NEW retry, NEW t \in Tasks,
         Raise(p, thread, retry, t)
  PROVE  Traced'
<1>1. /\ taskPc[t] = "free" /\ taskPc'[t] # "free" /\ taskSrc'[t] = p[2]
      /\ \A u \in Tasks : u # t => taskPc'[u] = taskPc[u] /\ taskSrc'[u] = taskSrc[u]
      /\ ~Unowned(p)
      /\ UNCHANGED <<pipe, startPc, startReq>>
  BY DEF Raise, TypeOK, Unowned, startVars
<1>2. \E c \in StartCalls : Accepted(c) /\ p[2] \in startReq[c]
  <2>1. CASE p[1] \in StartCalls
    BY <1>1, <2>1, PipeParts DEF Traced, StartPipe
  <2>2. CASE p[1] \in Tasks
    <3>1. taskPc[p[1]] # "free" /\ p[2] = taskSrc[p[1]]
      BY <1>1, <2>2, PipeParts DEF Traced, Unowned
    <3> QED
      BY <2>2, <3>1 DEF Traced
  <2> QED
    BY <2>1, <2>2, PipeParts DEF Openers
<1>3. \A s \in Sources : pipe[<<t, s>>] = "none"
  BY <1>1 DEF Traced
<1>4. \A u \in Tasks : taskPc'[u] # "free" =>
        \E c \in StartCalls : Accepted(c)' /\ taskSrc'[u] \in startReq'[c]
  BY <1>1, <1>2 DEF Traced, Accepted
<1>5. \A u \in Tasks, s \in Sources :
        pipe'[<<u, s>>] # "none" => taskPc'[u] # "free" /\ s = taskSrc'[u]
  BY <1>1, <1>3 DEF Traced
<1>6. \A c \in StartCalls, s \in Sources :
        ~Unowned(StartPipe(c, s))' => Accepted(c)' /\ s \in startReq'[c]
  BY <1>1 DEF Traced, Accepted, Unowned
<1> QED
  BY <1>4, <1>5, <1>6 DEF Traced

LEMMA OthersTraced ==
  ASSUME TypeOK, Ownership, Traced,
         \/ \E c \in StartCalls : StartDogStep(c)
         \/ \E c \in StopCalls : StopBegin(c) \/ StopStep(c) \/ StopDogStep(c)
         \/ ShutdownBegin \/ ShutdownStep
         \/ \E p \in Pipes : SignalStep(p) \/ AbandonJoined(p)
         \/ \E s \in Sources : HealthAges(s)
         \/ \E found \in BOOLEAN : ListMicrophones(found)
         \/ UNCHANGED vars
  PROVE  Traced'
<1> USE DEF pipeVars, startVars, taskVars
<1>1. UNCHANGED <<startPc, startReq, taskPc, taskSrc>>
  <2>1. CASE \/ \E c \in StartCalls : StartDogStep(c)
             \/ \E c \in StopCalls : StopBegin(c) \/ StopStep(c) \/ StopDogStep(c)
    BY <2>1 DEF StartDogStep, StartDogExpires, StartDogExchanges, StartDogCommits,
       StopBegin, StopStep, StopThread, StopLook, StopTake, StopApply, StopJoined,
       StopCheck, StopCommit, StopDogStep, StopDogExpires, StopDogCommits
  <2>2. CASE \/ ShutdownBegin \/ ShutdownStep
             \/ \E s \in Sources : HealthAges(s)
             \/ \E found \in BOOLEAN : ListMicrophones(found)
             \/ UNCHANGED vars
    BY <2>2 DEF ShutdownBegin, ShutdownStep, ShutdownTake, ShutdownJoined, HealthAges,
       ListMicrophones, vars
  <2>3. CASE \E p \in Pipes : SignalStep(p) \/ AbandonJoined(p)
    BY <2>3 DEF SignalStep, SignalCheck, SignalMark, SignalHealth, AbandonJoined
  <2> QED
    BY <2>1, <2>2, <2>3
<1>2. ASSUME \A p \in Pipes : pipe'[p] = pipe[p] \/ ~Unowned(p)
      PROVE  Traced'
  BY <1>1, <1>2, TracedKept DEF Accepted
<1>3. ASSUME NEW c \in StopCalls, StopJoined(c)
      PROVE  Traced'
  <2>1. \A p \in Pipes : p \in stopHeld[c] => ~Unowned(p)
    BY DEF Ownership, OneOwner, Unowned
  <2> QED
    BY <1>2, <1>3, <2>1 DEF StopJoined, SetPipes
<1>4. CASE ShutdownTake
  <2>1. \A p \in InSlots : p \in Pipes => ~Unowned(p)
    BY SlotOfItsSource DEF Ownership, OneOwner, Unowned
  <2> QED
    BY <1>2, <1>4, <2>1 DEF ShutdownTake, SetPipes
<1>5. CASE ShutdownJoined
  BY <1>2, <1>5 DEF ShutdownJoined, SetPipes, Dropped, Unowned
<1>6. ASSUME NEW p \in Pipes, AbandonJoined(p)
      PROVE  Traced'
  BY <1>2, <1>6 DEF AbandonJoined, SetPipes, Unowned
<1>7. CASE UNCHANGED pipe
  BY <1>2, <1>7
<1>8. CASE \/ \E c \in StartCalls : StartDogStep(c)
           \/ \E c \in StopCalls : StopBegin(c) \/ StopStep(c) \/ StopDogStep(c)
  BY <1>3, <1>7, <1>8 DEF StartDogStep, StartDogExpires, StartDogExchanges, StartDogCommits,
     StopBegin, StopStep, StopThread, StopLook, StopTake, StopApply, StopCheck, StopCommit,
     StopDogStep, StopDogExpires, StopDogCommits
<1>9. CASE \/ ShutdownBegin \/ ShutdownStep
           \/ \E s \in Sources : HealthAges(s)
           \/ \E found \in BOOLEAN : ListMicrophones(found)
           \/ UNCHANGED vars
  BY <1>4, <1>5, <1>7, <1>9 DEF ShutdownBegin, ShutdownStep, HealthAges, ListMicrophones, vars
<1>10. ASSUME NEW p \in Pipes, SignalStep(p)
       PROVE  Traced'
  BY <1>7, <1>10 DEF SignalStep, SignalCheck, SignalMark, SignalHealth
<1> QED
  BY <1>6, <1>8, <1>9, <1>10

(* No device is opened that the accepted start did not ask for, no attempt *)
(* opens a source other than the one it was hired for, and no handler      *)
(* works for a source nobody asked for.                                    *)
THEOREM RequestsAreTraced == Spec => []Traced
<1>1. Init => Traced
  BY PipeParts DEF Init, Traced, Unowned
<1>2. TypeOK /\ Ownership /\ Traced /\ [Next]_vars => Traced'
  BY StartsTraced, TasksTraced, FaultTraced, OthersTraced DEF Next, InternalStep, PipeStep
<1> QED
  BY <1>1, <1>2, TypeCorrect, OwnershipInvariant, PTL DEF Spec

-----------------------------------------------------------------------------
(* Under one command: a step that leaves the commands and the handlers     *)
(* alone and shows nothing as starting                                     *)
LEMMA SingleKept ==
  ASSUME Single,
         UNCHANGED <<generation, capture, open, micRequested, startPc, startGen, startReq,
                     startDog, stopPc, stopDog, taskVars>>,
         shutPc' = "new" <=> shutPc = "new",
         \A s \in Sources : source'[s] = "starting" => source[s] = "starting"
  PROVE  Single'
<1> SUFFICES ASSUME generation <= 1
             PROVE  OneCommand' /\ OneSession' /\ Explained'
  BY DEF Single
<1>1. OneCommand'
  BY DEF Single, OneCommand, Accepted, StartIsCurrent, TaskIsCurrent, taskVars
<1>2. OneSession'
  BY DEF Single, OneSession, Accepted
<1>3. Explained'
  BY DEF Single, Explained, InFlight, Working, taskVars
<1> QED
  BY <1>1, <1>2, <1>3

(* The first command finds nothing under way, and a second one is not the  *)
(* subject here.                                                           *)
LEMMA CommandBegins ==
  ASSUME TypeOK, Traced, Single,
         \/ \E c \in StartCalls, req \in Requests : StartBegin(c, req)
         \/ \E c \in StopCalls : StopBegin(c)
         \/ ShutdownBegin
  PROVE  Single'
<1> USE DEF stateVars, sessionVars, startVars, stopVars, taskVars
<1> SUFFICES ASSUME generation' <= 1
             PROVE  OneCommand' /\ OneSession' /\ Explained'
  BY DEF Single
<1>1. generation = 0 /\ generation' = 1
  BY DEF StartBegin, StopBegin, ShutdownBegin, TypeOK
<1>2. OneCommand /\ OneSession /\ Explained
  BY <1>1 DEF Single
<1>3. /\ \A c \in StartCalls : ~Accepted(c) /\ startDog[c] = "off"
      /\ \A d \in StopCalls : stopPc[d] = "new" /\ stopDog[d] = "off"
      /\ shutPc = "new"
      /\ capture = "idle" /\ \A s \in Sources : source[s] # "starting"
  BY <1>1, <1>2 DEF OneCommand, OneSession
<1>4. \A t \in Tasks : taskPc[t] = "free"
  BY <1>3 DEF Traced
<1>5. ASSUME NEW c \in StartCalls, NEW req \in Requests, StartBegin(c, req)
      PROVE  OneCommand' /\ OneSession' /\ Explained'
  <2>1. /\ startPc'[c] = "model" /\ startGen'[c] = 1 /\ startReq'[c] = req
        /\ \A d \in StartCalls : d # c => startPc'[d] \in {"new", "rejected"}
    BY <1>1, <1>3, <1>5 DEF StartBegin, GoStart, Accepted, TypeOK
  <2>2. /\ UNCHANGED <<open, micRequested, startDog, stopPc, stopDog, taskPc, shutPc>>
        /\ capture' = "starting"
        /\ \A s \in Sources : source'[s] = "starting" => s \in req
    BY <1>3, <1>5 DEF StartBegin
  <2>3. \A d \in StartCalls : Accepted(d)' => d = c
    BY <2>1 DEF Accepted
  <2>4. OneCommand'
    <3>1. StartIsCurrent(c)' /\ Accepted(c)'
      BY <1>1, <2>1 DEF StartIsCurrent, Accepted
    <3> QED
      BY <1>1, <1>3, <1>4, <2>2, <2>3, <3>1 DEF OneCommand
  <2>5. OneSession'
    BY <2>1 DEF OneSession, Accepted, Installed
  <2>6. Explained'
    BY <2>1, <2>2 DEF Explained, InFlight
  <2> QED
    BY <2>4, <2>5, <2>6
<1>6. ASSUME (\E c \in StopCalls : StopBegin(c)) \/ ShutdownBegin
      PROVE  OneCommand' /\ OneSession' /\ Explained'
  <2>1. UNCHANGED <<capture, source, open, micRequested, startPc, startDog, stopDog, taskPc>>
    BY <1>6 DEF StopBegin, ShutdownBegin
  <2>2. \A d \in StopCalls : stopPc'[d] \in {"new", "look"}
    BY <1>3, <1>6 DEF StopBegin, ShutdownBegin, GoStop, TypeOK
  <2>3. \A c \in StartCalls : ~Accepted(c)'
    BY <1>3, <2>1 DEF Accepted
  <2>4. OneCommand'
    BY <1>1, <1>3, <1>4, <2>1, <2>2, <2>3 DEF OneCommand
  <2>5. OneSession'
    BY <1>3, <2>1, <2>3 DEF OneSession, Accepted, Installed
  <2>6. Explained'
    BY <1>3, <2>1 DEF Explained
  <2> QED
    BY <2>4, <2>5, <2>6
<1> QED
  BY <1>5, <1>6

(* The start call itself: it is current, so it goes on to the end.         *)
LEMMA StartGoesOn ==
  ASSUME TypeOK, Traced, Single, NEW c \in StartCalls, StartStep(c)
  PROVE  Single'
<1> USE DEF stateVars, sessionVars, startVars, stopVars, taskVars
<1>1. UNCHANGED <<generation, startGen, startReq, stopPc, stopDog, taskVars, shutPc>>
  BY DEF StartStep, StartModelReturns, StartModelFails, StartModelReady, StartMicReturns,
     StartMicFails, StartMicOpens, StartSysReturns, StartSysFails, StartSysOpens, StartThread,
     StartMicDone, StartCheck, StartInstall, StartDropped, StartCommit, StartFailCheck,
     StartFailApply
<1> SUFFICES ASSUME generation <= 1
             PROVE  OneCommand' /\ OneSession' /\ Explained'
  BY <1>1 DEF Single
<1>2. OneCommand /\ OneSession /\ Explained
  BY DEF Single
<1>3. /\ InFlight(c) /\ Accepted(c)
      /\ \A d \in StartCalls : d # c => startPc'[d] = startPc[d]
      /\ startPc[c] \in Installed \cup {"install"} <=> startPc'[c] \in Installed
  BY DEF StartStep, StartModelReturns, StartModelFails, StartModelReady, StartMicReturns,
     StartMicFails, StartMicOpens, StartSysReturns, StartSysFails, StartSysOpens, StartThread,
     StartMicDone, StartCheck, StartInstall, StartDropped, StartCommit, StartFailCheck,
     StartFailApply, GoStart, InFlight, Accepted, TypeOK, Installed
<1>4. StartIsCurrent(c) /\ \A d \in StartCalls : Accepted(d) => d = c
  BY <1>2, <1>3 DEF OneCommand
<1>5. \/ InFlight(c)'
      \/ startPc'[c] \in {"listening", "failed"} /\ (StartCommit(c) \/ StartFailApply(c))
  BY <1>4 DEF StartStep, StartModelReturns, StartModelFails, StartModelReady, StartMicReturns,
     StartMicFails, StartMicOpens, StartSysReturns, StartSysFails, StartSysOpens, StartThread,
     StartMicDone, StartCheck, StartInstall, StartDropped, StartCommit, StartFailCheck,
     StartFailApply, GoStart, InFlight, TypeOK
<1>6. Accepted(c)' /\ \A d \in StartCalls : d # c => ~Accepted(d)'
  BY <1>3, <1>4, <1>5 DEF Accepted, InFlight
<1>7. OneCommand'
  <2>1. \A d \in StartCalls : startDog'[d] # "won" /\ (startDog'[d] # "off" => Accepted(d)')
    <3>1. UNCHANGED startDog \/ startDog' = [startDog EXCEPT ![c] = "armed"]
      BY DEF StartStep, StartModelReturns, StartModelFails, StartModelReady, StartMicReturns,
         StartMicFails, StartMicOpens, StartSysReturns, StartSysFails, StartSysOpens,
         StartThread, StartMicDone, StartCheck, StartInstall, StartDropped, StartCommit,
         StartFailCheck, StartFailApply
    <3>2. \A d \in StartCalls : startDog[d] # "won" /\ (startDog[d] # "off" => d = c)
      BY <1>2, <1>4 DEF OneCommand
    <3> QED
      BY <1>6, <3>1, <3>2 DEF TypeOK
  <2>2. generation # 0 /\ shutPc = "new" /\ \A d \in StopCalls : stopPc[d] = "new"
    BY <1>2, <1>3 DEF OneCommand
  <2> QED
    BY <1>1, <1>2, <1>4, <1>6, <2>1, <2>2 DEF OneCommand, StartIsCurrent, TaskIsCurrent
<1>8. OneSession'
  <2>1. \A d \in StartCalls : startPc'[d] \in Installed => d = c
    BY <1>6 DEF Accepted, Installed
  <2>2. CASE StartInstall(c)
    BY <1>1, <1>6, <2>1, <2>2 DEF StartInstall, OneSession
  <2>3. CASE ~StartInstall(c)
    <3>1. UNCHANGED <<open, micRequested>> /\ startPc[c] # "install"
      BY <2>3 DEF StartStep, StartModelReturns, StartModelFails, StartModelReady,
         StartMicReturns, StartMicFails, StartMicOpens, StartSysReturns, StartSysFails,
         StartSysOpens, StartThread, StartMicDone, StartCheck, StartDropped, StartCommit,
         StartFailCheck, StartFailApply
    <3> QED
      BY <1>1, <1>2, <1>3, <1>6, <2>1, <3>1 DEF OneSession
  <2> QED
    BY <2>2, <2>3
<1>9. Explained'
  <2>1. open => open'
    BY DEF StartStep, StartModelReturns, StartModelFails, StartModelReady, StartMicReturns,
       StartMicFails, StartMicOpens, StartSysReturns, StartSysFails, StartSysOpens,
       StartThread, StartMicDone, StartCheck, StartInstall, StartDropped, StartCommit,
       StartFailCheck, StartFailApply
  <2>2. \A s \in Sources : source[s] = "starting" =>
          s \in startReq[c] \/ (open' /\ Working(s)' # {})
    <3>1. \A s \in Sources : Working(s)' = Working(s)
      BY <1>1 DEF Working
    <3>2. \A d \in StartCalls : InFlight(d) => d = c
      BY <1>4 DEF InFlight, Accepted
    <3> QED
      BY <1>2, <2>1, <3>1, <3>2 DEF Explained
  <2>3. CASE InFlight(c)' /\ ~StartCommit(c) /\ ~StartFailApply(c)
    <3>1. UNCHANGED <<capture, source>>
      BY <2>3 DEF StartStep, StartModelReturns, StartModelFails, StartModelReady,
         StartMicReturns, StartMicFails, StartMicOpens, StartSysReturns, StartSysFails,
         StartSysOpens, StartThread, StartMicDone, StartCheck, StartInstall, StartDropped,
         StartFailCheck
    <3> QED
      BY <1>1, <1>2, <2>2, <2>3, <3>1 DEF Explained
  <2>4. CASE StartCommit(c)
    <3>1. /\ capture' = "listening"
          /\ \A s \in Sources : source'[s] = "starting" =>
               source[s] = "starting" /\ s \notin startReq[c]
      BY <2>4 DEF StartCommit
    <3> QED
      BY <2>2, <3>1 DEF Explained
  <2>5. CASE StartFailApply(c)
    BY <2>5 DEF StartFailApply, Explained
  <2> QED
    BY <1>5, <2>3, <2>4, <2>5
<1> QED
  BY <1>7, <1>8, <1>9

(* The starting watchdog moves the generation on, or has nothing to do.    *)
LEMMA StartWatched ==
  ASSUME TypeOK, Traced, Single, NEW c \in StartCalls, StartDogStep(c)
  PROVE  Single'
<1> USE DEF stateVars, sessionVars, startVars, stopVars, taskVars
<1> SUFFICES ASSUME generation' <= 1
             PROVE  Single'
  BY DEF Single
<1>0. generation <= 1 /\ generation \in Nat
  <2>1. generation \in Nat
    BY DEF TypeOK
  <2>2. generation' \in {generation, generation + 1}
    BY DEF StartDogStep, StartDogExpires, StartDogExchanges, StartDogCommits
  <2> QED
    BY <2>1, <2>2
<1>1. OneCommand /\ OneSession /\ Explained
  BY <1>0 DEF Single
<1>2. ~StartDogCommits(c)
  BY <1>1 DEF OneCommand, StartDogCommits
<1>3. ~StartDogExchanges(c)
  <2> SUFFICES ASSUME StartDogExchanges(c)
               PROVE  FALSE
    OBVIOUS
  <2>1. Accepted(c) /\ StartIsCurrent(c) /\ generation # 0
    BY <1>1 DEF StartDogExchanges, OneCommand
  <2>2. generation' = generation + 1
    BY <2>1 DEF StartDogExchanges
  <2> QED
    BY <1>0, <2>1, <2>2
<1>4. /\ StartDogExpires(c)
      /\ UNCHANGED <<generation, capture, source, open, micRequested, startPc, startGen,
                     startReq, stopPc, stopDog, taskVars, shutPc>>
  BY <1>2, <1>3 DEF StartDogStep, StartDogExpires
<1>5. OneCommand'
  <2>1. \A d \in StartCalls : startDog'[d] # "won" /\ (startDog'[d] # "off" => Accepted(d))
    BY <1>1, <1>4 DEF StartDogExpires, OneCommand, TypeOK
  <2> QED
    BY <1>1, <1>4, <2>1 DEF OneCommand, Accepted, StartIsCurrent, TaskIsCurrent
<1>6. OneSession'
  BY <1>1, <1>4 DEF OneSession, Accepted
<1>7. Explained'
  BY <1>1, <1>4 DEF Explained, InFlight, Working
<1> QED
  BY <1>5, <1>6, <1>7 DEF Single

(* A stop or shutdown that comes first finds the application idle.         *)
LEMMA StopFindsNothing ==
  ASSUME TypeOK, Traced, Single,
         \/ \E c \in StopCalls : StopStep(c) \/ StopDogStep(c)
         \/ ShutdownStep
  PROVE  Single'
<1> USE DEF stateVars, sessionVars, startVars, stopVars, taskVars
<1>1. UNCHANGED <<generation, startVars, taskVars>>
  BY DEF StopStep, StopThread, StopLook, StopTake, StopApply, StopJoined, StopCheck,
     StopCommit, StopDogStep, StopDogExpires, StopDogCommits, ShutdownStep, ShutdownTake,
     ShutdownJoined
<1> SUFFICES ASSUME generation <= 1
             PROVE  Single'
  BY <1>1 DEF Single
<1>2. OneCommand /\ OneSession /\ Explained
  BY DEF Single
<1>3. ASSUME NEW c \in StopCalls, StopStep(c) \/ StopDogStep(c)
      PROVE  Single'
  <2>1. stopPc[c] \in {"new", "look", "rejected"} /\ stopDog[c] = "off"
    BY <1>2 DEF OneCommand
  <2>2. StopLook(c)
    BY <1>3, <2>1 DEF StopStep, StopThread, StopTake, StopApply, StopJoined, StopCheck,
       StopCommit, StopDogStep, StopDogExpires, StopDogCommits
  <2>3. \A d \in StartCalls : ~Accepted(d)
    BY <1>2, <2>2 DEF OneCommand, StopLook
  <2>4. capture = "idle"
    BY <1>2, <2>3 DEF OneSession
  <2>5. /\ stopPc' = [stopPc EXCEPT ![c] = "rejected"] /\ stopPc[c] = "look"
        /\ UNCHANGED <<capture, source, open, micRequested, stopDog, shutPc>>
    BY <2>2, <2>4 DEF StopLook, GoStop
  <2>6. OneCommand'
    <3>1. \A d \in StopCalls : stopPc'[d] \in {"new", "look", "rejected"}
      BY <1>2, <2>5 DEF OneCommand, TypeOK
    <3>2. \A d \in StartCalls : ~Accepted(d)'
      BY <1>1, <2>3 DEF Accepted
    <3>3. generation # 0
      BY <1>2, <2>5 DEF OneCommand
    <3> QED
      BY <1>1, <1>2, <2>5, <3>1, <3>2, <3>3 DEF OneCommand, TaskIsCurrent
  <2>7. OneSession'
    BY <1>1, <1>2, <2>5 DEF OneSession, Accepted
  <2>8. Explained'
    BY <1>1, <1>2, <2>5 DEF Explained, InFlight, Working
  <2> QED
    BY <2>6, <2>7, <2>8 DEF Single
<1>4. CASE ShutdownTake
  <2>1. \A d \in StartCalls : ~Accepted(d)
    BY <1>2, <1>4 DEF OneCommand, ShutdownTake
  <2>2. /\ shutPc = "take" /\ shutPc' # "new"
        /\ UNCHANGED <<capture, source, stopPc, stopDog>>
    BY <1>4 DEF ShutdownTake
  <2>3. \A d \in StartCalls : ~Accepted(d)'
    BY <1>1, <2>1 DEF Accepted
  <2>4. OneCommand'
    BY <1>1, <1>2, <2>2, <2>3 DEF OneCommand, TaskIsCurrent
  <2>5. OneSession'
    BY <1>2, <2>1, <2>2, <2>3 DEF OneSession, Accepted, Installed
  <2>6. Explained'
    BY <1>2, <2>1, <2>2 DEF OneSession, Explained
  <2> QED
    BY <2>4, <2>5, <2>6 DEF Single
<1>5. CASE ShutdownJoined
  BY <1>1, <1>5, SingleKept DEF ShutdownJoined
<1> QED
  BY <1>3, <1>4, <1>5 DEF ShutdownStep

(* A handler or an attempt ends by saying what became of its source.       *)
LEMMA TaskAnswers ==
  ASSUME TypeOK, Paid, Traced, Single, NEW t \in Tasks, HandlerStep(t) \/ RecoveryStep(t)
  PROVE  Single'
<1> USE DEF stateVars, sessionVars, startVars, stopVars, taskVars
<1>1. /\ UNCHANGED <<generation, startVars, stopVars, taskSrc, taskGen, shutPc>>
      /\ UNCHANGED <<open, micRequested>>
      /\ capture' \in {capture, "error"}
  BY DEF HandlerStep, RecoveryStep, TaskCheck, TaskSession, TaskStatus, TaskTerminal,
     TaskSurvey, TaskBackoff, TaskContext, TaskRestartOpens, TaskPanics, TaskRestartFails,
     TaskPanicCheck, TaskOpened, TaskInstall, TaskDropped, TaskResumed
<1> SUFFICES ASSUME generation <= 1
             PROVE  OneCommand' /\ OneSession' /\ Explained'
  BY <1>1 DEF Single
<1>2. OneCommand /\ OneSession /\ Explained
  BY DEF Single
<1>3. /\ taskPc[t] \notin {"free", "done"} /\ taskPc'[t] # "free"
      /\ \A u \in Tasks : u # t => taskPc'[u] = taskPc[u]
  <2>1. taskPc[t] \notin {"free", "done"} /\ \E pc \in TaskPcs \ {"free"} : GoTask(t, pc)
    BY DEF HandlerStep, RecoveryStep, TaskCheck, TaskSession, TaskStatus, TaskTerminal,
       TaskSurvey, TaskBackoff, TaskContext, TaskRestartOpens, TaskPanics, TaskRestartFails,
       TaskPanicCheck, TaskOpened, TaskInstall, TaskDropped, TaskResumed, TaskPcs
  <2> QED
    BY <2>1 DEF GoTask, TypeOK
<1>4. PICK c \in StartCalls : Accepted(c) /\ taskSrc[t] \in startReq[c]
  BY <1>3 DEF Traced
<1>5. TaskIsCurrent(t) /\ \A d \in StartCalls : Accepted(d) => d = c
  BY <1>2, <1>3, <1>4 DEF OneCommand
<1>6. taskPc[t] \notin EarlyPcs => open /\ (taskSrc[t] = "microphone" => micRequested)
  <2> SUFFICES ASSUME taskPc[t] \notin EarlyPcs
               PROVE  open /\ (taskSrc[t] = "microphone" => micRequested)
    OBVIOUS
  <2>1. PICK d \in StartCalls : startPc[d] \in Installed
    BY DEF Paid, NotYetOpen, Uninstalled
  <2>2. d = c
    BY <1>5, <2>1 DEF Accepted, Installed
  <2> QED
    BY <1>2, <1>4, <2>1, <2>2 DEF OneSession
<1>7. OneCommand'
  <2>1. \A d \in StartCalls : Accepted(d)' <=> Accepted(d)
    BY <1>1 DEF Accepted
  <2>2. \A d \in StartCalls : StartIsCurrent(d)' <=> StartIsCurrent(d)
    BY <1>1 DEF StartIsCurrent
  <2>3. \A u \in Tasks : taskPc'[u] # "free" => TaskIsCurrent(u)'
    BY <1>1, <1>2, <1>3 DEF OneCommand, TaskIsCurrent
  <2> QED
    BY <1>1, <1>2, <2>1, <2>2, <2>3 DEF OneCommand
<1>8. OneSession'
  <2>1. Accepted(c)'
    BY <1>1, <1>4 DEF Accepted
  <2> QED
    BY <1>1, <1>2, <2>1 DEF OneSession
<1>9. ASSUME NEW s \in Sources, source'[s] = "starting"
      PROVE  \/ \E d \in StartCalls : InFlight(d)' /\ s \in startReq'[d]
             \/ open' /\ Working(s)' # {}
  <2>1. CASE TaskStatus(t) /\ s = taskSrc[t]
    <3>1. open /\ taskPc'[t] = "backoff"
      BY <1>6, <2>1 DEF TaskStatus, GoTask, TypeOK, EarlyPcs
    <3> QED
      BY <1>1, <2>1, <3>1 DEF Working
  <2>2. CASE ~(TaskStatus(t) /\ s = taskSrc[t])
    <3>1. source[s] = "starting"
      BY <1>9, <2>2 DEF HandlerStep, RecoveryStep, TaskCheck, TaskSession, TaskStatus,
         TaskTerminal, TaskSurvey, TaskBackoff, TaskContext, TaskRestartOpens, TaskPanics,
         TaskRestartFails, TaskPanicCheck, TaskOpened, TaskInstall, TaskDropped,
         TaskResumed, TypeOK
    <3>2. CASE \E d \in StartCalls : InFlight(d) /\ s \in startReq[d]
      BY <1>1, <3>2 DEF InFlight
    <3>3. ASSUME open, NEW u \in Working(s)
          PROVE  open' /\ u \in Working(s)'
      <4>1. CASE u # t
        BY <1>1, <1>3, <3>3, <4>1 DEF Working
      <4>2. CASE u = t
        <5>1. s = taskSrc[t]
          BY <4>2 DEF Working
        <5>2. ~TaskResumed(t) /\ ~TaskSurvey(t)
          BY <1>9, <5>1 DEF TaskResumed, TaskSurvey, TypeOK
        <5>3. taskPc'[t] # "done"
          BY <1>5, <1>6, <3>3, <5>2 DEF HandlerStep, RecoveryStep, TaskCheck, TaskSession,
             TaskStatus, TaskTerminal, TaskBackoff, TaskContext, TaskRestartOpens, TaskPanics,
             TaskRestartFails, TaskPanicCheck, TaskOpened, TaskInstall, TaskDropped,
             GoTask, TypeOK, EarlyPcs
        <5> QED
          BY <1>1, <1>3, <3>3, <4>2, <5>1, <5>3 DEF Working
      <4> QED
        BY <4>1, <4>2
    <3> QED
      BY <1>2, <3>1, <3>2, <3>3 DEF Explained
  <2> QED
    BY <2>1, <2>2
<1>10. Explained'
  <2>1. \A d \in StartCalls : InFlight(d)' <=> InFlight(d)
    BY <1>1 DEF InFlight
  <2> QED
    BY <1>1, <1>2, <1>9, <2>1 DEF Explained
<1> QED
  BY <1>7, <1>8, <1>10

(* A fault of a running source belongs to the one session there is.        *)
LEMMA FaultIsCurrent ==
  ASSUME TypeOK, Traced, Single, NEW p \in Pipes, NEW thread, NEW retry, NEW t \in Tasks,
         Raise(p, thread, retry, t)
  PROVE  Single'
<1> USE DEF stateVars, sessionVars, startVars, stopVars
<1>1. /\ UNCHANGED <<generation, capture, source, open, micRequested, startVars, stopVars, shutPc>>
      /\ taskPc[t] = "free" /\ taskGen'[t] = PipeGen(p) /\ ~Unowned(p)
      /\ \A u \in Tasks : u # t =>
           taskPc'[u] = taskPc[u] /\ taskSrc'[u] = taskSrc[u] /\ taskGen'[u] = taskGen[u]
  BY DEF Raise, TypeOK, Unowned
<1> SUFFICES ASSUME generation <= 1
             PROVE  OneCommand' /\ OneSession' /\ Explained'
  BY <1>1 DEF Single
<1>2. OneCommand /\ OneSession /\ Explained
  BY DEF Single
<1>3. PipeGen(p) = generation
  <2>1. CASE p[1] \in StartCalls
    <3>1. Accepted(p[1])
      BY <1>1, <2>1, PipeParts DEF Traced, StartPipe
    <3> QED
      BY <1>2, <2>1, <3>1 DEF OneCommand, StartIsCurrent, PipeGen
  <2>2. CASE p[1] \in Tasks
    <3>1. taskPc[p[1]] # "free"
      BY <1>1, <2>2, PipeParts DEF Traced, Unowned
    <3> QED
      BY <1>2, <2>2, <3>1, ConstantAssumption DEF OneCommand, TaskIsCurrent, PipeGen
  <2> QED
    BY <2>1, <2>2, PipeParts DEF Openers
<1>4. OneCommand'
  <2>1. \A u \in Tasks : taskPc'[u] # "free" => TaskIsCurrent(u)'
    BY <1>1, <1>2, <1>3 DEF OneCommand, TaskIsCurrent
  <2> QED
    BY <1>1, <1>2, <2>1 DEF OneCommand, Accepted, StartIsCurrent
<1>5. OneSession'
  BY <1>1, <1>2 DEF OneSession, Accepted
<1>6. Explained'
  <2>1. \A s \in Sources : Working(s) \subseteq Working(s)'
    BY <1>1 DEF Working
  <2> QED
    BY <1>1, <1>2, <2>1 DEF Explained, InFlight
<1> QED
  BY <1>4, <1>5, <1>6

LEMMA OthersSingle ==
  ASSUME TypeOK, Single,
         \/ \E c \in StartCalls, req \in Requests : StartRejected(c, req)
         \/ \E p \in Pipes : SignalStep(p) \/ AbandonJoined(p)
         \/ \E s \in Sources : HealthAges(s)
         \/ \E found \in BOOLEAN : ListMicrophones(found)
         \/ UNCHANGED vars
  PROVE  Single'
<1> USE DEF stateVars, sessionVars, startVars, stopVars
<1>1. ASSUME NEW p \in Pipes, SignalStep(p) \/ AbandonJoined(p)
      PROVE  Single'
  BY <1>1, SingleKept DEF SignalStep, SignalCheck, SignalMark, SignalHealth, AbandonJoined, TypeOK
<1>2. CASE (\E s \in Sources : HealthAges(s)) \/ UNCHANGED vars
  BY <1>2, SingleKept DEF HealthAges, vars
<1>3. ASSUME NEW found \in BOOLEAN, ListMicrophones(found)
      PROVE  Single'
  BY <1>3, SingleKept DEF ListMicrophones, TypeOK
<1>4. ASSUME NEW c \in StartCalls, NEW req \in Requests, StartRejected(c, req)
      PROVE  Single'
  <2>1. /\ startPc[c] = "new" /\ startPc'[c] = "rejected"
        /\ \A d \in StartCalls : d # c => startPc'[d] = startPc[d]
        /\ UNCHANGED <<generation, stateVars, sessionVars, startGen, startReq, startDog,
                       stopVars, taskVars, shutPc>>
    BY <1>4 DEF StartRejected, GoStart, TypeOK
  <2>2. \A d \in StartCalls : /\ Accepted(d)' <=> Accepted(d)
                              /\ InFlight(d)' <=> InFlight(d)
                              /\ startPc'[d] \in Installed <=> startPc[d] \in Installed
    BY <2>1 DEF Accepted, InFlight, Installed
  <2> SUFFICES ASSUME generation <= 1
               PROVE  OneCommand' /\ OneSession' /\ Explained'
    BY <2>1 DEF Single
  <2>3. OneCommand'
    BY <2>1, <2>2 DEF Single, OneCommand, StartIsCurrent, TaskIsCurrent, taskVars
  <2>4. OneSession'
    BY <2>1, <2>2 DEF Single, OneSession
  <2>5. Explained'
    BY <2>1, <2>2 DEF Single, Explained, Working, taskVars
  <2> QED
    BY <2>3, <2>4, <2>5
<1> QED
  BY <1>1, <1>2, <1>3, <1>4

(* Until a second command comes, no transitional status outlives the call  *)
(* or the attempt it stands for, however the sources of the session break, *)
(* come back and turn terminal.                                            *)
THEOREM StatusIsSettled == Spec => [](generation <= 1 => NothingPending)
<1>1. Init => Single
  <2> SUFFICES ASSUME Init
               PROVE  OneCommand /\ OneSession /\ Explained
    BY DEF Single
  <2>1. OneCommand /\ OneSession
    BY DEF Init, OneCommand, OneSession, Accepted, Installed
  <2>2. Explained
    BY DEF Init, Explained
  <2> QED
    BY <2>1, <2>2
<1>2. TypeOK /\ Paid /\ Traced /\ Single /\ [Next]_vars => Single'
  BY CommandBegins, StartGoesOn, StartWatched, StopFindsNothing, TaskAnswers, FaultIsCurrent,
     OthersSingle
  DEF Next, InternalStep, PipeStep
<1>3. Single => (generation <= 1 => NothingPending)
  <2> SUFFICES ASSUME Explained, AtRest
               PROVE  capture \notin {"starting", "stopping"}
                      /\ \A s \in Sources : source[s] # "starting"
    BY DEF Single, NothingPending
  <2>1. \A c \in StartCalls : ~InFlight(c)
    BY DEF AtRest, InFlight
  <2>2. \A s \in Sources : Working(s) = {}
    BY DEF AtRest, Working
  <2> QED
    BY <2>1, <2>2 DEF Explained
<1> QED
  BY <1>1, <1>2, <1>3, TypeCorrect, ChargesInvariant, RequestsAreTraced, PTL DEF Spec

-----------------------------------------------------------------------------
(* The shipped application is the manager with fewer commands.             *)
THEOREM AppRunsManager == AppSpec => Spec
<1>1. AppInit => Init
  BY DEF AppInit
<1>2. [AppNext]_appVars => [Next]_vars
  <2>1. AppNext => [Next]_vars
    BY DEF AppNext, ClickStart, ClickStop, Render, Next
  <2> QED
    BY <2>1 DEF appVars
<1> QED
  BY <1>1, <1>2, PTL DEF AppSpec, Spec

-----------------------------------------------------------------------------
(* What holds in every run: generations are handed out once, a closed      *)
(* session is empty, and no callback is under way on a joined pipeline.    *)
Begun(d) == stopPc[d] # "new"
Numbered ==
  /\ \A d \in StopCalls : stopGen[d] <= generation
  /\ \A c \in StartCalls, d \in StopCalls :
       Accepted(c) /\ Begun(d) => startGen[c] # stopGen[d]
EmptyWhenClosed == ~open => \A s \in Sources : slot[s] = NoPipe
CallbackRuns == \A p \in Pipes : signal[p] \in {"checked", "marked"} => ~Unowned(p)

LEMMA NumberedStep ==
  ASSUME TypeOK, Paid, Numbered, [Next]_vars
  PROVE  Numbered'
<1> USE DEF startVars, stopVars
<1>1. ASSUME NEW c \in StartCalls, NEW req \in Requests, StartBegin(c, req)
      PROVE  Numbered'
  <2>1. /\ generation' = generation + 1 /\ startGen'[c] = generation + 1
        /\ \A e \in StartCalls : e # c => startGen'[e] = startGen[e] /\ startPc'[e] = startPc[e]
        /\ UNCHANGED <<stopPc, stopGen>>
    BY <1>1 DEF StartBegin, GoStart, TypeOK
  <2>2. generation \in Nat /\ \A d \in StopCalls : stopGen[d] \in Nat
    BY DEF TypeOK
  <2> QED
    BY <2>1, <2>2 DEF Numbered, Accepted, Begun
<1>2. ASSUME NEW d \in StopCalls, StopBegin(d)
      PROVE  Numbered'
  <2>1. /\ generation' = generation + 1 /\ stopGen'[d] = generation + 1
        /\ \A e \in StopCalls : e # d => stopGen'[e] = stopGen[e] /\ stopPc'[e] = stopPc[e]
        /\ UNCHANGED <<startPc, startGen>>
    BY <1>2 DEF StopBegin, GoStop, TypeOK
  <2>2. /\ generation \in Nat /\ \A e \in StopCalls : stopGen[e] \in Nat
        /\ \A c \in StartCalls : startGen[c] \in Nat /\ startGen[c] <= generation
    BY DEF TypeOK, Paid, Dated
  <2> QED
    BY <2>1, <2>2 DEF Numbered, Accepted, Begun
<1>3. ASSUME generation' \in {generation, generation + 1},
             UNCHANGED <<startGen, stopGen>>,
             \A c \in StartCalls : Accepted(c)' => Accepted(c),
             \A d \in StopCalls : Begun(d)' => Begun(d)
      PROVE  Numbered'
  <2>1. generation \in Nat /\ \A d \in StopCalls : stopGen[d] \in Nat
    BY DEF TypeOK
  <2> QED
    BY <1>3, <2>1 DEF Numbered
<1>4. ASSUME NEW c \in StartCalls,
             (\E req \in Requests : StartRejected(c, req)) \/ StartStep(c)
      PROVE  Numbered'
  <2>1. UNCHANGED <<generation, startGen, stopVars>>
    BY <1>4 DEF StartRejected, StartStep, StartModelReturns, StartModelFails, StartModelReady,
       StartMicReturns, StartMicFails, StartMicOpens, StartSysReturns, StartSysFails,
       StartSysOpens, StartThread, StartMicDone, StartCheck, StartInstall, StartDropped,
       StartCommit, StartFailCheck, StartFailApply
  <2>2. \E pc \in StartPcs : GoStart(c, pc) /\ (pc = "rejected" \/ startPc[c] \notin {"new", "rejected"})
    BY <1>4 DEF StartRejected, StartStep, StartModelReturns, StartModelFails, StartModelReady,
       StartMicReturns, StartMicFails, StartMicOpens, StartSysReturns, StartSysFails,
       StartSysOpens, StartThread, StartMicDone, StartCheck, StartInstall, StartDropped,
       StartCommit, StartFailCheck, StartFailApply, StartPcs
  <2>3. \A e \in StartCalls : Accepted(e)' => Accepted(e)
    BY <2>2 DEF GoStart, Accepted, TypeOK
  <2> QED
    BY <1>3, <2>1, <2>3 DEF Begun
<1>5. ASSUME NEW d \in StopCalls, StopStep(d) \/ StopDogStep(d)
      PROVE  Numbered'
  <2>1. UNCHANGED <<generation, startVars, stopGen>>
    BY <1>5 DEF StopStep, StopThread, StopLook, StopTake, StopApply, StopJoined, StopCheck,
       StopCommit, StopDogStep, StopDogExpires, StopDogCommits
  <2>2. UNCHANGED stopPc \/ (stopPc[d] # "new" /\ \E pc \in StopPcs : GoStop(d, pc))
    BY <1>5 DEF StopStep, StopThread, StopLook, StopTake, StopApply, StopJoined, StopCheck,
       StopCommit, StopDogStep, StopDogExpires, StopDogCommits, StopPcs
  <2>3. \A e \in StopCalls : Begun(e)' => Begun(e)
    BY <2>2 DEF GoStop, Begun, TypeOK
  <2> QED
    BY <1>3, <2>1, <2>3 DEF Accepted
<1>6. ASSUME \/ \E c \in StartCalls : StartDogStep(c)
             \/ ShutdownBegin \/ ShutdownStep
             \/ \E s \in Sources : HealthAges(s)
             \/ \E found \in BOOLEAN : ListMicrophones(found)
             \/ UNCHANGED vars
      PROVE  Numbered'
  <2>1. /\ generation' \in {generation, generation + 1}
        /\ UNCHANGED <<startPc, startGen, stopVars>>
    BY <1>6 DEF StartDogStep, StartDogExpires, StartDogExchanges, StartDogCommits,
       ShutdownBegin, ShutdownStep, ShutdownTake, ShutdownJoined, HealthAges,
       ListMicrophones, vars
  <2> QED
    BY <1>3, <2>1 DEF Accepted, Begun
<1>7. ASSUME NEW t \in Tasks, HandlerStep(t) \/ RecoveryStep(t)
      PROVE  Numbered'
  <2>1. UNCHANGED <<generation, startVars, stopVars>>
    BY <1>7 DEF HandlerStep, RecoveryStep, TaskCheck, TaskSession, TaskStatus, TaskTerminal,
       TaskSurvey, TaskBackoff, TaskContext, TaskRestartOpens, TaskPanics, TaskRestartFails,
       TaskPanicCheck, TaskOpened, TaskInstall, TaskDropped, TaskResumed
  <2> QED
    BY <1>3, <2>1 DEF Accepted, Begun
<1>8. ASSUME NEW p \in Pipes, PipeStep(p)
      PROVE  Numbered'
  <2>1. UNCHANGED <<generation, startVars, stopVars>>
    BY <1>8 DEF PipeStep, SignalStep, SignalCheck, SignalMark, SignalHealth, AbandonJoined, Raise
  <2> QED
    BY <1>3, <2>1 DEF Accepted, Begun
<1> QED
  BY <1>1, <1>2, <1>4, <1>5, <1>6, <1>7, <1>8 DEF Next, InternalStep

LEMMA ClosedStep ==
  ASSUME TypeOK, EmptyWhenClosed, [Next]_vars
  PROVE  EmptyWhenClosed'
<1> USE DEF sessionVars
<1>1. CASE EmptySession
  BY <1>1 DEF EmptySession, EmptyWhenClosed
<1>2. CASE open'
  BY <1>2 DEF EmptyWhenClosed
<1>3. CASE UNCHANGED <<open, slot>>
  BY <1>3 DEF EmptyWhenClosed
<1>4. ASSUME NEW c \in StartCalls,
             \/ \E req \in Requests : StartRejected(c, req) \/ StartBegin(c, req)
             \/ StartStep(c) \/ StartDogStep(c)
      PROVE  EmptyWhenClosed'
  BY <1>2, <1>3, <1>4 DEF StartRejected, StartBegin, StartStep, StartModelReturns,
     StartModelFails, StartModelReady, StartMicReturns, StartMicFails, StartMicOpens,
     StartSysReturns, StartSysFails, StartSysOpens, StartThread, StartMicDone, StartCheck,
     StartInstall, StartDropped, StartCommit, StartFailCheck, StartFailApply, StartDogStep,
     StartDogExpires, StartDogExchanges, StartDogCommits
<1>5. ASSUME NEW d \in StopCalls, StopBegin(d) \/ StopStep(d) \/ StopDogStep(d)
      PROVE  EmptyWhenClosed'
  BY <1>1, <1>3, <1>5 DEF StopBegin, StopStep, StopThread, StopLook, StopTake, StopApply,
     StopJoined, StopCheck, StopCommit, StopDogStep, StopDogExpires, StopDogCommits
<1>6. ASSUME NEW t \in Tasks, HandlerStep(t) \/ RecoveryStep(t)
      PROVE  EmptyWhenClosed'
  <2>1. CASE TaskSession(t)
    <3>1. UNCHANGED <<open, slot>> \/ open'
      BY <2>1 DEF TaskSession
    <3> QED
      BY <1>2, <1>3, <3>1
  <2>2. CASE TaskInstall(t)
    <3>1. UNCHANGED <<open, slot>> \/ open'
      BY <2>2 DEF TaskInstall
    <3> QED
      BY <1>2, <1>3, <3>1
  <2>3. CASE ~TaskSession(t) /\ ~TaskInstall(t)
    <3>1. UNCHANGED <<open, slot>>
      BY <1>6, <2>3 DEF HandlerStep, RecoveryStep, TaskCheck, TaskStatus, TaskTerminal,
         TaskSurvey, TaskBackoff, TaskContext, TaskRestartOpens, TaskPanics,
         TaskRestartFails, TaskPanicCheck, TaskOpened, TaskDropped, TaskResumed
    <3> QED
      BY <1>3, <3>1
  <2> QED
    BY <2>1, <2>2, <2>3
<1>7. ASSUME NEW p \in Pipes, PipeStep(p)
      PROVE  EmptyWhenClosed'
  BY <1>3, <1>7 DEF PipeStep, SignalStep, SignalCheck, SignalMark, SignalHealth, AbandonJoined,
     Raise
<1>8. ASSUME \/ ShutdownBegin \/ ShutdownStep
             \/ \E s \in Sources : HealthAges(s)
             \/ \E found \in BOOLEAN : ListMicrophones(found)
             \/ UNCHANGED vars
      PROVE  EmptyWhenClosed'
  BY <1>1, <1>3, <1>8 DEF ShutdownBegin, ShutdownStep, ShutdownTake, ShutdownJoined,
     HealthAges, ListMicrophones, vars
<1> QED
  BY <1>4, <1>5, <1>6, <1>7, <1>8 DEF Next, InternalStep

(* A join waits for the callbacks, and what was never open has none.       *)
LEMMA CallbackKept ==
  ASSUME CallbackRuns, UNCHANGED signal,
         \A p \in Pipes :
           pipe'[p] = pipe[p] \/ Unowned(p) \/ ~Unowned(p)' \/ signal[p] \notin {"checked", "marked"}
  PROVE  CallbackRuns'
BY DEF CallbackRuns, Unowned

LEMMA CallbackStep ==
  ASSUME TypeOK, Ownership, CallbackRuns, [Next]_vars
  PROVE  CallbackRuns'
<1> USE DEF pipeVars
<1>1. ASSUME NEW P, SetPipes(P, "released"), UNCHANGED signal,
             \A p \in Pipes : p \in P => Unowned(p) \/ signal[p] \notin {"checked", "marked"}
      PROVE  CallbackRuns'
  BY <1>1, CallbackKept DEF SetPipes
<1>2. ASSUME NEW P, NEW life \in {"live", "dropped", "abandoned"}, SetPipes(P, life),
             UNCHANGED signal
      PROVE  CallbackRuns'
  BY <1>2, CallbackKept DEF SetPipes, Unowned
<1>3. CASE UNCHANGED <<pipe, signal>>
  BY <1>3, CallbackKept
<1>4. ASSUME NEW c \in StartCalls, StartStep(c)
      PROVE  CallbackRuns'
  <2>1. CASE StartMicOpens(c)
    <3>1. Unowned(StartPipe(c, "microphone"))
      BY <2>1, SourcesKnown DEF StartMicOpens, Ownership, StartOwns, OwnsUntilInstalled, Expected
    <3> QED
      BY <1>1, <1>2, <2>1, <3>1 DEF StartMicOpens
  <2>2. CASE StartSysOpens(c)
    <3>1. Unowned(StartPipe(c, "system"))
      BY <2>2, SourcesKnown DEF StartSysOpens, Ownership, StartOwns, OwnsUntilInstalled, Expected
    <3>2. CASE SetPipes({StartPipe(c, "system")}, "live")
      BY <1>2, <2>2, <3>2 DEF StartSysOpens
    <3>3. CASE Quiet(OpenedBy(c)) /\ SetPipes(OpenedBy(c) \cup {StartPipe(c, "system")}, "released")
      BY <1>1, <2>2, <3>1, <3>3 DEF StartSysOpens, Quiet
    <3> QED
      BY <2>2, <3>2, <3>3 DEF StartSysOpens
  <2>3. CASE StartSysFails(c) \/ StartCheck(c)
    BY <1>1, <1>3, <2>3 DEF StartSysFails, StartCheck, Quiet
  <2>4. CASE StartInstall(c) \/ StartDropped(c)
    BY <1>1, <1>2, <2>4 DEF StartInstall, StartDropped, Quiet
  <2> QED
    BY <1>3, <1>4, <2>1, <2>2, <2>3, <2>4 DEF StartStep, StartModelReturns, StartModelFails,
       StartModelReady, StartMicReturns, StartMicFails, StartSysReturns, StartThread,
       StartMicDone, StartCommit, StartFailCheck, StartFailApply
<1>5. ASSUME NEW d \in StopCalls, StopBegin(d) \/ StopStep(d) \/ StopDogStep(d)
      PROVE  CallbackRuns'
  BY <1>1, <1>3, <1>5 DEF StopBegin, StopStep, StopThread, StopLook, StopTake, StopApply,
     StopJoined, StopCheck, StopCommit, StopDogStep, StopDogExpires, StopDogCommits, Quiet
<1>6. ASSUME NEW t \in Tasks, HandlerStep(t) \/ RecoveryStep(t)
      PROVE  CallbackRuns'
  <2>1. CASE TaskRestartOpens(t)
    <3>1. Unowned(TaskPipe(t))
      BY <2>1 DEF TaskRestartOpens, Ownership, TaskOwns, OpensOnce, LatePcs, AttemptPcs,
         TaskPipe, Unowned, TypeOK
    <3> QED
      BY <1>1, <1>2, <2>1, <3>1 DEF TaskRestartOpens
  <2>2. CASE TaskSession(t) \/ TaskOpened(t) \/ TaskInstall(t) \/ TaskDropped(t)
    BY <1>1, <1>2, <1>3, <2>2 DEF TaskSession, TaskOpened, TaskInstall, TaskDropped, Quiet
  <2> QED
    BY <1>3, <1>6, <2>1, <2>2 DEF HandlerStep, RecoveryStep, TaskCheck, TaskStatus,
       TaskTerminal, TaskSurvey, TaskBackoff, TaskContext, TaskPanics, TaskRestartFails,
       TaskPanicCheck, TaskResumed
<1>7. ASSUME NEW p \in Pipes, PipeStep(p)
      PROVE  CallbackRuns'
  <2>1. CASE SignalStep(p)
    <3>1. /\ ~Unowned(p) \/ signal[p] \in {"checked", "marked"}
          /\ UNCHANGED pipe
          /\ \A q \in Pipes : q # p => signal'[q] = signal[q]
      BY <2>1 DEF SignalStep, SignalCheck, SignalMark, SignalHealth, Unowned, TypeOK
    <3> QED
      BY <3>1 DEF CallbackRuns, Unowned
  <2>2. CASE AbandonJoined(p)
    BY <1>1, <2>2 DEF AbandonJoined, Quiet
  <2> QED
    BY <1>3, <1>7, <2>1, <2>2 DEF PipeStep, Raise
<1>8. ASSUME \/ ShutdownBegin \/ ShutdownStep
             \/ \E s \in Sources : HealthAges(s)
             \/ \E found \in BOOLEAN : ListMicrophones(found)
             \/ UNCHANGED vars
      PROVE  CallbackRuns'
  BY <1>1, <1>2, <1>3, <1>8 DEF ShutdownBegin, ShutdownStep, ShutdownTake, ShutdownJoined,
     HealthAges, ListMicrophones, vars, Quiet
<1>9. ASSUME NEW c \in StartCalls,
             \/ \E req \in Requests : StartRejected(c, req) \/ StartBegin(c, req)
             \/ StartDogStep(c)
      PROVE  CallbackRuns'
  BY <1>3, <1>9 DEF StartRejected, StartBegin, StartDogStep, StartDogExpires,
     StartDogExchanges, StartDogCommits
<1> QED
  BY <1>4, <1>5, <1>6, <1>7, <1>8, <1>9 DEF Next, InternalStep

(* No callback is under way on a pipeline whose threads have been joined.  *)
THEOREM CallbacksEndBeforeJoins == Spec => []CallbackRuns
<1>1. Init => CallbackRuns
  BY DEF Init, CallbackRuns
<1> QED
  BY <1>1, CallbackStep, TypeCorrect, OwnershipInvariant, PTL DEF Spec

LEMMA SessionBooks == Spec => [](Numbered /\ EmptyWhenClosed)
<1>1. Init => Numbered /\ EmptyWhenClosed
  BY DEF Init, Numbered, EmptyWhenClosed, Begun
<1> QED
  BY <1>1, NumberedStep, ClosedStep, TypeCorrect, ChargesInvariant, PTL DEF Spec

-----------------------------------------------------------------------------
(* Without the delays that wake a watchdog, and without a shutdown         *)
TimelyEvents == Events \cap {"slow start", "slow stop", "shutdown"} = {}

Timely ==
  /\ \A c \in StartCalls : startDog[c] \in {"off", "armed"}
  /\ \A d \in StopCalls : stopDog[d] \in {"off", "armed"}
  /\ shutPc = "new"

NothingLate ==
  /\ \A c \in StartCalls : ~StartDogStep(c)
  /\ \A d \in StopCalls : ~StopDogStep(d)
  /\ ~ShutdownBegin /\ ~ShutdownStep

LEMMA OnTime ==
  ASSUME TimelyEvents, Timely
  PROVE  NothingLate
BY DEF Timely, TimelyEvents, StartDogStep, StartDogExpires, StartDogExchanges,
   StartDogCommits, StopDogStep, StopDogExpires, StopDogCommits, ShutdownBegin,
   ShutdownStep, ShutdownTake, ShutdownJoined, NothingLate

LEMMA TimelyRun ==
  ASSUME TimelyEvents
  PROVE  Spec => []Timely
<1> USE DEF startVars, stopVars
<1>1. Init => Timely
  BY DEF Init, Timely
<1>2. ASSUME TypeOK, Timely, [Next]_vars
      PROVE  Timely'
  <2>1. ASSUME NEW c \in StartCalls, StartStep(c)
        PROVE  Timely'
    <3>1. /\ UNCHANGED <<stopDog, shutPc>>
          /\ \/ UNCHANGED startDog
             \/ startDog' = [startDog EXCEPT ![c] = "armed"]
      BY <2>1 DEF StartStep, StartModelReturns, StartModelFails, StartModelReady,
         StartMicReturns, StartMicFails, StartMicOpens, StartSysReturns, StartSysFails,
         StartSysOpens, StartThread, StartMicDone, StartCheck, StartInstall, StartDropped,
         StartCommit, StartFailCheck, StartFailApply
    <3> QED
      BY <1>2, <3>1 DEF Timely, TypeOK
  <2>2. ASSUME NEW d \in StopCalls, StopStep(d)
        PROVE  Timely'
    <3>1. /\ UNCHANGED <<startDog, shutPc>>
          /\ UNCHANGED stopDog \/ stopDog' = [stopDog EXCEPT ![d] = "armed"]
      BY <2>2 DEF StopStep, StopThread, StopLook, StopTake, StopApply, StopJoined, StopCheck,
         StopCommit
    <3> QED
      BY <1>2, <3>1 DEF Timely, TypeOK
  <2>3. ASSUME UNCHANGED <<startDog, stopDog, shutPc>>
        PROVE  Timely'
    BY <1>2, <2>3 DEF Timely
  <2>4. ASSUME \/ \E c \in StartCalls, req \in Requests :
                    StartRejected(c, req) \/ StartBegin(c, req)
               \/ \E d \in StopCalls : StopBegin(d)
               \/ \E s \in Sources : HealthAges(s)
               \/ \E found \in BOOLEAN : ListMicrophones(found)
               \/ UNCHANGED vars
        PROVE  Timely'
    BY <2>3, <2>4 DEF StartRejected, StartBegin, StopBegin, HealthAges, ListMicrophones, vars
  <2>5. ASSUME NEW t \in Tasks, HandlerStep(t) \/ RecoveryStep(t)
        PROVE  Timely'
    BY <2>3, <2>5 DEF HandlerStep, RecoveryStep, TaskCheck, TaskSession, TaskStatus,
       TaskTerminal, TaskSurvey, TaskBackoff, TaskContext, TaskRestartOpens, TaskPanics,
       TaskRestartFails, TaskPanicCheck, TaskOpened, TaskInstall, TaskDropped, TaskResumed
  <2>6. ASSUME NEW p \in Pipes, PipeStep(p)
        PROVE  Timely'
    BY <2>3, <2>6 DEF PipeStep, SignalStep, SignalCheck, SignalMark, SignalHealth,
       AbandonJoined, Raise
  <2>7. NothingLate
    BY <1>2, OnTime
  <2> QED
    BY <1>2, <2>1, <2>2, <2>4, <2>5, <2>6, <2>7 DEF Next, InternalStep, NothingLate
<1> QED
  BY <1>1, <1>2, TypeCorrect, PTL DEF Spec

(* Between two stops the user started again: Stop is not clicked twice.    *)
StopOnce ==
  \A d, e \in StopCalls :
    Begun(d) /\ Begun(e) /\ stopGen[d] < stopGen[e] =>
      \E c \in StartCalls : stopGen[d] < startGen[c] /\ startGen[c] < stopGen[e]

(* Stops that have begun keep their generations, and a start that began    *)
(* between two of them did so in the past.                                 *)
LEMMA StoppedOnceBefore ==
  ASSUME TypeOK, Numbered, [Next]_vars, StopOnce'
  PROVE  StopOnce
<1> USE DEF startVars, stopVars
<1> DEFINE Kept ==
      /\ \A d \in StopCalls : Begun(d) => Begun(d)' /\ stopGen'[d] = stopGen[d]
      /\ \A c \in StartCalls : startGen'[c] # startGen[c] => startGen'[c] = generation + 1
<1>1. Kept
  <2>1. CASE \E c \in StartCalls, req \in Requests : StartBegin(c, req)
    BY <2>1 DEF StartBegin, Begun, TypeOK
  <2>2. ASSUME NEW d \in StopCalls, StopBegin(d) \/ StopStep(d) \/ StopDogStep(d)
        PROVE  Kept
    <3>1. CASE StopBegin(d)
      BY <3>1 DEF StopBegin, GoStop, Begun, TypeOK
    <3>2. CASE StopStep(d) \/ StopDogStep(d)
      <4>1. UNCHANGED <<startGen, stopGen>>
        BY <3>2 DEF StopStep, StopThread, StopLook, StopTake, StopApply, StopJoined,
           StopCheck, StopCommit, StopDogStep, StopDogExpires, StopDogCommits
      <4>2. UNCHANGED stopPc \/ \E pc \in StopPcs \ {"new"} : GoStop(d, pc)
        BY <3>2 DEF StopStep, StopThread, StopLook, StopTake, StopApply, StopJoined,
           StopCheck, StopCommit, StopDogStep, StopDogExpires, StopDogCommits, StopPcs
      <4>3. \A e \in StopCalls : Begun(e) => Begun(e)'
        BY <4>2 DEF GoStop, Begun, TypeOK
      <4> QED
        BY <4>1, <4>3
    <3> QED
      BY <2>2, <3>1, <3>2
  <2>3. UNCHANGED <<startGen, stopPc, stopGen>> => Kept
    BY DEF Begun
  <2>4. ASSUME NEW c \in StartCalls,
               (\E req \in Requests : StartRejected(c, req)) \/ StartStep(c) \/ StartDogStep(c)
        PROVE  UNCHANGED <<startGen, stopPc, stopGen>>
    BY <2>4 DEF StartRejected, StartStep, StartModelReturns, StartModelFails, StartModelReady,
       StartMicReturns, StartMicFails, StartMicOpens, StartSysReturns, StartSysFails,
       StartSysOpens, StartThread, StartMicDone, StartCheck, StartInstall, StartDropped,
       StartCommit, StartFailCheck, StartFailApply, StartDogStep, StartDogExpires,
       StartDogExchanges, StartDogCommits
  <2>5. ASSUME NEW t \in Tasks, HandlerStep(t) \/ RecoveryStep(t)
        PROVE  UNCHANGED <<startGen, stopPc, stopGen>>
    BY <2>5 DEF HandlerStep, RecoveryStep, TaskCheck, TaskSession, TaskStatus,
       TaskTerminal, TaskSurvey, TaskBackoff, TaskContext, TaskRestartOpens, TaskPanics,
       TaskRestartFails, TaskPanicCheck, TaskOpened, TaskInstall, TaskDropped, TaskResumed
  <2>6. ASSUME NEW p \in Pipes, PipeStep(p)
        PROVE  UNCHANGED <<startGen, stopPc, stopGen>>
    BY <2>6 DEF PipeStep, SignalStep, SignalCheck, SignalMark, SignalHealth, AbandonJoined,
       Raise
  <2>7. ASSUME \/ ShutdownBegin \/ ShutdownStep
               \/ \E s \in Sources : HealthAges(s)
               \/ \E found \in BOOLEAN : ListMicrophones(found)
               \/ UNCHANGED vars
        PROVE  UNCHANGED <<startGen, stopPc, stopGen>>
    BY <2>7 DEF ShutdownBegin, ShutdownStep, ShutdownTake, ShutdownJoined, HealthAges,
       ListMicrophones, vars
  <2> HIDE DEF Kept
  <2> QED
    BY <2>1, <2>2, <2>3, <2>4, <2>5, <2>6, <2>7 DEF Next, InternalStep
<1>2. ASSUME NEW d \in StopCalls, NEW e \in StopCalls, Begun(d), Begun(e), stopGen[d] < stopGen[e]
      PROVE  \E c \in StartCalls : stopGen[d] < startGen[c] /\ startGen[c] < stopGen[e]
  <2>1. PICK c \in StartCalls : stopGen[d] < startGen'[c] /\ startGen'[c] < stopGen[e]
    BY <1>1, <1>2 DEF StopOnce
  <2>2. startGen'[c] = startGen[c]
    BY <1>1, <2>1 DEF TypeOK, Numbered
  <2> QED
    BY <2>1, <2>2
<1> QED
  BY <1>2 DEF StopOnce

-----------------------------------------------------------------------------
(* The first session, whatever breaks in it: the stop is accepted while    *)
(* the session is open and takes it, and only then may "idle" come back.   *)
Answered == \E c \in StartCalls : startPc[c] = "listening"

OnlyStop ==
  /\ \A c \in StartCalls : ~Accepted(c) => startGen[c] = 0
  /\ \A d \in StopCalls : Begun(d) =>
       /\ Answered
       /\ \A c \in StartCalls : Accepted(c) => startGen[c] < stopGen[d]
       /\ \A e \in StopCalls : Begun(e) => e = d
       /\ stopPc[d] # "rejected"
       /\ open <=> stopPc[d] \in {"look", "take"}
OnlyStart ==
  /\ (\E c \in StartCalls : startPc[c] \in Installed) /\ (\A d \in StopCalls : ~Begun(d)) => open
  /\ open \/ (\E c \in StartCalls : InFlight(c)) => capture # "idle"
  /\ capture = "listening" =>
       Answered /\ \A d \in StopCalls : stopPc[d] \in {"new", "look", "take", "apply"}
  /\ shown = "listening" => Answered

LEMMA FirstBefore ==
  ASSUME TypeOK, [Next]_vars, FirstSession'
  PROVE  FirstSession
<1> USE DEF startVars
<1>1. \A c \in StartCalls : Accepted(c) => Accepted(c)'
  <2>1. ASSUME NEW c \in StartCalls, NEW req \in Requests,
               StartBegin(c, req) \/ StartRejected(c, req)
        PROVE  \A e \in StartCalls : Accepted(e) => Accepted(e)'
    BY <2>1 DEF StartBegin, StartRejected, GoStart, Accepted, TypeOK
  <2>2. ASSUME NEW c \in StartCalls, StartStep(c)
        PROVE  \A e \in StartCalls : Accepted(e) => Accepted(e)'
    <3>1. \E pc \in StartPcs \ {"new", "rejected"} : GoStart(c, pc)
      BY <2>2 DEF StartStep, StartModelReturns, StartModelFails, StartModelReady,
         StartMicReturns, StartMicFails, StartMicOpens, StartSysReturns, StartSysFails,
         StartSysOpens, StartThread, StartMicDone, StartCheck, StartInstall, StartDropped,
         StartCommit, StartFailCheck, StartFailApply, StartPcs
    <3> QED
      BY <3>1 DEF GoStart, Accepted, TypeOK
  <2>3. UNCHANGED startPc => \A e \in StartCalls : Accepted(e) => Accepted(e)'
    BY DEF Accepted
  <2>4. ASSUME \/ \E c \in StartCalls : StartDogStep(c)
               \/ \E d \in StopCalls : StopBegin(d) \/ StopStep(d) \/ StopDogStep(d)
               \/ ShutdownBegin \/ ShutdownStep
               \/ \E s \in Sources : HealthAges(s)
               \/ \E found \in BOOLEAN : ListMicrophones(found)
               \/ UNCHANGED vars
        PROVE  UNCHANGED startPc
    BY <2>4 DEF StartDogStep, StartDogExpires, StartDogExchanges, StartDogCommits, StopBegin,
       StopStep, StopThread, StopLook, StopTake, StopApply, StopJoined, StopCheck, StopCommit,
       StopDogStep, StopDogExpires, StopDogCommits, ShutdownBegin, ShutdownStep, ShutdownTake,
       ShutdownJoined, HealthAges, ListMicrophones, vars
  <2>5. ASSUME NEW t \in Tasks, HandlerStep(t) \/ RecoveryStep(t)
        PROVE  UNCHANGED startPc
    BY <2>5 DEF HandlerStep, RecoveryStep, TaskCheck, TaskSession, TaskStatus,
       TaskTerminal, TaskSurvey, TaskBackoff, TaskContext, TaskRestartOpens, TaskPanics,
       TaskRestartFails, TaskPanicCheck, TaskOpened, TaskInstall, TaskDropped, TaskResumed
  <2>6. ASSUME NEW p \in Pipes, PipeStep(p)
        PROVE  UNCHANGED startPc
    BY <2>6 DEF PipeStep, SignalStep, SignalCheck, SignalMark, SignalHealth, AbandonJoined, Raise
  <2> QED
    BY <2>1, <2>2, <2>3, <2>4, <2>5, <2>6 DEF Next, InternalStep
<1> QED
  BY <1>1 DEF FirstSession, Accepted

LEMMA OnlyKept ==
  ASSUME OnlyStop, OnlyStart,
         UNCHANGED <<open, startPc, startGen, stopPc, stopGen>>,
         capture' \in {capture, "error"},
         shown' \in {shown, capture}
  PROVE  OnlyStop' /\ OnlyStart'
<1>1. OnlyStop'
  BY DEF OnlyStop, Accepted, Begun, Answered
<1>2. OnlyStart'
  BY DEF OnlyStart, Installed, InFlight, Begun, Answered
<1> QED
  BY <1>1, <1>2

LEMMA OnlyStarts ==
  ASSUME TypeOK, FirstSession', OnlyStop, OnlyStart, NEW c \in StartCalls, NEW req \in Requests,
         ClickStart(c, req)
  PROVE  OnlyStop' /\ OnlyStart'
<1> USE DEF sessionVars, stopVars, stateVars
<1>1. CASE StartRejected(c, req)
  <2>1. /\ startPc[c] = "new" /\ startPc'[c] = "rejected"
        /\ \A e \in StartCalls : e # c => startPc'[e] = startPc[e]
        /\ UNCHANGED <<capture, open, shown, startGen, stopPc, stopGen>>
    BY <1>1 DEF ClickStart, StartRejected, GoStart, TypeOK
  <2>2. /\ \A e \in StartCalls : Accepted(e)' <=> Accepted(e)
        /\ \A e \in StartCalls : InFlight(e)' <=> InFlight(e)
        /\ \A e \in StartCalls : startPc'[e] \in Installed <=> startPc[e] \in Installed
        /\ Answered' <=> Answered
    BY <2>1 DEF Accepted, InFlight, Installed, Answered
  <2>3. OnlyStop'
    BY <2>1, <2>2 DEF OnlyStop, Begun
  <2>4. OnlyStart'
    BY <2>1, <2>2 DEF OnlyStart, Begun
  <2> QED
    BY <2>3, <2>4
<1>2. CASE StartBegin(c, req)
  <2>1. /\ startPc[c] = "new" /\ startPc'[c] = "model"
        /\ \A e \in StartCalls : e # c => startPc'[e] = startPc[e] /\ startGen'[e] = startGen[e]
        /\ capture' = "starting" /\ shown' = "idle"
        /\ UNCHANGED <<open, stopPc, stopGen>>
    BY <1>2 DEF ClickStart, StartBegin, GoStart, TypeOK
  <2>2. \A e \in StartCalls : ~Accepted(e)
    BY <2>1 DEF FirstSession, Accepted
  <2>3. \A d \in StopCalls : ~Begun(d)
    BY <2>2 DEF OnlyStop, Answered, Accepted
  <2>4. \A e \in StartCalls : startPc'[e] \notin Installed
    BY <2>1, <2>2 DEF Accepted, Installed
  <2>5. OnlyStop'
    BY <2>1, <2>2, <2>3 DEF OnlyStop, Accepted, Begun
  <2>6. OnlyStart'
    BY <2>1, <2>4 DEF OnlyStart
  <2> QED
    BY <2>5, <2>6
<1> QED
  BY <1>1, <1>2 DEF ClickStart

LEMMA OnlyGoesOn ==
  ASSUME TypeOK, FirstSession, OnlyStop, OnlyStart, NEW c \in StartCalls, StartStep(c),
         UNCHANGED shown
  PROVE  OnlyStop' /\ OnlyStart'
<1> USE DEF sessionVars, stopVars, stateVars
<1>1. /\ InFlight(c)
      /\ UNCHANGED <<startGen, stopPc, stopGen>>
      /\ \E pc \in StartPcs \ {"new", "rejected"} : GoStart(c, pc)
  BY DEF StartStep, StartModelReturns, StartModelFails, StartModelReady,
     StartMicReturns, StartMicFails, StartMicOpens, StartSysReturns, StartSysFails,
     StartSysOpens, StartThread, StartMicDone, StartCheck, StartInstall, StartDropped,
     StartCommit, StartFailCheck, StartFailApply, InFlight, StartPcs
<1>2. /\ \A e \in StartCalls : Accepted(e) <=> e = c
      /\ \A e \in StartCalls : e # c => startPc'[e] = startPc[e]
      /\ Accepted(c)'
  BY <1>1 DEF FirstSession, Accepted, InFlight, GoStart, TypeOK
<1>3. ~Answered /\ \A d \in StopCalls : ~Begun(d)
  BY <1>1, <1>2 DEF Answered, Accepted, InFlight, OnlyStop
<1>4. capture \notin {"idle", "listening"} /\ shown # "listening"
  BY <1>1, <1>3 DEF OnlyStart
<1>5. /\ capture' # "idle"
      /\ capture' = "listening" => startPc'[c] = "listening"
  BY <1>4 DEF StartStep, StartModelReturns, StartModelFails, StartModelReady,
     StartMicReturns, StartMicFails, StartMicOpens, StartSysReturns, StartSysFails,
     StartSysOpens, StartThread, StartMicDone, StartCheck, StartInstall, StartDropped,
     StartCommit, StartFailCheck, StartFailApply, GoStart, TypeOK
<1>6. startPc'[c] \in Installed => open'
  <2>1. CASE StartInstall(c)
    BY <2>1 DEF StartInstall
  <2>2. CASE ~StartInstall(c)
    <3>1. /\ UNCHANGED open
          /\ startPc[c] \in Installed \/ \E pc \in StartPcs \ Installed : GoStart(c, pc)
      BY <2>2 DEF StartStep, StartModelReturns, StartModelFails, StartModelReady,
         StartMicReturns, StartMicFails, StartMicOpens, StartSysReturns, StartSysFails,
         StartSysOpens, StartThread, StartMicDone, StartCheck, StartDropped,
         StartCommit, StartFailCheck, StartFailApply, StartPcs, Installed
    <3>2. startPc'[c] \in Installed => startPc[c] \in Installed
      BY <3>1 DEF GoStart, TypeOK
    <3> QED
      BY <1>3, <3>1, <3>2 DEF OnlyStart
  <2> QED
    BY <2>1, <2>2
<1>7. OnlyStop'
  BY <1>1, <1>2, <1>3 DEF OnlyStop, Begun, Accepted
<1>8. OnlyStart'
  <2>1. \A d \in StopCalls : ~Begun(d)' /\ stopPc'[d] = "new"
    BY <1>1, <1>3 DEF Begun
  <2>2. \A e \in StartCalls : startPc'[e] \in Installed => e = c
    BY <1>2 DEF Installed, Accepted
  <2> QED
    BY <1>4, <1>5, <1>6, <2>1, <2>2 DEF OnlyStart, Answered
<1> QED
  BY <1>7, <1>8

LEMMA OnlyStops ==
  ASSUME TypeOK, Paid, Numbered, OnlyStop, OnlyStart, StopOnce', NEW d \in StopCalls, ClickStop(d)
  PROVE  OnlyStop' /\ OnlyStart'
<1> USE DEF stateVars, sessionVars, startVars
<1>1. /\ shown = "listening" /\ stopPc[d] = "new" /\ stopPc'[d] = "look"
      /\ stopGen'[d] = generation + 1
      /\ UNCHANGED <<shown, capture, open, startPc, startGen>>
      /\ \A e \in StopCalls : e # d => stopPc'[e] = stopPc[e] /\ stopGen'[e] = stopGen[e]
  BY DEF ClickStop, StopBegin, GoStop, TypeOK
<1>2. /\ generation \in Nat
      /\ \A c \in StartCalls : startGen[c] \in Nat /\ startGen[c] <= generation
      /\ \A e \in StopCalls : stopGen[e] \in Nat /\ stopGen[e] <= generation
  BY DEF TypeOK, Paid, Dated, Numbered
<1>3. \A e \in StopCalls : ~Begun(e)
  <2> SUFFICES ASSUME NEW e \in StopCalls, Begun(e)
               PROVE  FALSE
    OBVIOUS
  <2>1. e # d
    BY <1>1 DEF Begun
  <2>2. Begun(e)' /\ Begun(d)' /\ stopGen'[e] < stopGen'[d] /\ stopGen'[e] = stopGen[e]
    BY <1>1, <1>2, <2>1 DEF Begun
  <2>3. PICK c \in StartCalls : stopGen[e] < startGen[c]
    BY <1>1, <2>2 DEF StopOnce
  <2>4. Accepted(c)
    BY <1>2, <2>3 DEF OnlyStop
  <2> QED
    BY <1>2, <2>3, <2>4 DEF OnlyStop
<1>4. Answered
  BY <1>1 DEF OnlyStart
<1>5. open
  BY <1>3, <1>4 DEF OnlyStart, Answered, Installed
<1>6. \A e \in StopCalls : Begun(e)' <=> e = d
  BY <1>1, <1>3 DEF Begun
<1>7. OnlyStop'
  <2>1. \A c \in StartCalls : startGen'[c] < stopGen'[d]
    BY <1>1, <1>2
  <2>2. Answered'
    BY <1>1, <1>4 DEF Answered
  <2> QED
    BY <1>1, <1>5, <1>6, <2>1, <2>2 DEF OnlyStop, Accepted
<1>8. OnlyStart'
  <2>1. \A e \in StopCalls : stopPc'[e] \in {"new", "look"}
    BY <1>1, <1>3 DEF Begun
  <2>2. (\E c \in StartCalls : InFlight(c)') => \E c \in StartCalls : InFlight(c)
    BY <1>1 DEF InFlight
  <2>3. Answered'
    BY <1>1, <1>4 DEF Answered
  <2> QED
    BY <1>1, <1>6, <2>1, <2>2, <2>3 DEF OnlyStart
<1> QED
  BY <1>7, <1>8

LEMMA OnlyWindsUp ==
  ASSUME TypeOK, FirstSession, OnlyStop, OnlyStart, NEW d \in StopCalls, StopStep(d),
         UNCHANGED shown
  PROVE  OnlyStop' /\ OnlyStart'
<1> USE DEF sessionVars, startVars, stateVars
<1>1. /\ Begun(d)
      /\ UNCHANGED <<startPc, startGen, stopGen>>
      /\ \E pc \in StopPcs \ {"new"} : GoStop(d, pc)
  BY DEF StopStep, StopThread, StopLook, StopTake, StopApply, StopJoined, StopCheck,
     StopCommit, StopPcs, Begun
<1>2. /\ Answered /\ stopPc[d] # "rejected" /\ (open <=> stopPc[d] \in {"look", "take"})
      /\ \A e \in StopCalls : Begun(e) => e = d
      /\ \A c \in StartCalls : Accepted(c) => startGen[c] < stopGen[d]
  BY <1>1 DEF OnlyStop
<1>3. /\ \A e \in StopCalls : Begun(e)' <=> e = d
      /\ \A e \in StopCalls : e # d => stopPc'[e] = "new"
  BY <1>1, <1>2 DEF Begun, GoStop, TypeOK
<1>4. /\ \A c \in StartCalls : ~InFlight(c)'
      /\ Answered'
      /\ \A c \in StartCalls : Accepted(c)' <=> Accepted(c)
  BY <1>1, <1>2 DEF FirstSession, Answered, InFlight, Accepted
<1>5. ASSUME stopPc'[d] # "rejected", open' <=> stopPc'[d] \in {"look", "take"},
             open' => capture' # "idle",
             capture' = "listening" => stopPc'[d] \in {"new", "look", "take", "apply"}
      PROVE  OnlyStop' /\ OnlyStart'
  <2>1. OnlyStop'
    BY <1>1, <1>2, <1>3, <1>4, <1>5 DEF OnlyStop
  <2>2. OnlyStart'
    BY <1>1, <1>3, <1>4, <1>5 DEF OnlyStart
  <2> QED
    BY <2>1, <2>2
<1>6. CASE StopLook(d)
  <2>1. stopPc[d] = "look" /\ open /\ capture # "idle"
    BY <1>2, <1>6 DEF StopLook, OnlyStart
  <2>2. stopPc'[d] = "take" /\ UNCHANGED <<capture, open>>
    BY <1>6, <2>1 DEF StopLook, GoStop, TypeOK
  <2> QED
    BY <1>5, <2>1, <2>2
<1>7. CASE StopTake(d)
  <2>1. stopPc'[d] = "apply" /\ ~open'
    BY <1>7 DEF StopTake, GoStop, EmptySession, TypeOK
  <2> QED
    BY <1>5, <2>1
<1>8. CASE StopApply(d)
  <2>1. stopPc[d] = "apply" /\ stopPc'[d] \in {"check", "joining"}
        /\ capture' = "stopping" /\ UNCHANGED open
    BY <1>8 DEF StopApply, GoStop, TypeOK
  <2> QED
    BY <1>2, <1>5, <2>1
<1>9. CASE StopJoined(d) \/ StopCheck(d)
  <2>1. stopPc[d] \in {"joining", "check"} /\ stopPc'[d] \in {"check", "commit", "superseded"}
        /\ UNCHANGED <<capture, open>>
    BY <1>9 DEF StopJoined, StopCheck, GoStop, TypeOK
  <2>2. capture # "listening"
    BY <2>1 DEF OnlyStart
  <2> QED
    BY <1>2, <1>5, <2>1, <2>2
<1>10. CASE StopCommit(d)
  <2>1. stopPc[d] = "commit" /\ stopPc'[d] = "stopped"
        /\ capture' = "idle" /\ UNCHANGED open
    BY <1>10 DEF StopCommit, GoStop, TypeOK
  <2> QED
    BY <1>2, <1>5, <2>1
<1> QED
  BY <1>6, <1>7, <1>8, <1>9, <1>10 DEF StopStep, StopThread

LEMMA OnlyMoves ==
  ASSUME OnlyStop, OnlyStart, UNCHANGED shown,
         \/ \E t \in Tasks : HandlerStep(t) \/ RecoveryStep(t)
         \/ \E p \in Pipes : PipeStep(p)
         \/ \E s \in Sources : HealthAges(s)
         \/ \E found \in BOOLEAN : ListMicrophones(found)
         \/ UNCHANGED vars
  PROVE  OnlyStop' /\ OnlyStart'
<1> USE DEF sessionVars, startVars, stopVars, stateVars
<1>1. CASE \E t \in Tasks : HandlerStep(t) \/ RecoveryStep(t)
  <2>1. UNCHANGED <<open, startPc, startGen, stopPc, stopGen>> /\ capture' \in {capture, "error"}
    BY <1>1 DEF HandlerStep, RecoveryStep, TaskCheck, TaskSession, TaskStatus,
       TaskTerminal, TaskSurvey, TaskBackoff, TaskContext, TaskRestartOpens, TaskPanics,
       TaskRestartFails, TaskPanicCheck, TaskOpened, TaskInstall, TaskDropped, TaskResumed
  <2> QED
    BY <2>1, OnlyKept
<1>2. ASSUME NEW p \in Pipes, PipeStep(p)
      PROVE  OnlyStop' /\ OnlyStart'
  <2>1. UNCHANGED <<open, startPc, startGen, stopPc, stopGen, capture>>
    BY <1>2 DEF PipeStep, SignalStep, SignalCheck, SignalMark, SignalHealth, AbandonJoined, Raise
  <2> QED
    BY <2>1, OnlyKept
<1>3. CASE \/ \E s \in Sources : HealthAges(s)
           \/ \E found \in BOOLEAN : ListMicrophones(found)
           \/ UNCHANGED vars
  <2>1. UNCHANGED <<open, startPc, startGen, stopPc, stopGen, capture>>
    BY <1>3 DEF HealthAges, ListMicrophones, vars
  <2> QED
    BY <2>1, OnlyKept
<1> QED
  BY <1>1, <1>2, <1>3

LEMMA OneSessionOnly ==
  ASSUME TimelyEvents
  PROVE  AppSpec => [](FirstSession /\ StopOnce => OnlyStop /\ OnlyStart)
<1>1. AppInit => OnlyStop /\ OnlyStart
  <2> SUFFICES ASSUME AppInit
               PROVE  OnlyStop /\ OnlyStart
    OBVIOUS
  <2> USE DEF AppInit, Init
  <2>1. OnlyStop
    BY DEF OnlyStop, Begun
  <2>2. OnlyStart
    BY DEF OnlyStart, Installed, InFlight
  <2> QED
    BY <2>1, <2>2
<1>2. ASSUME TypeOK, Paid, Numbered, Timely, [AppNext]_appVars,
             FirstSession /\ StopOnce => OnlyStop /\ OnlyStart,
             FirstSession', StopOnce'
      PROVE  OnlyStop' /\ OnlyStart'
  <2>1. [Next]_vars
    BY <1>2 DEF AppNext, ClickStart, ClickStop, Render, Next, appVars
  <2>2. FirstSession /\ OnlyStop /\ OnlyStart
    BY <1>2, <2>1, FirstBefore, StoppedOnceBefore
  <2>3. CASE InternalStep /\ UNCHANGED shown
    <3>1. NothingLate
      BY <1>2, OnTime
    <3> QED
      BY <1>2, <2>2, <2>3, <3>1, OnlyGoesOn, OnlyWindsUp, OnlyMoves
      DEF InternalStep, NothingLate
  <2>4. CASE Render
    BY <2>2, <2>4, OnlyKept DEF Render, vars, sessionVars, startVars, stopVars, stateVars
  <2>5. CASE UNCHANGED appVars
    BY <2>2, <2>5, OnlyMoves DEF appVars
  <2> QED
    BY <1>2, <2>2, <2>3, <2>4, <2>5, OnlyStarts, OnlyStops DEF AppNext
<1>3. Spec => []Timely
  <2>1. TimelyEvents
    OBVIOUS
  <2> QED
    BY <2>1, TimelyRun
<1> QED
  BY <1>1, <1>2, <1>3, AppRunsManager, TypeCorrect, ChargesInvariant, SessionBooks, PTL
  DEF AppSpec

(* An application that has gone back to idle holds no device, whatever     *)
(* became of its sources and their recoveries meanwhile.                   *)
THEOREM IdleHoldsNothing ==
  ASSUME TimelyEvents
  PROVE  AppSpec => [](FirstSession /\ StopOnce => IdleIsReleased)
<1>1. OnlyStart /\ EmptyWhenClosed /\ OnlySessionRuns => IdleIsReleased
  <2> SUFFICES ASSUME OnlyStart, EmptyWhenClosed, OnlySessionRuns, AtRest, capture = "idle",
                      NEW p \in Pipes
               PROVE  Unowned(p)
    BY DEF IdleIsReleased
  <2>1. InSlots = {}
    BY DEF OnlyStart, EmptyWhenClosed, InSlots
  <2> QED
    BY <2>1 DEF OnlySessionRuns
<1> QED
  BY <1>1, OneSessionOnly, SessionBooks, NothingLeaks, AppRunsManager, PTL

(* While it says listening, there is a session for the next stop to take.  *)
THEOREM ListeningHasASession ==
  ASSUME TimelyEvents
  PROVE  AppSpec => [](FirstSession /\ StopOnce => ListeningIsAlive)
<1>1. OnlyStop /\ OnlyStart => ListeningIsAlive
  <2> SUFFICES ASSUME OnlyStop, OnlyStart, AtRest, capture = "listening"
               PROVE  open
    BY DEF ListeningIsAlive
  <2>1. \A d \in StopCalls : ~Begun(d)
    BY DEF OnlyStart, AtRest, Begun
  <2> QED
    BY <2>1 DEF OnlyStart, Answered, Installed
<1> QED
  BY <1>1, OneSessionOnly, PTL

-----------------------------------------------------------------------------
(* A session without faults, watchdogs or shutdown: the buttons let the    *)
(* user start again only after a stop, and stop only a running session.    *)
CalmEvents == TimelyEvents /\ Events \cap {"monitor fault", "worker fault"} = {}

Busy(d) == stopPc[d] \notin {"new", "stopped", "superseded", "rejected"}

Faultless ==
  /\ \A t \in Tasks : taskPc[t] = "free"
  /\ \A p \in Pipes : raised[p] = {} /\ pipe[p] # "abandoned"
Undisturbed == Timely /\ Faultless

NothingBreaks ==
  /\ \A t \in Tasks : ~HandlerStep(t) /\ ~RecoveryStep(t)
  /\ \A p \in Pipes : PipeStep(p) => SignalStep(p)

LEMMA NoFault ==
  ASSUME CalmEvents, Faultless
  PROVE  NothingBreaks
<1>1. \A t \in Tasks : ~HandlerStep(t) /\ ~RecoveryStep(t)
  BY DEF Faultless, HandlerStep, RecoveryStep, TaskCheck, TaskSession, TaskStatus,
     TaskTerminal, TaskSurvey, TaskBackoff, TaskContext, TaskRestartOpens, TaskPanics,
     TaskRestartFails, TaskPanicCheck, TaskOpened, TaskInstall, TaskDropped, TaskResumed
<1>2. \A p \in Pipes : PipeStep(p) => SignalStep(p)
  BY DEF Faultless, CalmEvents, PipeStep, AbandonJoined, Raise
<1> QED
  BY <1>1, <1>2 DEF NothingBreaks

LEMMA QuietRun ==
  ASSUME CalmEvents
  PROVE  Spec => []Undisturbed
<1> USE DEF sessionVars, stateVars, pipeVars, startVars, stopVars, taskVars
<1>1. Init => Faultless
  BY DEF Init, Faultless
<1>2. ASSUME TypeOK, Timely, Faultless, [Next]_vars
      PROVE  Faultless'
  <2>1. ASSUME NEW c \in StartCalls, StartStep(c)
        PROVE  Faultless'
    <3>1. /\ UNCHANGED <<taskPc, raised>>
          /\ \/ UNCHANGED pipe
             \/ \E P, life : life # "abandoned" /\ SetPipes(P, life)
      BY <2>1 DEF StartStep, StartModelReturns, StartModelFails, StartModelReady,
         StartMicReturns, StartMicFails, StartMicOpens, StartSysReturns, StartSysFails,
         StartSysOpens, StartThread, StartMicDone, StartCheck, StartInstall, StartDropped,
         StartCommit, StartFailCheck, StartFailApply
    <3> QED
      BY <1>2, <3>1 DEF Faultless, SetPipes
  <2>2. ASSUME NEW d \in StopCalls, StopStep(d)
        PROVE  Faultless'
    <3>1. /\ UNCHANGED <<taskPc, raised>>
          /\ UNCHANGED pipe \/ SetPipes(stopHeld[d], "released")
      BY <2>2 DEF StopStep, StopThread, StopLook, StopTake, StopApply, StopJoined, StopCheck,
         StopCommit
    <3> QED
      BY <1>2, <3>1 DEF Faultless, SetPipes
  <2>3. ASSUME \/ \E c \in StartCalls, req \in Requests :
                    StartRejected(c, req) \/ StartBegin(c, req)
               \/ \E d \in StopCalls : StopBegin(d)
               \/ \E p \in Pipes : SignalStep(p)
               \/ \E s \in Sources : HealthAges(s)
               \/ \E found \in BOOLEAN : ListMicrophones(found)
               \/ UNCHANGED vars
        PROVE  Faultless'
    <3>1. UNCHANGED <<taskPc, raised, pipe>>
      BY <2>3 DEF StartRejected, StartBegin, StopBegin, SignalStep, SignalCheck, SignalMark,
         SignalHealth, HealthAges, ListMicrophones, vars
    <3> QED
      BY <1>2, <3>1 DEF Faultless
  <2>4. CalmEvents
    OBVIOUS
  <2>5. NothingLate
    BY <1>2, <2>4, OnTime DEF CalmEvents
  <2>6. NothingBreaks
    BY <1>2, <2>4, NoFault
  <2> QED
    BY <1>2, <2>1, <2>2, <2>3, <2>5, <2>6 DEF Next, InternalStep, NothingLate, NothingBreaks
<1>3. Spec => []Timely
  BY TimelyRun DEF CalmEvents
<1> QED
  BY <1>1, <1>2, <1>3, TypeCorrect, PTL DEF Spec, Undisturbed

-----------------------------------------------------------------------------
(* One command at a time works on the session, and each status stands for  *)
(* one: "starting" for the start in flight, "listening" for the start that *)
(* serves or the stop that has not told yet, "stopping" for a stop.        *)
Holds(c) ==
  open /\ \A s \in Sources : slot[s] = IF s \in startReq[c] THEN StartPipe(c, s) ELSE NoPipe
Serves(c) == startPc[c] = "listening" /\ StartIsCurrent(c)
Heard(p) == signal[p] \in {"marked", "done"}

OneAtATime ==
  /\ \A c \in StartCalls : InFlight(c) =>
       /\ StartIsCurrent(c) /\ capture = "starting" /\ shown # "listening"
       /\ \A e \in StartCalls : InFlight(e) => e = c
  /\ \A d \in StopCalls : Busy(d) =>
       /\ StopIsCurrent(d)
       /\ \A e \in StopCalls : Busy(e) => e = d
       /\ capture = IF stopPc[d] \in {"look", "take", "apply"} THEN "listening" ELSE "stopping"
SessionHeld ==
  /\ \A c \in StartCalls :
       /\ startPc[c] # "dropping"
       /\ startPc[c] = "commit" \/ Serves(c) => Holds(c)
       /\ Serves(c) => capture = "listening"
  /\ open => \/ \E c \in StartCalls : startPc[c] = "commit"
             \/ capture = "listening" /\ \A d \in StopCalls : stopPc[d] # "apply"
ShownHeld ==
  /\ capture = "listening" =>
       (\E c \in StartCalls : Serves(c)) \/ \E d \in StopCalls : Busy(d)
  /\ shown = "listening" =>
       \/ \E c \in StartCalls : Serves(c)
       \/ \E d \in StopCalls : Begun(d) /\ StopIsCurrent(d)
Alive(s) ==
  \/ HeardBeforeFailure(s)
  \/ \E c \in StartCalls : InFlight(c) /\ s \in startReq[c] /\ Heard(StartPipe(c, s))
  \/ \E c \in StartCalls : Serves(c) /\ s \in startReq[c]
  \/ \E d \in StopCalls : Busy(d)
SeenAlive == \A s \in Sources : source[s] \in {"waiting", "receiving"} => Alive(s)

Calm == OneAtATime /\ SessionHeld /\ ShownHeld /\ SeenAlive

(* What the steps below may take for granted                               *)
Background ==
  /\ TypeOK /\ Ownership /\ Paid /\ Accountable /\ Traced
  /\ Numbered /\ EmptyWhenClosed /\ CallbackRuns /\ Undisturbed

(* A step that neither moves a call nor reports a source as capturing      *)
LEMMA CalmKept ==
  ASSUME Calm, UNCHANGED <<generation, capture, shown, open, slot, startGen, startReq>>,
         UNCHANGED <<stopGen, stopPc>>,
         \A c \in StartCalls :
           /\ InFlight(c) <=> InFlight(c)'
           /\ startPc'[c] \in {"commit", "dropping", "listening", "failed"} <=>
              startPc[c] \in {"commit", "dropping", "listening", "failed"}
           /\ startPc[c] \in {"commit", "dropping", "listening", "failed"} =>
                startPc'[c] = startPc[c],
         \A p \in Pipes : Heard(p) => Heard(p)',
         \A p \in Pipes : signal[p] = "done" => signal'[p] = "done",
         \A s \in Sources : source'[s] \in {"waiting", "receiving"} =>
           source[s] \in {"waiting", "receiving"} \/ Alive(s)'
  PROVE  Calm'
<1>1. \A c \in StartCalls : /\ startPc'[c] = "commit" <=> startPc[c] = "commit"
                            /\ startPc'[c] = "dropping" <=> startPc[c] = "dropping"
                            /\ startPc'[c] = "failed" <=> startPc[c] = "failed"
                            /\ Serves(c)' <=> Serves(c)
                            /\ Holds(c)' <=> Holds(c)
                            /\ StartIsCurrent(c)' <=> StartIsCurrent(c)
  BY DEF Serves, StartIsCurrent, Holds
<1>2. \A d \in StopCalls : /\ Busy(d)' <=> Busy(d)
                           /\ Begun(d)' <=> Begun(d)
                           /\ StopIsCurrent(d)' <=> StopIsCurrent(d)
  BY DEF Busy, Begun, StopIsCurrent
<1>3. OneAtATime'
  BY <1>1, <1>2 DEF Calm, OneAtATime
<1>4. SessionHeld'
  BY <1>1, <1>2 DEF Calm, SessionHeld
<1>5. ShownHeld'
  BY <1>1, <1>2 DEF Calm, ShownHeld
<1>6. SeenAlive'
  <2>1. \A s \in Sources : HeardBeforeFailure(s) => HeardBeforeFailure(s)'
    BY <1>1, PipeParts DEF HeardBeforeFailure
  <2>2. \A s \in Sources : Alive(s) => Alive(s)'
    BY <1>1, <1>2, <2>1, PipeParts DEF Alive
  <2> QED
    BY <2>2 DEF Calm, SeenAlive
<1> QED
  BY <1>3, <1>4, <1>5, <1>6 DEF Calm

(* A click on Start finds no session and no call under way.                *)
LEMMA ClickStarts ==
  ASSUME Background, Calm, NEW c \in StartCalls, NEW req \in Requests, ClickStart(c, req)
  PROVE  Calm'
<1> USE DEF pipeVars, sessionVars, stopVars
<1>1. CASE StartRejected(c, req)
  <2>1. /\ startPc[c] = "new" /\ startPc'[c] = "rejected"
        /\ \A e \in StartCalls : e # c => startPc'[e] = startPc[e]
        /\ UNCHANGED <<generation, capture, source, shown, open, slot, startGen, startReq, signal, stopVars>>
    BY <1>1 DEF ClickStart, StartRejected, GoStart, Background, TypeOK, stateVars
  <2> QED
    BY <2>1, CalmKept DEF InFlight, Heard
<1>2. CASE StartBegin(c, req)
  <2>1. /\ capture \in {"idle", "error"} /\ shown = "idle"
        /\ capture' = "starting" /\ generation' = generation + 1
        /\ UNCHANGED <<shown, open, slot, signal, stopVars>>
        /\ \A s \in Sources : source'[s] \in {"waiting", "receiving"} =>
             s \notin req /\ source'[s] = source[s]
    BY <1>2 DEF ClickStart, StartBegin, CanStart
  <2>2. /\ startPc[c] = "new" /\ startPc'[c] = "model" /\ startGen'[c] = generation + 1
        /\ \A e \in StartCalls : e # c =>
             startPc'[e] = startPc[e] /\ startGen'[e] = startGen[e] /\ startReq'[e] = startReq[e]
    BY <1>2 DEF StartBegin, GoStart, Background, TypeOK
  <2>3. /\ \A e \in StartCalls : ~InFlight(e) /\ ~Serves(e)
        /\ \A d \in StopCalls : ~Busy(d)
    BY <2>1 DEF Calm, OneAtATime, SessionHeld
  <2>4. ~open
    <3>1. \A e \in StartCalls : startPc[e] # "commit"
      BY <2>3 DEF InFlight
    <3> QED
      BY <2>1, <3>1 DEF Calm, SessionHeld
  <2>5. /\ \A e \in StartCalls : InFlight(e)' <=> e = c
        /\ \A e \in StartCalls : startPc'[e] \notin {"commit", "dropping"}
        /\ \A e \in StartCalls : startPc[e] = "failed" => startPc'[e] = "failed"
    BY <2>2, <2>3 DEF InFlight
  <2>6. \A e \in StartCalls : ~Serves(e)'
    <3>1. generation \in Nat /\ \A e \in StartCalls : startGen[e] \in Nat /\ startGen[e] <= generation
      BY DEF Background, TypeOK, Paid, Dated
    <3>2. \A e \in StartCalls : e # c => startGen'[e] # generation'
      BY <2>1, <2>2, <3>1
    <3> QED
      BY <2>2, <3>2 DEF Serves, StartIsCurrent
  <2>7. \A d \in StopCalls : ~Busy(d)'
    BY <2>1, <2>3 DEF Busy
  <2>8. OneAtATime'
    BY <2>1, <2>2, <2>5, <2>7 DEF OneAtATime, StartIsCurrent
  <2>9. SessionHeld'
    BY <2>1, <2>4, <2>5, <2>6 DEF SessionHeld
  <2>10. ShownHeld'
    BY <2>1 DEF ShownHeld
  <2>11. SeenAlive'
    <3> SUFFICES ASSUME NEW s \in Sources, source'[s] \in {"waiting", "receiving"}
                 PROVE  HeardBeforeFailure(s)'
      BY DEF SeenAlive, Alive
    <3>1. HeardBeforeFailure(s)
      BY <2>1, <2>3 DEF Calm, SeenAlive, Alive
    <3> QED
      BY <2>1, <2>5, <3>1 DEF HeardBeforeFailure
  <2> QED
    BY <2>8, <2>9, <2>10, <2>11 DEF Calm
<1> QED
  BY <1>1, <1>2 DEF ClickStart

(* A click on Stop finds the session a start serves, unless one is already *)
(* on its way.                                                             *)
LEMMA ClickStops ==
  ASSUME Background, Calm, StopOnce', NEW d \in StopCalls, ClickStop(d)
  PROVE  Calm'
<1> USE DEF stateVars, pipeVars, sessionVars, startVars
<1>1. /\ shown = "listening" /\ stopPc[d] = "new" /\ stopPc'[d] = "look"
      /\ generation' = generation + 1 /\ stopGen'[d] = generation + 1
      /\ UNCHANGED <<shown, capture, source, open, slot, signal, startVars>>
      /\ \A e \in StopCalls : e # d => stopPc'[e] = stopPc[e] /\ stopGen'[e] = stopGen[e]
  BY DEF ClickStop, StopBegin, GoStop, Background, TypeOK
<1>2. /\ generation \in Nat
      /\ \A c \in StartCalls : startGen[c] \in Nat /\ startGen[c] <= generation
      /\ \A e \in StopCalls : stopGen[e] \in Nat /\ stopGen[e] <= generation
  BY DEF Background, TypeOK, Paid, Dated, Numbered
<1>3. \A e \in StopCalls : ~(Begun(e) /\ StopIsCurrent(e))
  <2> SUFFICES ASSUME NEW e \in StopCalls, Begun(e), StopIsCurrent(e)
               PROVE  FALSE
    OBVIOUS
  <2>1. e # d
    BY <1>1 DEF Begun
  <2>2. Begun(e)' /\ Begun(d)' /\ stopGen'[e] = generation /\ stopGen'[d] = generation + 1
    BY <1>1, <2>1 DEF Begun, StopIsCurrent
  <2>3. PICK c \in StartCalls : generation < startGen'[c]
    BY <1>2, <2>2 DEF StopOnce
  <2> QED
    BY <1>1, <1>2, <2>3
<1>4. PICK c \in StartCalls : Serves(c)
  BY <1>1, <1>3 DEF Calm, ShownHeld
<1>5. /\ capture = "listening"
      /\ \A e \in StartCalls : ~InFlight(e)
      /\ \A e \in StopCalls : ~Busy(e)
  <2>1. \A e \in StopCalls : Busy(e) => Begun(e) /\ StopIsCurrent(e)
    BY DEF Busy, Begun, Calm, OneAtATime
  <2> QED
    BY <1>1, <1>3, <1>4, <2>1 DEF Calm, OneAtATime, SessionHeld
<1>6. /\ \A e \in StartCalls : ~InFlight(e)'
      /\ \A e \in StartCalls : startPc'[e] \notin {"commit", "dropping"}
  BY <1>1, <1>5 DEF InFlight
<1>7. \A e \in StartCalls : ~Serves(e)'
  BY <1>1, <1>2 DEF Serves, StartIsCurrent
<1>8. \A e \in StopCalls : Busy(e)' <=> e = d
  BY <1>1, <1>5 DEF Busy
<1>9. StopIsCurrent(d)' /\ Begun(d)'
  BY <1>1 DEF StopIsCurrent, Begun
<1>10. OneAtATime'
  BY <1>1, <1>5, <1>6, <1>8, <1>9 DEF OneAtATime
<1>11. \A e \in StopCalls : stopPc'[e] # "apply"
  BY <1>1, <1>8 DEF Busy
<1>12. SessionHeld'
  BY <1>1, <1>5, <1>6, <1>7, <1>11 DEF SessionHeld
<1>13. ShownHeld'
  BY <1>8, <1>9 DEF ShownHeld
<1>14. SeenAlive'
  BY <1>8 DEF SeenAlive, Alive
<1> QED
  BY <1>10, <1>12, <1>13, <1>14 DEF Calm

LEMMA RenderIsCalm ==
  ASSUME Background, Calm, Render
  PROVE  Calm'
<1>1. shown' = capture /\ UNCHANGED vars
  BY DEF Render
<1>2. OneAtATime'
  BY <1>1 DEF Calm, OneAtATime, InFlight, Busy, StartIsCurrent, StopIsCurrent, vars,
     startVars, stopVars, stateVars
<1>3. SessionHeld'
  BY <1>1 DEF Calm, SessionHeld, Serves, Holds, StartIsCurrent, vars, startVars, stopVars,
     stateVars, sessionVars
<1>4. ShownHeld'
  <2>1. capture = "listening" =>
          \/ \E c \in StartCalls : Serves(c)
          \/ \E d \in StopCalls : Begun(d) /\ StopIsCurrent(d)
    BY DEF Calm, OneAtATime, ShownHeld, Busy, Begun
  <2> QED
    BY <1>1, <2>1 DEF Calm, ShownHeld, Serves, Busy, Begun, StartIsCurrent, StopIsCurrent,
       vars, startVars, stopVars, stateVars
<1>5. SeenAlive'
  BY <1>1 DEF Calm, SeenAlive, Alive, HeardBeforeFailure, InFlight, Heard, Serves, Busy,
     StartIsCurrent, vars, startVars, stopVars, stateVars, pipeVars
<1> QED
  BY <1>2, <1>3, <1>4, <1>5 DEF Calm

(* A start in flight is alone, and installs over nothing.                  *)
LEMMA StartIsCalm ==
  ASSUME Background, Calm, NEW c \in StartCalls, StartStep(c), UNCHANGED shown
  PROVE  Calm'
<1> USE DEF stateVars, pipeVars, sessionVars, stopVars
<1>1. InFlight(c)
  BY DEF StartStep, StartModelReturns, StartModelFails, StartModelReady,
     StartMicReturns, StartMicFails, StartMicOpens, StartSysReturns, StartSysFails,
     StartSysOpens, StartThread, StartMicDone, StartCheck, StartInstall, StartDropped,
     StartCommit, StartFailCheck, StartFailApply, InFlight
<1>2. /\ StartIsCurrent(c) /\ capture = "starting" /\ shown # "listening"
      /\ \A e \in StartCalls : InFlight(e) => e = c
      /\ \A e \in StartCalls : ~Serves(e)
      /\ \A d \in StopCalls : ~Busy(d)
      /\ startPc[c] # "dropping"
  BY <1>1 DEF Calm, OneAtATime, SessionHeld
<1>3. startPc[c] # "commit" => ~open
  BY <1>2 DEF Calm, SessionHeld, InFlight
<1>4. /\ UNCHANGED <<generation, startGen, startReq, signal, stopVars, shown>>
      /\ \E pc \in StartPcs : GoStart(c, pc)
  BY DEF StartStep, StartModelReturns, StartModelFails, StartModelReady,
     StartMicReturns, StartMicFails, StartMicOpens, StartSysReturns, StartSysFails,
     StartSysOpens, StartThread, StartMicDone, StartCheck, StartInstall, StartDropped,
     StartCommit, StartFailCheck, StartFailApply, StartPcs
<1>5. /\ \A e \in StartCalls : e # c => startPc'[e] = startPc[e]
      /\ \A e \in StartCalls : StartIsCurrent(e)' <=> StartIsCurrent(e)
      /\ \A e \in StartCalls : e # c => ~InFlight(e)' /\ ~Serves(e)'
      /\ \A e \in StartCalls : e # c => startPc'[e] \notin {"commit", "dropping"}
      /\ \A d \in StopCalls : ~Busy(d)'
      /\ \A s \in Sources : HeardBeforeFailure(s) => HeardBeforeFailure(s)'
  <2>1. \A e \in StartCalls : e # c => startPc'[e] = startPc[e]
    BY <1>4 DEF GoStart, Background, TypeOK
  <2>2. \A e \in StartCalls : StartIsCurrent(e)' <=> StartIsCurrent(e)
    BY <1>4 DEF StartIsCurrent
  <2>3. \A e \in StartCalls : e # c => ~InFlight(e)' /\ ~Serves(e)'
    BY <1>2, <2>1, <2>2 DEF InFlight, Serves
  <2>4. \A d \in StopCalls : ~Busy(d)'
    BY <1>2, <1>4 DEF Busy
  <2>5. \A e \in StartCalls : startPc[e] = "failed" => startPc'[e] = "failed"
    BY <1>1, <2>1 DEF InFlight
  <2>6. \A s \in Sources : HeardBeforeFailure(s) => HeardBeforeFailure(s)'
    BY <1>4, <2>5 DEF HeardBeforeFailure
  <2>7. \A e \in StartCalls : e # c => startPc'[e] \notin {"commit", "dropping"}
    BY <2>3 DEF InFlight
  <2> QED
    BY <2>1, <2>2, <2>3, <2>4, <2>6, <2>7
<1>6. CASE StartCommit(c)
  <2>1. /\ startPc[c] = "commit" /\ startPc'[c] = "listening" /\ capture' = "listening"
        /\ UNCHANGED <<open, slot>>
        /\ \A s \in Sources : source'[s] = IF s \in startReq[c] THEN "waiting" ELSE source[s]
    BY <1>6 DEF StartCommit, GoStart, Background, TypeOK
  <2>2. Serves(c)' /\ Holds(c)' /\ ~InFlight(c)'
    <3>1. Holds(c)
      BY <2>1 DEF Calm, SessionHeld
    <3>2. Holds(c)'
      BY <1>4, <2>1, <3>1 DEF Holds
    <3> QED
      BY <1>2, <1>5, <2>1, <3>2 DEF Serves, InFlight
  <2>3. OneAtATime'
    BY <1>5, <2>2 DEF OneAtATime
  <2>4. \A d \in StopCalls : stopPc'[d] # "apply"
    BY <1>5 DEF Busy
  <2>5. SessionHeld'
    BY <1>5, <2>1, <2>2, <2>4 DEF SessionHeld
  <2>6. ShownHeld'
    BY <2>2 DEF ShownHeld
  <2>7. SeenAlive'
    <3> SUFFICES ASSUME NEW s \in Sources, source'[s] \in {"waiting", "receiving"}
                 PROVE  Alive(s)'
      BY DEF SeenAlive
    <3>1. CASE s \in startReq[c]
      BY <1>4, <2>2, <3>1 DEF Alive
    <3>2. CASE s \notin startReq[c]
      <4>1. HeardBeforeFailure(s)
        BY <1>2, <2>1, <3>2 DEF Calm, SeenAlive, Alive
      <4> QED
        BY <1>5, <4>1 DEF Alive
    <3> QED
      BY <3>1, <3>2
  <2> QED
    BY <2>3, <2>5, <2>6, <2>7 DEF Calm
<1>7. CASE StartFailApply(c)
  <2>1. /\ startPc[c] = "failApply" /\ startPc'[c] = "failed" /\ capture' = "error"
        /\ UNCHANGED <<open, slot>>
        /\ \A s \in Sources : source'[s] \in {"waiting", "receiving"} => source'[s] = source[s]
    BY <1>7 DEF StartFailApply, GoStart, Background, TypeOK
  <2>2. ~InFlight(c)' /\ ~Serves(c)' /\ ~open'
    BY <1>3, <2>1 DEF InFlight, Serves
  <2>3. OneAtATime'
    BY <1>5, <2>2 DEF OneAtATime
  <2>4. SessionHeld'
    BY <1>5, <2>1, <2>2 DEF SessionHeld
  <2>5. ShownHeld'
    BY <1>2, <1>4, <2>1 DEF ShownHeld
  <2>6. SeenAlive'
    <3> SUFFICES ASSUME NEW s \in Sources, source'[s] \in {"waiting", "receiving"}
                 PROVE  HeardBeforeFailure(s)'
      BY DEF SeenAlive, Alive
    <3>1. HeardBeforeFailure(s) \/ Heard(StartPipe(c, s))
      BY <1>2, <2>1 DEF Calm, SeenAlive, Alive
    <3>2. CASE Heard(StartPipe(c, s))
      <4>1. Unowned(StartPipe(c, s))
        BY <2>1 DEF Background, Ownership, StartOwns, OwnsUntilInstalled, Expected
      <4>2. signal[StartPipe(c, s)] = "done"
        BY <3>2, <4>1, PipeParts DEF Heard, Background, CallbackRuns
      <4> QED
        BY <1>4, <2>1, <4>2 DEF HeardBeforeFailure
    <3> QED
      BY <1>5, <3>1, <3>2
  <2> QED
    BY <2>3, <2>4, <2>5, <2>6 DEF Calm
<1>8. ASSUME UNCHANGED <<capture, source>>, InFlight(c)', startPc'[c] # "dropping",
             open' => startPc'[c] = "commit",
             startPc'[c] = "commit" => Holds(c)'
      PROVE  Calm'
  <2>1. OneAtATime'
    BY <1>2, <1>4, <1>5, <1>8 DEF OneAtATime
  <2>2. ~Serves(c)'
    BY <1>8 DEF Serves, InFlight
  <2>3. SessionHeld'
    BY <1>5, <1>8, <2>2 DEF SessionHeld
  <2>4. ShownHeld'
    BY <1>2, <1>4, <1>8 DEF ShownHeld
  <2>5. SeenAlive'
    <3> SUFFICES ASSUME NEW s \in Sources, source[s] \in {"waiting", "receiving"}
                 PROVE  Alive(s)'
      BY <1>8 DEF SeenAlive
    <3>1. HeardBeforeFailure(s) \/ (s \in startReq[c] /\ Heard(StartPipe(c, s)))
      BY <1>2 DEF Calm, SeenAlive, Alive
    <3>2. CASE HeardBeforeFailure(s)
      BY <1>5, <3>2 DEF Alive
    <3>3. CASE s \in startReq[c] /\ Heard(StartPipe(c, s))
      BY <1>4, <1>8, <3>3 DEF Alive, Heard, StartPipe
    <3> QED
      BY <3>1, <3>2, <3>3
  <2> QED
    BY <2>1, <2>3, <2>4, <2>5 DEF Calm
<1>9. CASE StartInstall(c)
  <2>1. startPc[c] = "install" /\ ~open
    BY <1>3, <1>9 DEF StartInstall
  <2>2. InSlots = {}
    BY <2>1 DEF Background, EmptyWhenClosed, InSlots
  <2>3. GoStart(c, "commit")
    BY <1>9, <2>2 DEF StartInstall
  <2>4. startPc'[c] = "commit" /\ UNCHANGED <<capture, source>>
    BY <1>9, <2>3 DEF StartInstall, GoStart, Background, TypeOK
  <2>5. Holds(c)'
    BY <1>9 DEF StartInstall, Holds
  <2> QED
    BY <1>8, <2>4, <2>5 DEF InFlight
<1>10. CASE ~StartCommit(c) /\ ~StartFailApply(c) /\ ~StartInstall(c)
  <2>1. /\ UNCHANGED <<capture, source, open, slot>>
        /\ startPc[c] # "commit"
        /\ \E pc \in StartPcs \ {"new", "rejected", "listening", "failed", "dropping", "commit"} :
             GoStart(c, pc)
    BY <1>2, <1>10 DEF StartStep, StartModelReturns, StartModelFails, StartModelReady,
       StartMicReturns, StartMicFails, StartMicOpens, StartSysReturns, StartSysFails,
       StartSysOpens, StartThread, StartMicDone, StartCheck, StartDropped, StartFailCheck,
       StartPcs
  <2>2. startPc'[c] \notin {"new", "rejected", "listening", "failed", "dropping", "commit"}
    BY <2>1 DEF GoStart, Background, TypeOK
  <2>3. ~open'
    BY <1>3, <2>1
  <2> QED
    BY <1>8, <2>1, <2>2, <2>3 DEF InFlight
<1> QED
  BY <1>6, <1>7, <1>9, <1>10

(* A stop that works is alone, and current until it says so.               *)
LEMMA StopIsCalm ==
  ASSUME Background, Calm, NEW d \in StopCalls, StopStep(d), UNCHANGED shown
  PROVE  Calm'
<1> USE DEF stateVars, pipeVars, sessionVars, startVars
<1>1. Busy(d)
  BY DEF StopStep, StopThread, StopLook, StopTake, StopApply, StopJoined, StopCheck,
     StopCommit, Busy
<1>2. /\ StopIsCurrent(d) /\ Begun(d)
      /\ capture = IF stopPc[d] \in {"look", "take", "apply"} THEN "listening" ELSE "stopping"
      /\ \A e \in StopCalls : Busy(e) => e = d
      /\ \A c \in StartCalls : ~InFlight(c)
  BY <1>1 DEF Calm, OneAtATime, Busy, Begun
<1>3. \A c \in StartCalls : ~Serves(c)
  BY <1>2 DEF Background, Numbered, Serves, Accepted, StartIsCurrent, StopIsCurrent
<1>4. /\ UNCHANGED <<generation, startVars, stopGen, signal, shown>>
      /\ \E pc \in StopPcs : GoStop(d, pc)
  BY DEF StopStep, StopThread, StopLook, StopTake, StopApply, StopJoined, StopCheck,
     StopCommit, StopPcs
<1>5. /\ \A e \in StopCalls : e # d => stopPc'[e] = stopPc[e] /\ ~Busy(e)'
      /\ \A c \in StartCalls : ~InFlight(c)' /\ ~Serves(c)'
      /\ \A c \in StartCalls : startPc'[c] \notin {"commit", "dropping"}
      /\ \A s \in Sources : HeardBeforeFailure(s) => HeardBeforeFailure(s)'
      /\ StopIsCurrent(d)'
  <2>1. \A e \in StopCalls : e # d => stopPc'[e] = stopPc[e]
    BY <1>4 DEF GoStop, Background, TypeOK
  <2>2. \A e \in StopCalls : e # d => ~Busy(e)'
    BY <1>2, <2>1 DEF Busy
  <2>3. \A c \in StartCalls : ~InFlight(c)' /\ ~Serves(c)'
    BY <1>2, <1>3, <1>4 DEF InFlight, Serves, StartIsCurrent
  <2>4. \A s \in Sources : HeardBeforeFailure(s) => HeardBeforeFailure(s)'
    BY <1>4 DEF HeardBeforeFailure
  <2>5. \A c \in StartCalls : startPc'[c] \notin {"commit", "dropping"}
    BY <2>3 DEF InFlight
  <2> QED
    BY <1>2, <1>4, <2>1, <2>2, <2>3, <2>4, <2>5 DEF StopIsCurrent
<1>6. Begun(d)'
  BY <1>4 DEF StopStep, StopThread, StopLook, StopTake, StopApply, StopJoined, StopCheck,
     StopCommit, Begun, GoStop, Background, TypeOK
<1>7. (open => capture = "listening" /\ stopPc[d] # "apply")
  BY <1>2 DEF Calm, SessionHeld, InFlight
<1>8. CASE StopCommit(d)
  <2>1. /\ stopPc[d] = "commit" /\ stopPc'[d] = "stopped" /\ capture' = "idle"
        /\ UNCHANGED open
        /\ \A s \in Sources : source'[s] \notin {"waiting", "receiving"}
    BY <1>8 DEF StopCommit, GoStop, Background, TypeOK
  <2>2. ~Busy(d)' /\ ~open'
    BY <1>2, <1>7, <2>1 DEF Busy
  <2>3. OneAtATime'
    BY <1>5, <2>2 DEF OneAtATime
  <2>4. SessionHeld'
    BY <1>5, <2>2 DEF SessionHeld
  <2>5. ShownHeld'
    BY <1>5, <1>6, <2>1 DEF ShownHeld
  <2>6. SeenAlive'
    BY <2>1 DEF SeenAlive
  <2> QED
    BY <2>3, <2>4, <2>5, <2>6 DEF Calm
<1>9. ASSUME Busy(d)',
             capture' = IF stopPc'[d] \in {"look", "take", "apply"} THEN "listening" ELSE "stopping",
             open' => stopPc'[d] \in {"look", "take"}
      PROVE  Calm'
  <2>1. OneAtATime'
    BY <1>5, <1>9 DEF OneAtATime
  <2>2. \A e \in StopCalls : e # d => stopPc'[e] # "apply"
    BY <1>5 DEF Busy
  <2>3. SessionHeld'
    BY <1>5, <1>9, <2>2 DEF SessionHeld
  <2>4. ShownHeld'
    BY <1>5, <1>6, <1>9 DEF ShownHeld
  <2>5. SeenAlive'
    BY <1>9 DEF SeenAlive, Alive
  <2> QED
    BY <2>1, <2>3, <2>4, <2>5 DEF Calm
<1>10. CASE StopLook(d) \/ StopTake(d)
  <2>1. CASE StopLook(d)
    <3>1. stopPc[d] = "look" /\ stopPc'[d] = "take" /\ UNCHANGED capture
      BY <1>2, <2>1 DEF StopLook, GoStop, Background, TypeOK
    <3> QED
      BY <1>2, <1>9, <3>1 DEF Busy
  <2>2. CASE StopTake(d)
    <3>1. stopPc[d] = "take" /\ stopPc'[d] = "apply" /\ UNCHANGED capture
      BY <2>2 DEF StopTake, GoStop, Background, TypeOK
    <3>2. ~open'
      BY <2>2 DEF StopTake, EmptySession
    <3> QED
      BY <1>2, <1>9, <3>1, <3>2 DEF Busy
  <2> QED
    BY <1>10, <2>1, <2>2
<1>11. CASE StopApply(d)
  <2>1. /\ stopPc[d] = "apply" /\ stopPc'[d] \in {"joining", "check"}
        /\ capture' = "stopping" /\ UNCHANGED open
    BY <1>11 DEF StopApply, GoStop, Background, TypeOK
  <2> QED
    BY <1>7, <1>9, <2>1 DEF Busy
<1>12. CASE StopJoined(d) \/ StopCheck(d)
  <2>1. /\ stopPc[d] \in {"joining", "check"} /\ stopPc'[d] \in {"check", "commit"}
        /\ UNCHANGED <<capture, open>>
    BY <1>2, <1>12 DEF StopJoined, StopCheck, GoStop, Background, TypeOK
  <2> QED
    BY <1>2, <1>7, <1>9, <2>1 DEF Busy
<1> QED
  BY <1>8, <1>10, <1>11, <1>12 DEF StopStep, StopThread

(* A callback that still runs reports a source some call answers for.      *)
LEMMA SignalIsCalm ==
  ASSUME Background, Calm, NEW p \in Pipes, SignalStep(p), UNCHANGED shown
  PROVE  Calm'
<1> USE DEF stateVars, sessionVars, startVars, stopVars
<1>1. /\ UNCHANGED <<generation, capture, shown, open, slot, pipe, startPc, startGen, startReq>>
      /\ UNCHANGED <<stopGen, stopPc, stopHeld>>
      /\ \A q \in Pipes : Heard(q) => Heard(q)'
      /\ \A q \in Pipes : signal[q] = "done" => signal'[q] = "done"
  BY DEF SignalStep, SignalCheck, SignalMark, SignalHealth, Heard, Background, TypeOK
<1>2. CASE UNCHANGED source
  BY <1>1, <1>2, CalmKept DEF InFlight
<1>3. CASE SignalMark(p)
  <2>1. /\ signal[p] = "checked" /\ signal'[p] = "marked"
        /\ \A s \in Sources : s # p[2] => source'[s] = source[s]
    BY <1>3 DEF SignalMark, Background, TypeOK
  <2>2. SessionFree
    BY DEF SessionFree, Calm, SessionHeld, Background, Undisturbed, Timely, Faultless
  <2>3. pipe[p] = "live"
    BY <2>1, <2>2 DEF Background, CallbackRuns, Unowned, Accountable, Swept, Dropped,
       Undisturbed, Faultless, TypeOK
  <2>4. p = StartPipe(p[1], p[2]) /\ p[1] \in StartCalls /\ p[2] \in Sources
    <3>1. p[1] \notin Tasks
      BY <2>3, PipeParts DEF Background, Traced, Undisturbed, Faultless
    <3> QED
      BY <3>1, PipeParts DEF Openers, StartPipe
  <2>5. p[2] \in startReq[p[1]]
    BY <2>3, <2>4 DEF Background, Traced, Unowned
  <2>6. Opening(p) \/ InSlot(p) \/ \E d \in StopCalls : p \in stopHeld[d]
    BY <2>3 DEF Background, Ownership, OneOwner
  <2>7. Alive(p[2])'
    <3>1. CASE InFlight(p[1])
      <4>1. InFlight(p[1])' /\ p[2] \in startReq'[p[1]] /\ Heard(StartPipe(p[1], p[2]))'
        BY <1>1, <2>1, <2>4, <2>5, <3>1 DEF InFlight, Heard, StartPipe
      <4> QED
        BY <2>4, <4>1 DEF Alive
    <3>2. ASSUME NEW d \in StopCalls, Busy(d)
          PROVE  Alive(p[2])'
      BY <1>1, <3>2 DEF Alive, Busy
    <3>3. CASE InSlot(p)
      <4>1. open
        BY <2>4, <3>3, ConstantAssumption DEF InSlot, Background, EmptyWhenClosed
      <4>2. ASSUME NEW c \in StartCalls, Holds(c), InFlight(c) \/ Serves(c)
            PROVE  Alive(p[2])'
        <5>1. p = StartPipe(c, p[2]) /\ p[2] \in startReq[c]
          BY <2>4, <3>3, <4>2, ConstantAssumption DEF InSlot, Holds
        <5>2. CASE InFlight(c)
          <6>1. InFlight(c)' /\ p[2] \in startReq'[c] /\ Heard(StartPipe(c, p[2]))'
            BY <1>1, <2>1, <5>1, <5>2 DEF InFlight, Heard, StartPipe
          <6> QED
            BY <6>1 DEF Alive
        <5>3. CASE Serves(c)
          BY <1>1, <5>1, <5>3 DEF Alive, Serves, StartIsCurrent
        <5> QED
          BY <4>2, <5>2, <5>3
      <4>3. CASE \E c \in StartCalls : startPc[c] = "commit"
        BY <4>2, <4>3 DEF Calm, SessionHeld, InFlight
      <4>4. CASE capture = "listening"
        BY <3>2, <4>2, <4>4 DEF Calm, SessionHeld, ShownHeld
      <4> QED
        BY <4>1, <4>3, <4>4 DEF Calm, SessionHeld
    <3>4. ASSUME NEW d \in StopCalls, p \in stopHeld[d]
          PROVE  Busy(d)
      BY <3>4 DEF Background, Accountable, HeldWhileJoining, Busy
    <3>5. Opening(p) => InFlight(p[1])
      BY <2>4, ConstantAssumption DEF Opening, InFlight
    <3> QED
      BY <2>6, <3>1, <3>2, <3>3, <3>4, <3>5
  <2>8. \A s \in Sources : source'[s] \in {"waiting", "receiving"} =>
          source[s] \in {"waiting", "receiving"} \/ Alive(s)'
    BY <2>1, <2>7
  <2> QED
    BY <1>1, <2>8, CalmKept DEF InFlight
<1> QED
  BY <1>2, <1>3 DEF SignalStep, SignalCheck, SignalHealth

LEMMA OthersCalm ==
  ASSUME Background, Calm, UNCHANGED shown,
         \/ \E s \in Sources : HealthAges(s)
         \/ \E found \in BOOLEAN : ListMicrophones(found)
         \/ UNCHANGED vars
  PROVE  Calm'
<1> USE DEF stateVars, sessionVars, pipeVars, startVars, stopVars
<1>1. UNCHANGED <<generation, capture, shown, open, slot, signal, startVars, stopVars>>
  BY DEF HealthAges, ListMicrophones, vars
<1>2. \A s \in Sources : source'[s] \in {"waiting", "receiving"} =>
        source[s] \in {"waiting", "receiving"}
  BY DEF HealthAges, ListMicrophones, vars, Background, TypeOK
<1> QED
  BY <1>1, <1>2, CalmKept DEF InFlight, Heard

LEMMA CalmSession ==
  ASSUME CalmEvents
  PROVE  AppSpec => [](Background /\ (StopOnce => Calm))
<1>1. AppInit => (StopOnce => Calm)
  <2> SUFFICES ASSUME AppInit PROVE Calm
    OBVIOUS
  <2> USE DEF AppInit, Init
  <2>1. /\ \A c \in StartCalls : ~InFlight(c) /\ ~Serves(c)
        /\ \A d \in StopCalls : ~Busy(d)
    BY DEF InFlight, Serves, Busy
  <2>2. OneAtATime
    BY <2>1 DEF OneAtATime
  <2>3. SessionHeld
    BY <2>1 DEF SessionHeld
  <2>4. ShownHeld
    BY DEF ShownHeld
  <2>5. SeenAlive
    BY DEF SeenAlive
  <2> QED
    BY <2>2, <2>3, <2>4, <2>5 DEF Calm
<1>2. ASSUME Background, Background', StopOnce => Calm, [AppNext]_appVars, StopOnce'
      PROVE  Calm'
  <2>1. [Next]_vars
    BY <1>2 DEF AppNext, ClickStart, ClickStop, Render, Next, appVars
  <2>2. Calm
    BY <1>2, <2>1, StoppedOnceBefore DEF Background
  <2>3. CASE InternalStep /\ UNCHANGED shown
    <3>1. CalmEvents
      OBVIOUS
    <3>2. NothingLate
      BY <1>2, <3>1, OnTime DEF Background, Undisturbed, CalmEvents
    <3>3. NothingBreaks
      BY <1>2, <3>1, NoFault DEF Background, Undisturbed
    <3> QED
      BY <1>2, <2>2, <2>3, <3>1, <3>2, <3>3, StartIsCalm, StopIsCalm, SignalIsCalm, OthersCalm
      DEF InternalStep, NothingLate, NothingBreaks
  <2>4. CASE UNCHANGED appVars
    BY <1>2, <2>2, <2>4, OthersCalm DEF appVars
  <2> QED
    BY <1>2, <2>2, <2>3, <2>4, ClickStarts, ClickStops, RenderIsCalm DEF AppNext
<1>3. AppSpec => []Background
  <2>1. CalmEvents
    OBVIOUS
  <2>2. Spec => []Undisturbed
    BY <2>1, QuietRun
  <2> QED
    BY <2>2, AppRunsManager, TypeCorrect, OwnershipInvariant, ChargesInvariant,
       AccountsKept, RequestsAreTraced, SessionBooks, CallbacksEndBeforeJoins, PTL
    DEF Background
<1> QED
  BY <1>1, <1>2, <1>3, PTL DEF AppSpec

(* A start that answered "listening" keeps its session and its status      *)
(* until the next command, in an application whose devices do not break.   *)
THEOREM StartsStand ==
  ASSUME CalmEvents
  PROVE  AppSpec => [](StopOnce => StartStands)
<1>1. Background /\ (StopOnce => Calm) => (StopOnce => StartStands)
  <2> SUFFICES ASSUME Background, Calm, NEW c \in StartCalls, startPc[c] = "listening",
                      StartIsCurrent(c)
               PROVE  capture = "listening" /\ \A s \in startReq[c] : slot[s] = StartPipe(c, s)
    BY DEF StartStands
  <2>1. Holds(c) /\ capture = "listening"
    BY DEF Calm, SessionHeld, Serves
  <2> QED
    BY <2>1 DEF Holds, Background, TypeOK
<1> QED
  BY <1>1, CalmSession, PTL

(* An application that shows an error holds no device.                     *)
THEOREM ErrorsAreDead ==
  ASSUME CalmEvents
  PROVE  AppSpec => [](StopOnce => ErrorIsDead)
<1>1. Background /\ (StopOnce => Calm) => (StopOnce => ErrorIsDead)
  <2> SUFFICES ASSUME Background, Calm, AtRest, capture = "error"
               PROVE  InSlots = {}
    BY DEF ErrorIsDead
  <2>1. ~open
    BY DEF Calm, SessionHeld, AtRest
  <2> QED
    BY <2>1 DEF Background, EmptyWhenClosed, InSlots
<1> QED
  BY <1>1, CalmSession, PTL

(* A source shown as capturing is, once nothing is under way.              *)
THEOREM CapturingSourcesRun ==
  ASSUME CalmEvents
  PROVE  AppSpec => [](StopOnce => CapturingIsAlive)
<1>1. Background /\ (StopOnce => Calm) => (StopOnce => CapturingIsAlive)
  <2> SUFFICES ASSUME Background, Calm, NEW s \in Sources, AtRest,
                      source[s] \in {"waiting", "receiving"}, ~HeardBeforeFailure(s)
               PROVE  slot[s] # NoPipe /\ raised[slot[s]] = {} /\ PipeGen(slot[s]) = generation
    BY DEF CapturingIsAlive
  <2>1. /\ \A c \in StartCalls : ~InFlight(c)
        /\ \A d \in StopCalls : ~Busy(d)
    BY DEF AtRest, InFlight, Busy
  <2>2. PICK c \in StartCalls : Serves(c) /\ s \in startReq[c]
    BY <2>1 DEF Calm, SeenAlive, Alive
  <2>3. slot[s] = StartPipe(c, s)
    BY <2>2 DEF Calm, SessionHeld, Holds
  <2>4. slot[s] \in Pipes /\ slot[s][1] = c
    BY <2>3, PipeParts
  <2>5. PipeGen(slot[s]) = generation
    BY <2>2, <2>4 DEF PipeGen, Serves, StartIsCurrent
  <2> QED
    BY <2>4, <2>5, ConstantAssumption DEF Background, Undisturbed, Faultless
<1> QED
  BY <1>1, CalmSession, PTL
=============================================================================
