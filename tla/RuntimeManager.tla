--------------------------- MODULE RuntimeManager ---------------------------
(***************************************************************************)
(* The native lifecycle manager (src-tauri/src/state/manager.rs): the      *)
(* commands start_capture, stop_capture and list_microphones, the two      *)
(* watchdogs, the per-source fault handlers and recovery attempts, the     *)
(* first-signal callback and shutdown().                                   *)
(*                                                                         *)
(* Each thread of the program is a process with a program counter.  One    *)
(* action is what a thread does between two points where another thread    *)
(* can act: one atomic access to `generation`, or one critical section of  *)
(* the `state` or of the `session` mutex.  Blocking calls into the audio   *)
(* backends, the model loader and thread joins are actions of their own,   *)
(* so anything may happen while they are pending.                          *)
(***************************************************************************)
EXTENDS Naturals, FiniteSets, FaultPolicy

CONSTANTS
  StartCalls,      \* invocations of start_capture
  StopCalls,       \* invocations of stop_capture
  Tasks,           \* fault-handling threads; with the recovery thread each may become
  MaxAttempts,     \* recovery_policy.max_attempts
  Requests,        \* the sets of sources the callers ask for
  Events,          \* what the environment may do in this instance
  NoPipe           \* "no pipeline": an empty source slot

Sources == {"microphone", "system"}
Openers == StartCalls \cup Tasks

(* A pipeline is one running source: device session, monitor thread, ASR   *)
(* worker.  A start call opens at most one per source and a recovery       *)
(* attempt at most one, so opener and source identify it.                  *)
Pipes == Openers \X Sources

EnvironmentEvents ==
  {"slow start",      \* a start outlasts the starting watchdog
   "slow stop",       \* a teardown outlasts the stopping watchdog
   "shutdown",        \* the application is closed
   "monitor fault",   \* a monitor thread or backend callback reports a fault
   "worker fault",    \* an ASR worker reports a fault
   "failed start",    \* the model, a device or a stream cannot be opened
   "panic",           \* a recovery attempt panics
   "microphone signal",  \* the microphone receives its first audible signal
   "system signal",      \* system audio does
   "enumeration"}     \* microphones come and go while they are listed

ASSUME ConstantAssumption ==
  /\ MaxAttempts \in Nat
  /\ Requests \subseteq SUBSET Sources
  /\ Events \subseteq EnvironmentEvents
  /\ StartCalls \cap Tasks = {}
  /\ NoPipe \notin Pipes

CaptureStatuses == {"idle", "starting", "listening", "stopping", "error"}
SourceStatuses ==
  {"unavailable", "idle", "starting", "waiting", "receiving", "error"}

VARIABLES
  generation,   \* AtomicU64 that every callback compares itself with
  capture,      \* RuntimeState.capture_status
  source,       \* RuntimeState.microphone and .system_audio
  open,         \* is `session` Some?
  slot,         \* ActiveSession.mic and .sys
  used,         \* RecoveryState.attempts_used
  health,       \* RecoveryState.healthy_since: unset, under or over healthy_reset
  micRequested, \* requested_microphone_device_id.is_some()
  pipe,         \* life cycle of each pipeline
  raised,       \* which threads of a pipeline have reported their fault
  signal,       \* progress of a pipeline's on_first_signal callback
  startPc, startGen, startReq, startErr, startDone, startDog,
  stopPc, stopGen, stopHeld, stopDone, stopDog,
  taskPc, taskSrc, taskGen, taskFrom, taskRetry,
  shutPc

stateVars   == <<capture, source>>
sessionVars == <<open, slot, used, health, micRequested>>
pipeVars    == <<pipe, raised, signal>>
startVars   == <<startPc, startGen, startReq, startErr, startDone, startDog>>
stopVars    == <<stopPc, stopGen, stopHeld, stopDone, stopDog>>
taskVars    == <<taskPc, taskSrc, taskGen, taskFrom, taskRetry>>
vars == <<generation, stateVars, sessionVars, pipeVars, startVars, stopVars,
          taskVars, shutPc>>

(* A start call: "mic" and "sys" are the blocking device acquisitions,     *)
(* "check" the last look at the generation, "install" and "commit" the     *)
(* session and state sections that follow it.                              *)
StartPcs == {"new", "model", "mic", "micUp", "sys", "check", "install",
             "dropping", "commit", "failCheck", "failApply",
             "listening", "failed", "rejected"}
StopPcs == {"new", "look", "take", "apply", "joining", "check", "commit",
            "stopped", "superseded", "rejected"}
TaskPcs == {"free", "check", "session", "status", "terminal", "backoff",
            "survey", "context", "restart", "opened", "install", "dropping",
            "resumed", "panicked", "done"}
DogPcs == {"off", "armed", "late", "won", "done"}

TypeOK ==
  /\ generation \in Nat
  /\ capture \in CaptureStatuses
  /\ source \in [Sources -> SourceStatuses]
  /\ open \in BOOLEAN
  /\ slot \in [Sources -> Pipes \cup {NoPipe}]
  /\ used \in [Sources -> 0..MaxAttempts]
  /\ health \in [Sources -> {"unset", "young", "aged"}]
  /\ micRequested \in BOOLEAN
  /\ pipe \in [Pipes -> {"none", "live", "dropped", "abandoned", "released"}]
  /\ raised \in [Pipes -> SUBSET {"monitor", "worker"}]
  /\ signal \in [Pipes -> {"none", "checked", "marked", "done"}]
  /\ startPc \in [StartCalls -> StartPcs]
  /\ startGen \in [StartCalls -> Nat]
  /\ startReq \in [StartCalls -> SUBSET Sources]
  /\ startErr \in [StartCalls -> Sources]
  /\ startDone \in [StartCalls -> BOOLEAN]
  /\ startDog \in [StartCalls -> DogPcs]
  /\ stopPc \in [StopCalls -> StopPcs]
  /\ stopGen \in [StopCalls -> Nat]
  /\ stopHeld \in [StopCalls -> SUBSET Pipes]
  /\ stopDone \in [StopCalls -> BOOLEAN]
  /\ stopDog \in [StopCalls -> DogPcs]
  /\ taskPc \in [Tasks -> TaskPcs]
  /\ taskSrc \in [Tasks -> Sources]
  /\ taskGen \in [Tasks -> Nat]
  /\ taskFrom \in [Tasks -> Pipes \cup {NoPipe}]
  /\ taskRetry \in [Tasks -> BOOLEAN]
  /\ shutPc \in {"new", "take", "dropping", "done"}

Init ==
  /\ generation = 0
  /\ capture = "idle"
  /\ source \in [Sources -> IF "enumeration" \in Events THEN {"idle", "unavailable"}
                            ELSE {"idle"}]
  /\ open = FALSE
  /\ slot = [s \in Sources |-> NoPipe]
  /\ used = [s \in Sources |-> 0]
  /\ health = [s \in Sources |-> "unset"]
  /\ micRequested = FALSE
  /\ pipe = [p \in Pipes |-> "none"]
  /\ raised = [p \in Pipes |-> {}]
  /\ signal = [p \in Pipes |-> "none"]
  /\ startPc = [c \in StartCalls |-> "new"]
  /\ startGen = [c \in StartCalls |-> 0]
  /\ startReq = [c \in StartCalls |-> {}]
  /\ startErr = [c \in StartCalls |-> "microphone"]
  /\ startDone = [c \in StartCalls |-> FALSE]
  /\ startDog = [c \in StartCalls |-> "off"]
  /\ stopPc = [c \in StopCalls |-> "new"]
  /\ stopGen = [c \in StopCalls |-> 0]
  /\ stopHeld = [c \in StopCalls |-> {}]
  /\ stopDone = [c \in StopCalls |-> FALSE]
  /\ stopDog = [c \in StopCalls |-> "off"]
  /\ taskPc = [t \in Tasks |-> "free"]
  /\ taskSrc = [t \in Tasks |-> "microphone"]
  /\ taskGen = [t \in Tasks |-> 0]
  /\ taskFrom = [t \in Tasks |-> NoPipe]
  /\ taskRetry = [t \in Tasks |-> FALSE]
  /\ shutPc = "new"

-----------------------------------------------------------------------------
(* Shared vocabulary *)

PipeGen(p) == IF p[1] \in StartCalls THEN startGen[p[1]] ELSE taskGen[p[1]]
InSlots == {slot[s] : s \in Sources} \ {NoPipe}

(* The session mutex is held across a thread join in three places: the     *)
(* session replaced by a start, the source overwritten by a recovery, and  *)
(* shutdown.  Everything else holds it only inside one action.             *)
SessionFree ==
  /\ \A c \in StartCalls : startPc[c] # "dropping"
  /\ \A t \in Tasks : taskPc[t] # "dropping"
  /\ shutPc # "dropping"

(* commit_terminal takes the session mutex inside its state section; while *)
(* it waits there, nobody else gets past the state mutex.                  *)
StateFree == \A t \in Tasks : taskPc[t] # "survey"

(* A join returns once the joined threads have left their callbacks.       *)
QuietHandlers(P) == \A t \in Tasks : taskFrom[t] \notin P  \* mutant of Quiet
Quiet(P) ==
  /\ \A t \in Tasks : taskFrom[t] \notin P
  /\ \A p \in P : signal[p] \notin {"checked", "marked"}

SetPipes(P, life) == pipe' = [p \in Pipes |-> IF p \in P THEN life ELSE pipe[p]]

\* mutant of EmptySession: the system source stays in the session
EmptiesMicrophoneOnly ==
  /\ open' = FALSE
  /\ slot' = [slot EXCEPT !["microphone"] = NoPipe]
  /\ used' = [s \in Sources |-> 0]
  /\ health' = [s \in Sources |-> "unset"]
  /\ micRequested' = FALSE

EmptySession ==
  /\ open' = FALSE
  /\ slot' = [s \in Sources |-> NoPipe]
  /\ used' = [s \in Sources |-> 0]
  /\ health' = [s \in Sources |-> "unset"]
  /\ micRequested' = FALSE

-----------------------------------------------------------------------------
(* start_capture *)

StartPipe(c, s) == <<c, s>>
\* mutant of OpenedBy: the system pipeline is forgotten
OpenedMicrophone(o) == {p \in Pipes : p = <<o, "microphone">> /\ pipe[p] = "live"}
OpenedBy(o) == {p \in Pipes : p[1] = o /\ pipe[p] = "live"}
StartIsCurrent(c) == generation = startGen[c]
GoStart(c, pc) == startPc' = [startPc EXCEPT ![c] = pc]

CanStartWhileListening == capture \notin {"starting", "stopping"}  \* mutant of CanStart
CanStart == capture \in {"idle", "error"}

StartRejected(c, req) ==
  /\ startPc[c] = "new"
  /\ StateFree
  /\ req = {} \/ ~CanStart
  /\ GoStart(c, "rejected")
  /\ UNCHANGED <<generation, stateVars, sessionVars, pipeVars, startGen, startReq,
                 startErr, startDone, startDog, stopVars, taskVars, shutPc>>

StartBegin(c, req) ==
  /\ startPc[c] = "new"
  /\ StateFree
  /\ req # {}
  /\ CanStart
  /\ generation' = generation + 1
  /\ startGen' = [startGen EXCEPT ![c] = generation + 1]
  /\ startReq' = [startReq EXCEPT ![c] = req]
  /\ capture' = "starting"
  /\ source' = [s \in Sources |-> IF s \in req THEN "starting" ELSE source[s]]
  /\ GoStart(c, "model")
  /\ UNCHANGED <<sessionVars, pipeVars, startErr, startDone, startDog, stopVars,
                 taskVars, shutPc>>

(* An error without a source is charged to the microphone by fail_starting. *)
StartModelFails(c) ==
  /\ startPc[c] = "model"
  /\ "failed start" \in Events
  /\ GoStart(c, "failCheck")
  /\ startErr' = [startErr EXCEPT ![c] = "microphone"]
  /\ UNCHANGED <<generation, stateVars, sessionVars, pipeVars, startGen, startReq,
                 startDone, startDog, stopVars, taskVars, shutPc>>

(* The watchdog is armed here, after the model is loaded, and only when    *)
(* the microphone was requested.                                           *)
StartModelReady(c) ==
  /\ startPc[c] = "model"
  /\ \/ /\ ~StartIsCurrent(c)
        /\ GoStart(c, "failed")
        /\ UNCHANGED startDog
     \/ /\ StartIsCurrent(c)
        /\ "microphone" \in startReq[c]
        /\ GoStart(c, "mic")
        /\ startDog' = [startDog EXCEPT ![c] = "armed"]
     \/ /\ StartIsCurrent(c)
        /\ "microphone" \notin startReq[c]
        /\ GoStart(c, "sys")
        /\ UNCHANGED startDog
  /\ UNCHANGED <<generation, stateVars, sessionVars, pipeVars, startGen, startReq,
                 startErr, startDone, stopVars, taskVars, shutPc>>

StartMicFails(c) ==
  /\ startPc[c] = "mic"
  /\ "failed start" \in Events
  /\ GoStart(c, "failCheck")
  /\ startErr' = [startErr EXCEPT ![c] = "microphone"]
  /\ startDone' = [startDone EXCEPT ![c] = TRUE]
  /\ UNCHANGED <<generation, stateVars, sessionVars, pipeVars, startGen, startReq,
                 startDog, stopVars, taskVars, shutPc>>

(* A device acquired for a superseded start is released on the spot.       *)
StartMicOpens(c) ==
  /\ startPc[c] = "mic"
  /\ \/ /\ StartIsCurrent(c)
        /\ SetPipes({StartPipe(c, "microphone")}, "live")
        /\ GoStart(c, "micUp")
        /\ UNCHANGED startDone
     \/ /\ ~StartIsCurrent(c)
        /\ SetPipes({StartPipe(c, "microphone")}, "released")
        /\ GoStart(c, "failed")
        /\ startDone' = [startDone EXCEPT ![c] = TRUE]
  /\ UNCHANGED <<generation, stateVars, sessionVars, raised, signal, startGen,
                 startReq, startErr, startDog, stopVars, taskVars, shutPc>>

StartMicDone(c) ==
  /\ startPc[c] = "micUp"
  /\ startDone' = [startDone EXCEPT ![c] = TRUE]
  /\ GoStart(c, IF "system" \in startReq[c] THEN "sys" ELSE "check")
  /\ UNCHANGED <<generation, stateVars, sessionVars, pipeVars, startGen, startReq,
                 startErr, startDog, stopVars, taskVars, shutPc>>

(* probe() or start() of the system backend fails: the microphone opened   *)
(* by this call is joined before the failure is reported.                  *)
StartSysFails(c) ==
  /\ startPc[c] = "sys"
  /\ "failed start" \in Events
  /\ Quiet(OpenedBy(c))
  /\ SetPipes(OpenedBy(c), "released")
  /\ GoStart(c, "failCheck")
  /\ startErr' = [startErr EXCEPT ![c] = "system"]
  /\ UNCHANGED <<generation, stateVars, sessionVars, raised, signal, startGen,
                 startReq, startDone, startDog, stopVars, taskVars, shutPc>>

StartSysOpens(c) ==
  /\ startPc[c] = "sys"
  /\ \/ /\ StartIsCurrent(c)
        /\ SetPipes({StartPipe(c, "system")}, "live")
        /\ GoStart(c, "check")
     \/ /\ ~StartIsCurrent(c)
        /\ Quiet(OpenedBy(c))
        /\ SetPipes(OpenedBy(c) \cup {StartPipe(c, "system")}, "released")
        /\ GoStart(c, "failed")
  /\ UNCHANGED <<generation, stateVars, sessionVars, raised, signal, startGen,
                 startReq, startErr, startDone, startDog, stopVars, taskVars, shutPc>>

StartCheck(c) ==
  /\ startPc[c] = "check"
  /\ \/ /\ StartIsCurrent(c)
        /\ GoStart(c, "install")
        /\ UNCHANGED pipe
     \/ /\ ~StartIsCurrent(c)
        /\ Quiet(OpenedBy(c))
        /\ SetPipes(OpenedBy(c), "released")
        /\ GoStart(c, "failed")
  /\ UNCHANGED <<generation, stateVars, sessionVars, raised, signal, startGen,
                 startReq, startErr, startDone, startDog, stopVars, taskVars, shutPc>>

(* Assigning over an existing session drops it, joins included, while the  *)
(* session mutex is held.                                                  *)
StartInstall(c) ==
  /\ startPc[c] = "install"
  /\ SessionFree
  /\ open' = TRUE
  /\ slot' = [s \in Sources |-> IF s \in startReq[c] THEN StartPipe(c, s) ELSE NoPipe]
  /\ used' = [s \in Sources |-> 0]
  /\ health' = [s \in Sources |-> "unset"]
  /\ micRequested' = ("microphone" \in startReq[c])
  /\ SetPipes(InSlots, "dropped")
  /\ GoStart(c, IF InSlots = {} THEN "commit" ELSE "dropping")
  /\ UNCHANGED <<generation, stateVars, raised, signal, startGen, startReq,
                 startErr, startDone, startDog, stopVars, taskVars, shutPc>>

Dropped == {p \in Pipes : pipe[p] = "dropped"}

StartDropped(c) ==
  /\ startPc[c] = "dropping"
  /\ Quiet(Dropped)
  /\ SetPipes(Dropped, "released")
  /\ GoStart(c, "commit")
  /\ UNCHANGED <<generation, stateVars, sessionVars, raised, signal, startGen,
                 startReq, startErr, startDone, startDog, stopVars, taskVars, shutPc>>

StartCommit(c) ==
  /\ startPc[c] = "commit"
  /\ StateFree
  /\ source' = [s \in Sources |-> IF s \in startReq[c] THEN "waiting" ELSE source[s]]
  /\ capture' = "listening"
  /\ GoStart(c, "listening")
  /\ UNCHANGED <<generation, sessionVars, pipeVars, startGen, startReq, startErr,
                 startDone, startDog, stopVars, taskVars, shutPc>>

(* fail_starting: look at the generation, then a state section *)
StartFailCheck(c) ==
  /\ startPc[c] = "failCheck"
  /\ GoStart(c, IF StartIsCurrent(c) THEN "failApply" ELSE "failed")
  /\ UNCHANGED <<generation, stateVars, sessionVars, pipeVars, startGen, startReq,
                 startErr, startDone, startDog, stopVars, taskVars, shutPc>>

StartFailApply(c) ==
  /\ startPc[c] = "failApply"
  /\ StateFree
  /\ source' = [s \in Sources |-> IF s = startErr[c] THEN "error"
                                  ELSE IF source[s] = "starting" THEN "idle"
                                  ELSE source[s]]
  /\ capture' = "error"
  /\ GoStart(c, "failed")
  /\ UNCHANGED <<generation, sessionVars, pipeVars, startGen, startReq, startErr,
                 startDone, startDog, stopVars, taskVars, shutPc>>

(* The starting watchdog: read the completion flag, move the generation on *)
(* if it is still the start's own, report the failure.                     *)
StartDogBites(c) == startDone[c]  \* mutant of StartOverdue: the flag read backwards
StartOverdue(c) == ~startDone[c]

StartDogExpires(c) ==
  /\ "slow start" \in Events
  /\ startDog[c] = "armed"
  /\ StartOverdue(c)
  /\ startDog' = [startDog EXCEPT ![c] = "late"]
  /\ UNCHANGED <<generation, stateVars, sessionVars, pipeVars, startPc, startGen,
                 startReq, startErr, startDone, stopVars, taskVars, shutPc>>

StartDogExchanges(c) ==
  /\ startDog[c] = "late"
  /\ \/ /\ StartIsCurrent(c)
        /\ generation' = generation + 1
        /\ startDog' = [startDog EXCEPT ![c] = "won"]
     \/ /\ ~StartIsCurrent(c)
        /\ startDog' = [startDog EXCEPT ![c] = "done"]
        /\ UNCHANGED generation
  /\ UNCHANGED <<stateVars, sessionVars, pipeVars, startPc, startGen, startReq,
                 startErr, startDone, stopVars, taskVars, shutPc>>

StartDogCommits(c) ==
  /\ startDog[c] = "won"
  /\ StateFree
  /\ startDog' = [startDog EXCEPT ![c] = "done"]
  /\ source' = [source EXCEPT !["microphone"] = "error"]
  /\ capture' = "error"
  /\ UNCHANGED <<generation, sessionVars, pipeVars, startPc, startGen, startReq,
                 startErr, startDone, stopVars, taskVars, shutPc>>

-----------------------------------------------------------------------------
(* stop_capture *)

StopIsCurrent(c) == generation = stopGen[c]
GoStop(c, pc) == stopPc' = [stopPc EXCEPT ![c] = pc]

StopBegin(c) ==
  /\ stopPc[c] = "new"
  /\ generation' = generation + 1
  /\ stopGen' = [stopGen EXCEPT ![c] = generation + 1]
  /\ GoStop(c, "look")
  /\ UNCHANGED <<stateVars, sessionVars, pipeVars, startVars, stopHeld, stopDone,
                 stopDog, taskVars, shutPc>>

StopLook(c) ==
  /\ stopPc[c] = "look"
  /\ StateFree
  /\ GoStop(c, IF capture = "idle" THEN "rejected" ELSE "take")
  /\ UNCHANGED <<generation, stateVars, sessionVars, pipeVars, startVars, stopGen,
                 stopHeld, stopDone, stopDog, taskVars, shutPc>>

StopTake(c) ==
  /\ stopPc[c] = "take"
  /\ SessionFree
  /\ stopHeld' = [stopHeld EXCEPT ![c] = InSlots]
  /\ EmptySession
  /\ GoStop(c, "apply")
  /\ UNCHANGED <<generation, stateVars, pipeVars, startVars, stopGen, stopDone,
                 stopDog, taskVars, shutPc>>

(* With nothing to join there is nothing for the watchdog to outlast.      *)
StopApply(c) ==
  /\ stopPc[c] = "apply"
  /\ StateFree
  /\ capture' = "stopping"
  /\ \/ /\ stopHeld[c] = {}
        /\ GoStop(c, "check")
        /\ UNCHANGED stopDog
     \/ /\ stopHeld[c] # {}
        /\ GoStop(c, "joining")
        /\ stopDog' = [stopDog EXCEPT ![c] = "armed"]
  /\ UNCHANGED <<generation, source, sessionVars, pipeVars, startVars, stopGen,
                 stopHeld, stopDone, taskVars, shutPc>>

StopJoined(c) ==
  /\ stopPc[c] = "joining"
  /\ Quiet(stopHeld[c])
  /\ SetPipes(stopHeld[c], "released")
  /\ stopHeld' = [stopHeld EXCEPT ![c] = {}]
  /\ stopDone' = [stopDone EXCEPT ![c] = TRUE]
  /\ GoStop(c, "check")
  /\ UNCHANGED <<generation, stateVars, sessionVars, raised, signal, startVars,
                 stopGen, stopDog, taskVars, shutPc>>

StopCheck(c) ==
  /\ stopPc[c] = "check"
  /\ GoStop(c, IF StopIsCurrent(c) THEN "commit" ELSE "superseded")
  /\ UNCHANGED <<generation, stateVars, sessionVars, pipeVars, startVars, stopGen,
                 stopHeld, stopDone, stopDog, taskVars, shutPc>>

StopCommit(c) ==
  /\ stopPc[c] = "commit"
  /\ StateFree
  /\ source' = [s \in Sources |-> IF source[s] = "unavailable" THEN source[s] ELSE "idle"]
  /\ capture' = "idle"
  /\ GoStop(c, "stopped")
  /\ UNCHANGED <<generation, sessionVars, pipeVars, startVars, stopGen, stopHeld,
                 stopDone, stopDog, taskVars, shutPc>>

(* The stopping watchdog looks at the completion flag and nothing else.    *)
StopDogBites(c) == stopDone[c]  \* mutant of StopOverdue: the flag read backwards
StopOverdue(c) == ~stopDone[c]

StopDogExpires(c) ==
  /\ "slow stop" \in Events
  /\ stopDog[c] = "armed"
  /\ StopOverdue(c)
  /\ stopDog' = [stopDog EXCEPT ![c] = "late"]
  /\ UNCHANGED <<generation, stateVars, sessionVars, pipeVars, startVars, stopPc,
                 stopGen, stopHeld, stopDone, taskVars, shutPc>>

StopDogCommits(c) ==
  /\ stopDog[c] = "late"
  /\ StateFree
  /\ stopDog' = [stopDog EXCEPT ![c] = "done"]
  /\ capture' = "idle"
  /\ UNCHANGED <<generation, source, sessionVars, pipeVars, startVars, stopPc,
                 stopGen, stopHeld, stopDone, taskVars, shutPc>>

-----------------------------------------------------------------------------
(* shutdown: take the session and join it under its mutex *)

ShutdownBegin ==
  /\ "shutdown" \in Events
  /\ shutPc = "new"
  /\ generation' = generation + 1
  /\ shutPc' = "take"
  /\ UNCHANGED <<stateVars, sessionVars, pipeVars, startVars, stopVars, taskVars>>

ShutdownTake ==
  /\ shutPc = "take"
  /\ SessionFree
  /\ EmptySession
  /\ SetPipes(InSlots, "dropped")
  /\ shutPc' = IF InSlots = {} THEN "done" ELSE "dropping"
  /\ UNCHANGED <<generation, stateVars, raised, signal, startVars, stopVars, taskVars>>

ShutdownJoined ==
  /\ shutPc = "dropping"
  /\ Quiet(Dropped)
  /\ SetPipes(Dropped, "released")
  /\ shutPc' = "done"
  /\ UNCHANGED <<generation, stateVars, sessionVars, raised, signal, startVars,
                 stopVars, taskVars>>

-----------------------------------------------------------------------------
(* Callbacks of a running pipeline *)

(* The microphone's monitor reports faults and first signal from one loop, *)
(* and a fault ends the loop; of system audio the adapter's thread reports *)
(* the fault and the monitor goes on.                                      *)
OneThread(p) == p[2] = "microphone"

(* A monitor or worker thread reports that its source broke.  The handler  *)
(* runs on the reporting thread, so the pipeline cannot be joined before   *)
(* the handler is done with it.  A worker can still fail while it drains.  *)
(* The error's code says whether the source may be retried.                *)
Raise(p, thread, retry, t) ==
  /\ taskPc[t] = "free"
  /\ thread \notin raised[p]
  /\ retry \in FaultRetries(p[2], thread)
  /\ \/ /\ thread = "monitor"
        /\ "monitor fault" \in Events
        /\ pipe[p] = "live"
        /\ OneThread(p) => signal[p] \notin {"checked", "marked"}
     \/ /\ thread = "worker"
        /\ "worker fault" \in Events
        /\ pipe[p] \in {"live", "dropped", "abandoned"}
  /\ raised' = [raised EXCEPT ![p] = @ \cup {thread}]
  /\ taskPc' = [taskPc EXCEPT ![t] = "check"]
  /\ taskSrc' = [taskSrc EXCEPT ![t] = p[2]]
  /\ taskGen' = [taskGen EXCEPT ![t] = PipeGen(p)]
  /\ taskFrom' = [taskFrom EXCEPT ![t] = p]
  /\ taskRetry' = [taskRetry EXCEPT ![t] = retry]
  /\ UNCHANGED <<generation, stateVars, sessionVars, pipe, signal, startVars,
                 stopVars, shutPc>>

SignalEvent == [microphone |-> "microphone signal", system |-> "system signal"]

(* on_first_signal: generation, then a state section, then a session       *)
(* section.  A stale callback returns at once; a pipeline that is being    *)
(* torn down drains what is queued and may still be heard.                 *)
SignalCheck(p) ==
  /\ SignalEvent[p[2]] \in Events
  /\ pipe[p] \in {"live", "dropped", "abandoned"}
  /\ OneThread(p) => "monitor" \notin raised[p]
  /\ signal[p] = "none"
  /\ PipeGen(p) = generation
  /\ signal' = [signal EXCEPT ![p] = "checked"]
  /\ UNCHANGED <<generation, stateVars, sessionVars, pipe, raised, startVars,
                 stopVars, taskVars, shutPc>>

SignalMark(p) ==
  /\ signal[p] = "checked"
  /\ StateFree
  /\ source' = [source EXCEPT ![p[2]] = "receiving"]
  /\ signal' = [signal EXCEPT ![p] = "marked"]
  /\ UNCHANGED <<generation, capture, sessionVars, pipe, raised, startVars,
                 stopVars, taskVars, shutPc>>

SignalHealth(p) ==
  /\ signal[p] = "marked"
  /\ SessionFree
  /\ health' = IF open THEN [health EXCEPT ![p[2]] = "young"] ELSE health
  /\ signal' = [signal EXCEPT ![p] = "done"]
  /\ UNCHANGED <<generation, stateVars, open, slot, used, micRequested, pipe,
                 raised, startVars, stopVars, taskVars, shutPc>>

(* healthy_reset elapses *)
HealthAges(s) ==
  /\ health[s] = "young"
  /\ health' = [health EXCEPT ![s] = "aged"]
  /\ UNCHANGED <<generation, stateVars, open, slot, used, micRequested, pipeVars,
                 startVars, stopVars, taskVars, shutPc>>

-----------------------------------------------------------------------------
(* handle_source_runtime_error *)

TaskIsCurrent(t) == generation = taskGen[t]

(* The end of a handler or recovery attempt also ends its hold on the      *)
(* thread it runs on.                                                      *)
GoTask(t, pc) ==
  /\ taskPc' = [taskPc EXCEPT ![t] = pc]
  /\ taskFrom' = [taskFrom EXCEPT ![t] = IF pc \in {"done", "backoff"} THEN NoPipe ELSE @]

TaskCheck(t) ==
  /\ taskPc[t] = "check"
  /\ GoTask(t, IF TaskIsCurrent(t) THEN "session" ELSE "done")
  /\ UNCHANGED <<generation, stateVars, sessionVars, pipeVars, startVars, stopVars,
                 taskSrc, taskGen, taskRetry, shutPc>>

(* One session section: forget the attempts of an old outage, take the     *)
(* source whatever pipeline is in its slot, spend an attempt if one is     *)
(* left.  The pipeline taken is abandoned on another thread.               *)
AttemptsForgotten(s) == 0  \* mutant of AttemptsBase: the budget is never charged
AttemptsBase(s) == IF health[s] = "aged" THEN 0 ELSE used[s]

AttemptLeft(s) == AttemptsBase(s) < MaxAttempts

ReplacesNothing(s) == {}  \* mutant of Replaced: the old pipeline is not torn down
Replaced(s) == {slot[s]} \ {NoPipe}

TaskSession(t) ==
  LET s == taskSrc[t]
      retry == taskRetry[t] /\ AttemptLeft(s)
  IN  /\ taskPc[t] = "session"
      /\ SessionFree
      /\ \/ /\ ~open
            /\ GoTask(t, "done")
            /\ UNCHANGED <<sessionVars, pipe>>
         \/ /\ open
            /\ health' = [health EXCEPT ![s] = "unset"]
            /\ slot' = [slot EXCEPT ![s] = NoPipe]
            /\ SetPipes(Replaced(s), "abandoned")
            /\ used' = [used EXCEPT ![s] = IF retry THEN AttemptsBase(s) + 1
                                           ELSE AttemptsBase(s)]
            /\ GoTask(t, IF retry THEN "status" ELSE "terminal")
            /\ UNCHANGED <<open, micRequested>>
      /\ UNCHANGED <<generation, stateVars, raised, signal, startVars, stopVars,
                     taskSrc, taskGen, taskRetry, shutPc>>

TaskStatus(t) ==
  /\ taskPc[t] = "status"
  /\ (taskSrc[t] = "microphone" => SessionFree)
  /\ StateFree
  /\ source' = [source EXCEPT ![taskSrc[t]] = "starting"]
  /\ GoTask(t, "backoff")
  /\ UNCHANGED <<generation, capture, sessionVars, pipeVars, startVars, stopVars,
                 taskSrc, taskGen, taskRetry, shutPc>>

(* commit_terminal: enter the state section, then look for a surviving     *)
(* source in the session before leaving it.                                *)
HasSurvivor == InSlots # {}

TaskTerminal(t) ==
  /\ taskPc[t] = "terminal"
  /\ StateFree
  /\ GoTask(t, "survey")
  /\ UNCHANGED <<generation, stateVars, sessionVars, pipeVars, startVars, stopVars,
                 taskSrc, taskGen, taskRetry, shutPc>>

TaskSurvey(t) ==
  /\ taskPc[t] = "survey"
  /\ SessionFree
  /\ source' = [source EXCEPT ![taskSrc[t]] = "error"]
  /\ capture' = IF HasSurvivor THEN capture ELSE "error"
  /\ GoTask(t, "done")
  /\ UNCHANGED <<generation, sessionVars, pipeVars, startVars, stopVars, taskSrc,
                 taskGen, taskRetry, shutPc>>

(* A pipeline no slot refers to any more finishes joining.                 *)
AbandonJoined(p) ==
  /\ pipe[p] = "abandoned"
  /\ Quiet({p})
  /\ SetPipes({p}, "released")
  /\ UNCHANGED <<generation, stateVars, sessionVars, raised, signal, startVars,
                 stopVars, taskVars, shutPc>>

-----------------------------------------------------------------------------
(* run_recovery_attempt *)

TaskBackoff(t) ==
  /\ taskPc[t] = "backoff"
  /\ GoTask(t, IF TaskIsCurrent(t) THEN "context" ELSE "done")
  /\ UNCHANGED <<generation, stateVars, sessionVars, pipeVars, startVars, stopVars,
                 taskSrc, taskGen, taskRetry, shutPc>>

TaskContext(t) ==
  /\ taskPc[t] = "context"
  /\ SessionFree
  /\ GoTask(t, IF open /\ (taskSrc[t] = "microphone" => micRequested)
               THEN "restart" ELSE "done")
  /\ UNCHANGED <<generation, stateVars, sessionVars, pipeVars, startVars, stopVars,
                 taskSrc, taskGen, taskRetry, shutPc>>

TaskPipe(t) == <<t, taskSrc[t]>>

TaskRestartOpens(t) ==
  /\ taskPc[t] = "restart"
  /\ \/ /\ TaskIsCurrent(t)
        /\ SetPipes({TaskPipe(t)}, "live")
        /\ GoTask(t, "opened")
     \/ /\ ~TaskIsCurrent(t)
        /\ SetPipes({TaskPipe(t)}, "released")
        /\ GoTask(t, "done")
  /\ UNCHANGED <<generation, stateVars, sessionVars, raised, signal, startVars,
                 stopVars, taskSrc, taskGen, taskRetry, shutPc>>

(* A failed attempt re-enters the handler with its own error.              *)
TaskRestartFails(t, retry) ==
  /\ taskPc[t] = "restart"
  /\ "failed start" \in Events
  /\ retry \in OpeningRetries(taskSrc[t])
  /\ GoTask(t, "check")
  /\ taskRetry' = [taskRetry EXCEPT ![t] = retry]
  /\ UNCHANGED <<generation, stateVars, sessionVars, pipeVars, startVars, stopVars,
                 taskSrc, taskGen, shutPc>>

TaskPanics(t) ==
  /\ "panic" \in Events
  /\ taskPc[t] = "restart"
  /\ GoTask(t, "panicked")
  /\ UNCHANGED <<generation, stateVars, sessionVars, pipeVars, startVars, stopVars,
                 taskSrc, taskGen, taskRetry, shutPc>>

\* mutant of TaskPanicCheck: the panic is caught and forgotten
TaskPanicIgnored(t) ==
  /\ taskPc[t] = "panicked"
  /\ GoTask(t, "done")
  /\ UNCHANGED <<generation, stateVars, sessionVars, pipeVars, startVars, stopVars,
                 taskSrc, taskGen, taskRetry, shutPc>>

TaskPanicCheck(t) ==
  /\ taskPc[t] = "panicked"
  /\ GoTask(t, IF TaskIsCurrent(t) THEN "terminal" ELSE "done")
  /\ UNCHANGED <<generation, stateVars, sessionVars, pipeVars, startVars, stopVars,
                 taskSrc, taskGen, taskRetry, shutPc>>

(* Whatever a superseded attempt opened is dropped by its own thread.      *)
TaskOpened(t) ==
  /\ taskPc[t] = "opened"
  /\ \/ /\ TaskIsCurrent(t)
        /\ GoTask(t, "install")
        /\ UNCHANGED pipe
     \/ /\ ~TaskIsCurrent(t)
        /\ SetPipes({TaskPipe(t)}, "abandoned")
        /\ GoTask(t, "done")
  /\ UNCHANGED <<generation, stateVars, sessionVars, raised, signal, startVars,
                 stopVars, taskSrc, taskGen, taskRetry, shutPc>>

(* The session section that installs does not look at the generation.      *)
TaskInstall(t) ==
  LET s == taskSrc[t]
  IN  /\ taskPc[t] = "install"
      /\ SessionFree
      /\ \/ /\ ~open
            /\ SetPipes({TaskPipe(t)}, "abandoned")
            /\ GoTask(t, "done")
            /\ UNCHANGED slot
         \/ /\ open
            /\ slot' = [slot EXCEPT ![s] = TaskPipe(t)]
            /\ SetPipes(Replaced(s), "dropped")
            /\ GoTask(t, IF slot[s] = NoPipe THEN "resumed" ELSE "dropping")
      /\ UNCHANGED <<generation, stateVars, open, used, health, micRequested, raised,
                     signal, startVars, stopVars, taskSrc, taskGen, taskRetry, shutPc>>

TaskDropped(t) ==
  /\ taskPc[t] = "dropping"
  /\ Quiet(Dropped)
  /\ SetPipes(Dropped, "released")
  /\ GoTask(t, "resumed")
  /\ UNCHANGED <<generation, stateVars, sessionVars, raised, signal, startVars,
                 stopVars, taskSrc, taskGen, taskRetry, shutPc>>

TaskResumed(t) ==
  /\ taskPc[t] = "resumed"
  /\ StateFree
  /\ source' = [source EXCEPT ![taskSrc[t]] = "waiting"]
  /\ GoTask(t, "done")
  /\ UNCHANGED <<generation, capture, sessionVars, pipeVars, startVars, stopVars,
                 taskSrc, taskGen, taskRetry, shutPc>>

-----------------------------------------------------------------------------
(* list_microphones reconciles availability with the devices it found.     *)
ListMicrophones(found) ==
  /\ "enumeration" \in Events
  /\ StateFree
  /\ \/ /\ source["microphone"] = "unavailable"
        /\ found
        /\ source' = [source EXCEPT !["microphone"] = "idle"]
     \/ /\ source["microphone"] # "unavailable"
        /\ ~found
        /\ capture = "idle"
        /\ source' = [source EXCEPT !["microphone"] = "unavailable"]
  /\ UNCHANGED <<generation, capture, sessionVars, pipeVars, startVars, stopVars,
                 taskVars, shutPc>>

-----------------------------------------------------------------------------
StartModelReturns(c) == StartModelFails(c) \/ StartModelReady(c)
StartMicReturns(c) == StartMicFails(c) \/ StartMicOpens(c)
StartSysReturns(c) == StartSysFails(c) \/ StartSysOpens(c)

(* The steps of a start that wait for nothing outside the manager *)
StartThread(c) ==
  \/ StartMicDone(c) \/ StartCheck(c)
  \/ StartInstall(c) \/ StartDropped(c) \/ StartCommit(c)
  \/ StartFailCheck(c) \/ StartFailApply(c)

StartStep(c) ==
  StartModelReturns(c) \/ StartMicReturns(c) \/ StartSysReturns(c) \/ StartThread(c)

StartDogStep(c) == StartDogExpires(c) \/ StartDogExchanges(c) \/ StartDogCommits(c)

StopThread(c) ==
  StopLook(c) \/ StopTake(c) \/ StopApply(c) \/ StopCheck(c) \/ StopCommit(c)

StopStep(c) == StopThread(c) \/ StopJoined(c)

StopDogStep(c) == StopDogExpires(c) \/ StopDogCommits(c)

ShutdownStep == ShutdownTake \/ ShutdownJoined

HandlerStep(t) ==
  \/ TaskCheck(t) \/ TaskSession(t) \/ TaskStatus(t)
  \/ TaskTerminal(t) \/ TaskSurvey(t)

RecoveryStep(t) ==
  \/ TaskBackoff(t) \/ TaskContext(t)
  \/ TaskRestartOpens(t) \/ TaskPanics(t)
  \/ \E retry \in BOOLEAN : TaskRestartFails(t, retry)
  \/ TaskPanicCheck(t)
  \/ TaskOpened(t) \/ TaskInstall(t) \/ TaskDropped(t) \/ TaskResumed(t)

SignalStep(p) == SignalCheck(p) \/ SignalMark(p) \/ SignalHealth(p)

PipeStep(p) ==
  \/ SignalStep(p) \/ AbandonJoined(p)
  \/ \E thread \in {"monitor", "worker"}, retry \in BOOLEAN, t \in Tasks :
       Raise(p, thread, retry, t)

(* Everything but the arrival of a command *)
InternalStep ==
  \/ \E c \in StartCalls : StartStep(c) \/ StartDogStep(c)
  \/ \E c \in StopCalls : StopStep(c) \/ StopDogStep(c)
  \/ ShutdownBegin \/ ShutdownStep
  \/ \E t \in Tasks : HandlerStep(t) \/ RecoveryStep(t)
  \/ \E p \in Pipes : PipeStep(p)
  \/ \E s \in Sources : HealthAges(s)
  \/ \E found \in BOOLEAN : ListMicrophones(found)

Next ==
  \/ \E c \in StartCalls, req \in Requests : StartRejected(c, req)
  \/ \E c \in StartCalls, req \in Requests : StartBegin(c, req)
  \/ \E c \in StopCalls : StopBegin(c)
  \/ InternalStep

Spec == Init /\ [][Next]_vars

-----------------------------------------------------------------------------
(* Fairness.  Threads are preemptive, mutexes are released, and timers run *)
(* out: a step that waits for nothing else is eventually taken.  Whether   *)
(* the model loader, a device or a join ever returns is assumed separately *)
(* for each property, because the watchdogs exist for the case they hang.  *)
ProgramRuns ==
  /\ \A c \in StartCalls : WF_vars(StartThread(c)) /\ WF_vars(StartDogStep(c))
  /\ \A c \in StopCalls : WF_vars(StopThread(c)) /\ WF_vars(StopDogStep(c))
  /\ \A t \in Tasks : WF_vars(HandlerStep(t)) /\ WF_vars(RecoveryStep(t))
  /\ \A p \in Pipes : WF_vars(SignalMark(p) \/ SignalHealth(p))
  /\ WF_vars(ShutdownStep)
ModelReturns == \A c \in StartCalls : WF_vars(StartModelReturns(c))
MicrophoneReturns == \A c \in StartCalls : WF_vars(StartMicReturns(c))
SystemAudioReturns == \A c \in StartCalls : WF_vars(StartSysReturns(c))

(* The microphone driver may hang; the rest answers.                       *)
SpecMicMayHang == Spec /\ ProgramRuns /\ ModelReturns /\ SystemAudioReturns
(* The model loader may hang; the devices answer.                          *)
SpecModelMayHang == Spec /\ ProgramRuns /\ MicrophoneReturns /\ SystemAudioReturns
(* Every blocking call answers.                                            *)
SpecFair == SpecMicMayHang /\ MicrophoneReturns

-----------------------------------------------------------------------------
(* Properties *)

Unowned(p) == pipe[p] \in {"none", "released"}

(* No call, watchdog, handler, recovery attempt or callback is under way.  *)
AtRest ==
  /\ \A c \in StartCalls :
       /\ startPc[c] \in {"new", "listening", "failed", "rejected"}
       /\ startDog[c] \notin {"late", "won"}
  /\ \A c \in StopCalls :
       /\ stopPc[c] \in {"new", "stopped", "superseded", "rejected"}
       /\ stopDog[c] # "late"
  /\ \A t \in Tasks : taskPc[t] \in {"free", "done"}
  /\ \A p \in Pipes :
       /\ pipe[p] # "abandoned"
       /\ signal[p] \notin {"checked", "marked"}
  /\ shutPc \in {"new", "done"}

Opening(p) ==
  \/ p[1] \in StartCalls /\ startPc[p[1]] \in {"micUp", "sys", "check", "install"}
  \/ p[1] \in Tasks /\ taskPc[p[1]] \in {"opened", "install"}
Stopping(p) == {c \in StopCalls : p \in stopHeld[c]}

(* Every running pipeline belongs to exactly one of: the call that opens   *)
(* it, the slot of its source in the session, one stop call that took the  *)
(* session.  Nothing start_capture, the recovery or stop_capture does      *)
(* leaves a device open that nobody will close, or has two closers.        *)
SingleOwner ==
  \A p \in Pipes :
    /\ p \in InSlots => pipe[p] = "live" /\ slot[p[2]] = p
    /\ Stopping(p) # {} => pipe[p] = "live"
    /\ pipe[p] = "live" =>
         \/ Opening(p) /\ p \notin InSlots /\ Stopping(p) = {}
         \/ ~Opening(p) /\ p \in InSlots /\ Stopping(p) = {}
         \/ ~Opening(p) /\ p \notin InSlots /\ \E c \in StopCalls : Stopping(p) = {c}

(* Atomic start: once start_capture has answered with an error, both       *)
(* sources it may have opened are closed again, whichever of the six exits *)
(* it took and whatever superseded it.                                     *)
AtomicStart ==
  \A c \in StartCalls, s \in Sources :
    startPc[c] = "failed" => Unowned(StartPipe(c, s))

(* Nothing leaks: while nothing is under way, only what the session holds  *)
(* is still open, whatever calls, recoveries and watchdogs came and went.  *)
OnlySessionRuns == AtRest => \A p \in Pipes : p \in InSlots \/ Unowned(p)

(* The manager implements PipelineOwnership: whatever interleaves, a       *)
(* pipeline moves from its opener to the session to one closer, is closed  *)
(* once and never comes back, and no source has two in the session.        *)
Stage(p) ==
  CASE pipe[p] = "live" /\ slot[p[2]] = p -> "installed"
    [] pipe[p] = "live" /\ slot[p[2]] # p /\ Opening(p) -> "opening"
    [] pipe[p] = "live" /\ slot[p[2]] # p /\ Stopping(p) # {} -> "closing"
    [] pipe[p] \in {"dropped", "abandoned"} -> "closing"
    [] OTHER -> pipe[p]
stages == [p \in Pipes |-> Stage(p)]
PO == INSTANCE PipelineOwnership WITH stage <- stages
RefinesOwnership == PO!Spec

(* While nothing is under way, "listening" means there is a session.       *)
ListeningIsAlive == AtRest /\ capture = "listening" => open

(* fail_starting leaves a source as it is whose first signal came before.  *)
HeardBeforeFailure(s) ==
  \E c \in StartCalls : startPc[c] = "failed" /\ signal[StartPipe(c, s)] = "done"

(* While nothing is under way, a source shown as capturing has a pipeline  *)
(* of the current generation in its slot, and that pipeline has reported   *)
(* no fault; the exception is a source heard before its start failed.      *)
CapturingIsAlive ==
  \A s \in Sources :
    AtRest /\ source[s] \in {"waiting", "receiving"} /\ ~HeardBeforeFailure(s) =>
      slot[s] # NoPipe /\ raised[slot[s]] = {} /\ PipeGen(slot[s]) = generation

(* While nothing is under way, "idle" means every device is released.      *)
IdleIsReleased == AtRest /\ capture = "idle" => \A p \in Pipes : Unowned(p)

(* While nothing is under way, "error" leaves no source running.           *)
ErrorIsDead == AtRest /\ capture = "error" => InSlots = {}

(* No transitional status outlives the calls and attempts it stands for.   *)
NothingPending ==
  AtRest => /\ capture \notin {"starting", "stopping"}
            /\ \A s \in Sources : source[s] # "starting"

(* Only one start_capture has been accepted so far.                        *)
FirstSession ==
  \A c, d \in StartCalls :
    startPc[c] \notin {"new", "rejected"} /\ startPc[d] \notin {"new", "rejected"} => c = d

(* Each recovery attempt under way in the session has been charged to the  *)
(* attempt budget of its source, as long as no source has been heard and   *)
(* may have earned its budget back.  Not so in a session that replaces     *)
(* another: a source of the new one that breaks before it is stored is     *)
(* charged to the session that goes.                                       *)
RecoveryPcs == {"status", "backoff", "context", "restart", "opened", "install",
                "dropping", "resumed"}
Attempts(s) ==
  {t \in Tasks : taskSrc[t] = s /\ TaskIsCurrent(t) /\ taskPc[t] \in RecoveryPcs}
RecoveriesPaidFor ==
  FirstSession /\ open /\ (\A p \in Pipes : signal[p] # "done") =>
    \A s \in Sources : Cardinality(Attempts(s)) <= used[s]

(* A start never stays in progress: the watchdog, a failure or a stop ends *)
(* it even if the microphone never answers.                                *)
StartingEnds == capture = "starting" ~> capture # "starting"

(* A source shown as reconnecting comes back, turns terminal or is stopped. *)
ReconnectingEnds ==
  \A s \in Sources : source[s] = "starting" ~> source[s] # "starting"

-----------------------------------------------------------------------------
(* What the documents say of this code and the code does not keep: each of *)
(* these is violated, in the instance the README names.                    *)

(* A start that another command superseded never installs its pipelines    *)
(* (spec 09, lifecycle rules; the last check of start_capture and the      *)
(* session section after it are two steps).                                *)
LateStartNeverInstalls ==
  [][\A c \in StartCalls :
       startPc[c] = "install" /\ startPc'[c] # "install" => StartIsCurrent(c)]_vars

(* The session is in error only when no source is still reconnecting       *)
(* (spec 10, recovery budget; commit_terminal looks at the slots only).    *)
ErrorOnlyWhenAllTerminal ==
  capture = "error" => \A s \in Sources : source[s] # "starting"

(* While the session listens, a source whose recovery has ended stays      *)
(* ended until the next command (spec 10; two handlers of one outage       *)
(* decide independently).                                                  *)
TerminalStaysTerminal ==
  [][\A s \in Sources :
       capture = "listening" /\ source[s] = "error" /\ generation' = generation =>
         source'[s] = "error"]_vars

(* After a failed start no source is shown as capturing (spec 10).         *)
FailureShowsNoCapture ==
  AtRest /\ capture = "error" => \A s \in Sources : source[s] \notin {"waiting", "receiving"}

(* After shutdown every device is released (spec 10, idempotency).         *)
ShutdownReleases == AtRest /\ shutPc = "done" => \A p \in Pipes : Unowned(p)

(* shutdown returns (spec 10: within a second, holding no lock across a    *)
(* join; the code joins under the session mutex).                          *)
ShutdownEnds == shutPc = "take" ~> shutPc = "done"
=============================================================================
