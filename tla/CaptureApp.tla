----------------------------- MODULE CaptureApp -----------------------------
(***************************************************************************)
(* The shipped application: the lifecycle manager driven by the buttons of *)
(* the transcript workspace.  The webview shows a copy of captureStatus    *)
(* that trails the manager's (status events and rendering take time), and  *)
(* the button offers Start only while the copy says idle and Stop only     *)
(* while it says listening (getCaptureActionPresentation).                 *)
(***************************************************************************)
EXTENDS RuntimeManager

VARIABLE shown   \* captureStatus of the last snapshot the webview rendered
appVars == <<vars, shown>>

AppTypeOK == TypeOK /\ shown \in CaptureStatuses

AppInit == Init /\ shown = "idle"

ClickStart(c, req) ==
  /\ shown = "idle"
  /\ StartBegin(c, req) \/ StartRejected(c, req)
  /\ UNCHANGED shown

\* mutant of ClickStop: the button is not disabled by the status
ClickStopAnytime(c) == StopBegin(c) /\ UNCHANGED shown

ClickStop(c) ==
  /\ shown = "listening"
  /\ StopBegin(c)
  /\ UNCHANGED shown

(* Snapshots carry revisions and the webview ignores older ones, so what   *)
(* it renders next is the manager's status at some later moment.           *)
Render ==
  /\ StateFree
  /\ shown # capture
  /\ shown' = capture
  /\ UNCHANGED vars

AppNext ==
  \/ \E c \in StartCalls, req \in Requests : ClickStart(c, req)
  \/ \E c \in StopCalls : ClickStop(c)
  \/ Render
  \/ InternalStep /\ UNCHANGED shown

AppSpec == AppInit /\ [][AppNext]_appVars

-----------------------------------------------------------------------------
(* Fairness of the program's threads, as in RuntimeManager.  The model     *)
(* loader and system audio answer; the microphone may never answer and the *)
(* joins of a stop never return: these the watchdogs are for.              *)
AppProgramRuns ==
  /\ \A c \in StartCalls :
       /\ WF_appVars(StartThread(c) /\ UNCHANGED shown)
       /\ WF_appVars(StartDogStep(c) /\ UNCHANGED shown)
  /\ \A c \in StopCalls :
       /\ WF_appVars(StopThread(c) /\ UNCHANGED shown)
       /\ WF_appVars(StopDogStep(c) /\ UNCHANGED shown)
  /\ \A t \in Tasks : WF_appVars(HandlerStep(t) /\ UNCHANGED shown)

AppDevicesAnswer ==
  \A c \in StartCalls :
    /\ WF_appVars(StartModelReturns(c) /\ UNCHANGED shown)
    /\ WF_appVars(StartSysReturns(c) /\ UNCHANGED shown)

AppSpecDriversMayHang == AppSpec /\ AppProgramRuns /\ AppDevicesAnswer

-----------------------------------------------------------------------------
(* Properties *)

(* A start that answered "listening" keeps its session and its status      *)
(* until the next command: nothing an older call still has to do reaches   *)
(* into it.                                                                *)
StartStands ==
  \A c \in StartCalls :
    startPc[c] = "listening" /\ StartIsCurrent(c) =>
      /\ capture = "listening"
      /\ \A s \in startReq[c] : slot[s] = StartPipe(c, s)

(* The webview is offered a button again: "stopping" ends even if the      *)
(* teardown hangs in a driver.                                             *)
StoppingEnds == capture = "stopping" ~> capture # "stopping"

(* "idle" is shown only after the teardown (spec 04).  Violated            *)
(* (second_stop_commits_idle.cfg): a second click on Stop finds no session *)
(* to join and commits Idle while the first one still joins.               *)
IdleAfterTeardown == capture = "idle" => \A c \in StopCalls : stopHeld[c] = {}
=============================================================================
