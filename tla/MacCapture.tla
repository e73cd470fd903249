------------------------------ MODULE MacCapture ------------------------------
(***************************************************************************)
(* The macOS adapter (crates/macos-system-audio): start() and stop() of a  *)
(* session on the caller's thread, the sample callback on the adapter's    *)
(* serial queue, and the delegate's didStopWithError on a queue of         *)
(* ScreenCaptureKit.  All three meet at the mutex `delivery`.              *)
(*                                                                         *)
(* The sink's on_error runs under that mutex and goes straight into the    *)
(* manager (start_system_source), which takes its session mutex: the       *)
(* caller of stop() may be holding it (shutdown) or not (the monitor).     *)
(* ScreenCaptureKit is external: completions may be late or never come.    *)
(***************************************************************************)
EXTENDS Naturals, Sequences, FiniteSets

CONSTANTS
  Stoppers,      \* who may call stop: "monitor", "shutdown"
  BlockLen,      \* frames of a 20 ms block
  BatchFrames,   \* PER_CHANNEL_CAPACITY_FRAMES
  MaxFrames,     \* frames of the longest sample buffer
  MaxBuffers     \* bound on the sample buffers

ASSUME MacAssumption ==
  /\ Stoppers \subseteq {"monitor", "shutdown"}
  /\ {BlockLen, BatchFrames} \subseteq Nat \ {0}
  /\ MaxFrames \in Nat /\ MaxBuffers \in Nat

VARIABLES
  access,        \* Screen Recording: "granted", "undetermined", "denied"
  owner,         \* where start() or stop() is, see OwnerPcs
  undetermined,  \* was_undetermined
  outcome,       \* the kind start() or stop() returns
  stopper,       \* who called stop
  stream,        \* "none", "built", "starting", "running", "dead"
  output,        \* is the stream output registered?
  refusal,       \* history: has ScreenCaptureKit refused to remove it?
  delivery,      \* holder of the mutex: "free", "queue", "delegate", "owner"
  callback,      \* the sample callback: "idle", "waiting", "work", "report"
  delegate,      \* didStopWithError: "idle", "waiting", "report", "done"
  buffer,        \* the sample buffer of the callback, <<>> without one
  session,       \* NoShape, or the shape of the first accepted buffer
  writePos,      \* BlockAssembler.write_pos
  accepted, dropped, rejections,
  fed,           \* history: shapes of the frames in the assembler's stream
  errors,        \* history: kinds passed to on_error
  buffers        \* history: sample buffers so far

callVars   == <<access, owner, undetermined, outcome, stopper>>
streamVars == <<stream, output, refusal>>
lockVars   == <<delivery, callback, delegate>>
audioVars  == <<session, writePos, accepted, dropped, rejections, fed>>
vars == <<callVars, streamVars, lockVars, audioVars, buffer, errors, buffers>>

OwnerPcs == {"idle", "content", "display", "add", "starting", "unwind", "open",
             "remove", "stop", "completion", "discard", "stopped", "failed"}

(* What a buffer's format description says of rate and channels, and what  *)
(* validate_format_description makes of the description.                   *)
Shapes  == {"48 kHz stereo", "48 kHz mono", "16 kHz stereo"}
NoShape == "none"
RateOf(shape) == IF shape = "16 kHz stereo" THEN 16 ELSE 48
Formats == {"valid", "invalid", "missing"}
SampleBuffers == [kind : {"audio", "other"}, format : Formats, shape : Shapes,
                  frames : 0 .. MaxFrames, finite : 0 .. MaxFrames, copied : 0 .. MaxFrames]

TypeOK ==
  /\ access \in {"granted", "undetermined", "denied"}
  /\ owner \in OwnerPcs /\ undetermined \in BOOLEAN
  /\ outcome \in {"none", "Unsupported", "PermissionDenied", "PermissionRequiresRestart",
                  "NoCaptureContent", "StartFailed", "StopFailed", "Internal"}
  /\ stopper \in Stoppers \union {"none"}
  /\ stream \in {"none", "built", "starting", "running", "dead"}
  /\ output \in BOOLEAN /\ refusal \in BOOLEAN
  /\ delivery \in {"free", "queue", "delegate", "owner"}
  /\ callback \in {"idle", "waiting", "work", "report"}
  /\ delegate \in {"idle", "waiting", "report", "done"}
  /\ buffer \in SampleBuffers \union {<<>>}
  /\ session \in Shapes \union {NoShape} /\ fed \subseteq Shapes
  /\ writePos \in 0 .. BlockLen - 1
  /\ accepted \in Nat /\ dropped \in Nat /\ rejections \in Nat
  /\ errors \in Seq({"UnsupportedFormat", "StreamStopped"})
  /\ buffers \in 0 .. MaxBuffers

Init ==
  /\ access \in {"granted", "undetermined", "denied"}
  /\ owner = "idle" /\ undetermined = FALSE /\ outcome = "none" /\ stopper = "none"
  /\ stream = "none" /\ output = FALSE /\ refusal = FALSE
  /\ delivery = "free" /\ callback = "idle" /\ delegate = "idle"
  /\ buffer = <<>> /\ session = NoShape /\ writePos = 0
  /\ accepted = 0 /\ dropped = 0 /\ rejections = 0 /\ fed = {}
  /\ errors = <<>> /\ buffers = 0

-----------------------------------------------------------------------------
(* start *)

Fail(kind) == owner' = "failed" /\ outcome' = kind

(* The version gate, then permission: the status never says "denied", the  *)
(* request prompts when the user has not decided yet.                      *)
StartChecks ==
  /\ owner = "idle"
  /\ undetermined' = (access # "granted")
  /\ \/ Fail("Unsupported") /\ UNCHANGED access
     \/ access = "denied" /\ Fail("PermissionDenied") /\ UNCHANGED access
     \/ access = "undetermined" /\ access' = "denied" /\ Fail("PermissionDenied")
     \/ /\ access # "denied" /\ access' = "granted"
        /\ owner' = "content" /\ UNCHANGED outcome
  /\ UNCHANGED <<stopper, streamVars, lockVars, audioVars, buffer, errors, buffers>>

(* get_shareable_content and its bounded wait: content, an error or no     *)
(* answer in time.  Both failures take the kind of the permission state.   *)
GetContent ==
  /\ owner = "content"
  /\ \/ owner' = "display" /\ UNCHANGED outcome
     \/ Fail(IF undetermined THEN "PermissionRequiresRestart" ELSE "PermissionDenied")
  /\ UNCHANGED <<access, undetermined, stopper, streamVars, lockVars, audioVars, buffer,
                 errors, buffers>>

(* The display, the filter and the stream with its delegate. *)
BuildStream ==
  /\ owner = "display"
  /\ \/ owner' = "add" /\ stream' = "built" /\ UNCHANGED outcome
     \/ Fail("NoCaptureContent") /\ UNCHANGED stream
  /\ UNCHANGED <<access, undetermined, stopper, output, refusal, lockVars, audioVars,
                 buffer, errors, buffers>>

AddOutput ==
  /\ owner = "add"
  /\ \/ owner' = "starting" /\ output' = TRUE /\ stream' = "starting" /\ UNCHANGED outcome
     \/ Fail("StartFailed") /\ UNCHANGED <<output, stream>>
  /\ UNCHANGED <<access, undetermined, stopper, refusal, lockVars, audioVars, buffer,
                 errors, buffers>>

(* The framework starts the stream, before or after start() hears of it. *)
StreamRuns ==
  /\ stream = "starting"
  /\ stream' = "running"
  /\ UNCHANGED <<callVars, output, refusal, lockVars, audioVars, buffer, errors, buffers>>

(* The completion of startCapture, or its timeout. *)
StartCompletes ==
  /\ owner = "starting"
  /\ \/ stream = "running" /\ owner' = "open" /\ UNCHANGED <<outcome, stream>>
     \/ /\ stream = "starting" /\ stream' = "dead"
        /\ owner' = "unwind" /\ outcome' = "StartFailed"
     \/ owner' = "unwind" /\ outcome' = "Internal" /\ UNCHANGED stream
  /\ UNCHANGED <<access, undetermined, stopper, output, refusal, lockVars, audioVars,
                 buffer, errors, buffers>>

\* mutant of Removed: the output stays registered
StaysAdded == UNCHANGED output
(* removeStreamOutput waits for a callback in flight. *)
Removed == callback = "idle" /\ output' = FALSE

(* It may answer with an error, which start() and stop() discard: then the *)
(* output stays registered, and callbacks may go on.                       *)
Refused == refusal' = TRUE /\ UNCHANGED output

(* A failed start removes the output; the stream is released unstopped. *)
Unwind ==
  /\ owner = "unwind"
  /\ Removed
  /\ owner' = "failed"
  /\ UNCHANGED <<access, undetermined, outcome, stopper, stream, refusal, lockVars,
                 audioVars, buffer, errors, buffers>>

UnwindRefused ==
  /\ owner = "unwind"
  /\ Refused
  /\ owner' = "failed"
  /\ UNCHANGED <<access, undetermined, outcome, stopper, stream, lockVars, audioVars,
                 buffer, errors, buffers>>

-----------------------------------------------------------------------------
(* The sample callback, on the serial queue *)

(* A buffer with its frames, how many of them are finite and how many can  *)
(* be copied: all of them, or the batches before one that fails.           *)
Deliver ==
  /\ output /\ stream = "running" /\ callback = "idle" /\ buffers < MaxBuffers
  /\ \E b \in SampleBuffers :
       /\ b.finite <= b.frames /\ b.copied <= b.frames
       /\ b.copied = b.frames \/ b.copied % BatchFrames = 0
       /\ b.format # "valid" \/ b.kind = "other" => b.frames = 0
       /\ buffer' = b
  /\ buffers' = buffers + 1
  /\ callback' = "waiting"
  /\ UNCHANGED <<callVars, streamVars, delivery, delegate, audioVars, errors>>

(* A buffer that is not audio is counted and ignored. *)
Ignore ==
  /\ callback = "waiting" /\ buffer.kind = "other"
  /\ callback' = "idle" /\ buffer' = <<>>
  /\ UNCHANGED <<callVars, streamVars, delivery, delegate, audioVars, errors, buffers>>

LockDelivery ==
  /\ callback = "waiting" /\ buffer.kind = "audio" /\ delivery = "free"
  /\ callback' = "work" /\ delivery' = "queue"
  /\ UNCHANGED <<callVars, streamVars, delegate, audioVars, buffer, errors, buffers>>

Return == callback' = "idle" /\ delivery' = "free" /\ buffer' = <<>>

(* No description: counted, nothing reported. *)
NoDescription ==
  /\ callback = "work" /\ buffer.format = "missing"
  /\ rejections' = rejections + 1
  /\ Return
  /\ UNCHANGED <<callVars, streamVars, delegate, session, writePos, accepted, dropped,
                 fed, errors, buffers>>

Rejected ==
  /\ callback = "work" /\ buffer.format = "invalid"
  /\ rejections' = rejections + 1
  /\ callback' = "report"
  /\ UNCHANGED <<callVars, streamVars, delivery, delegate, session, writePos, accepted,
                 dropped, fed, buffer, errors, buffers>>

\* mutant of SameShape: only the rate is compared
SameRate == session = NoShape \/ RateOf(session) = RateOf(buffer.shape)
(* The first valid buffer fixes the rate and the channels of the session. *)
SameShape == session = NoShape \/ session = buffer.shape

ShapeChanged ==
  /\ callback = "work" /\ buffer.format = "valid" /\ ~SameShape
  /\ callback' = "report"
  /\ UNCHANGED <<callVars, streamVars, delivery, delegate, audioVars, buffer, errors, buffers>>

Least(a, b) == IF a < b THEN a ELSE b
(* The finite frames among those copied. *)
Taken == Least(buffer.finite, buffer.copied)

(* The batches are copied, mixed down and fed; a failed copy ends the      *)
(* callback with an error.  The sink takes or refuses each full block.     *)
Feed ==
  /\ callback = "work" /\ buffer.format = "valid" /\ SameShape
  /\ session' = buffer.shape
  /\ LET full == (writePos + Taken) \div BlockLen
     IN  /\ writePos' = (writePos + Taken) % BlockLen
         /\ \E d \in {0, full} : dropped' = dropped + d /\ accepted' = accepted + full - d
  /\ fed' = IF Taken > 0 THEN fed \union {buffer.shape} ELSE fed
  /\ IF buffer.copied < buffer.frames
     THEN /\ rejections' = rejections + 1
          /\ callback' = "report" /\ UNCHANGED <<delivery, buffer>>
     ELSE Return /\ UNCHANGED rejections
  /\ UNCHANGED <<callVars, streamVars, delegate, errors, buffers>>

(* The manager's session mutex, which shutdown holds while it joins. *)
Stopping == owner \in {"remove", "stop", "completion", "discard"}
\* mutant of SessionMutexFree: every teardown holds the session mutex
MutexHeldByStop == ~Stopping
SessionMutexFree == ~(Stopping /\ stopper = "shutdown")

(* sink.on_error, still under the mutex. *)
ReportFormat ==
  /\ callback = "report" /\ SessionMutexFree
  /\ errors' = Append(errors, "UnsupportedFormat")
  /\ Return
  /\ UNCHANGED <<callVars, streamVars, delegate, audioVars, buffers>>

-----------------------------------------------------------------------------
(* didStopWithError *)

StreamStops ==
  /\ stream = "running" /\ delegate = "idle"
  /\ stream' = "dead"
  /\ delegate' = "waiting"
  /\ UNCHANGED <<callVars, output, refusal, delivery, callback, audioVars, buffer, errors,
                 buffers>>

DelegateLocks ==
  /\ delegate = "waiting" /\ delivery = "free"
  /\ delegate' = "report" /\ delivery' = "delegate"
  /\ UNCHANGED <<callVars, streamVars, callback, audioVars, buffer, errors, buffers>>

ReportStopped ==
  /\ delegate = "report" /\ SessionMutexFree
  /\ errors' = Append(errors, "StreamStopped")
  /\ delegate' = "done" /\ delivery' = "free"
  /\ UNCHANGED <<callVars, streamVars, callback, audioVars, buffer, buffers>>

-----------------------------------------------------------------------------
(* stop *)

Stop ==
  /\ owner = "open"
  /\ stopper' \in Stoppers
  /\ owner' = "remove"
  /\ UNCHANGED <<access, undetermined, outcome, streamVars, lockVars, audioVars, buffer,
                 errors, buffers>>

RemoveOutput ==
  /\ owner = "remove"
  /\ Removed
  /\ owner' = "stop"
  /\ UNCHANGED <<access, undetermined, outcome, stopper, stream, refusal, lockVars,
                 audioVars, buffer, errors, buffers>>

RemoveRefused ==
  /\ owner = "remove"
  /\ Refused
  /\ owner' = "stop"
  /\ UNCHANGED <<access, undetermined, outcome, stopper, stream, lockVars, audioVars,
                 buffer, errors, buffers>>

(* stopCapture: it ends the stream, or answers with an error, or not in    *)
(* time.                                                                   *)
StopCapture ==
  /\ owner = "stop"
  /\ owner' = "discard"
  /\ \/ stream' = "dead" /\ UNCHANGED outcome
     \/ outcome' \in {"StopFailed", "Internal"} /\ UNCHANGED stream
  /\ UNCHANGED <<access, undetermined, stopper, output, refusal, lockVars, audioVars,
                 buffer, errors, buffers>>

(* discard_partial_block takes the mutex. *)
Discard ==
  /\ owner = "discard" /\ delivery = "free"
  /\ writePos' = 0
  /\ owner' = "stopped"
  /\ UNCHANGED <<access, undetermined, outcome, stopper, streamVars, lockVars, session,
                 accepted, dropped, rejections, fed, buffer, errors, buffers>>

-----------------------------------------------------------------------------
StartCall == StartChecks \/ GetContent \/ BuildStream \/ AddOutput \/ StartCompletes \/ Unwind
StopCall  == RemoveOutput \/ StopCapture \/ Discard
Callback  == Ignore \/ LockDelivery \/ NoDescription \/ Rejected \/ ShapeChanged \/ Feed
             \/ ReportFormat
Delegate  == DelegateLocks \/ ReportStopped
Next == StartCall \/ StreamRuns \/ Deliver \/ Callback \/ StreamStops \/ Delegate
        \/ Stop \/ StopCall \/ UnwindRefused \/ RemoveRefused

Spec == Init /\ [][Next]_vars

(* A call in progress is carried on, and so is a callback once begun; a    *)
(* completion that never comes is ended by its timeout.  The mutex may be  *)
(* lost to the other contenders only finitely often.  ScreenCaptureKit is  *)
(* not obliged to refuse a removal.                                        *)
FairSpec == /\ Spec
            /\ WF_vars(StartCall) /\ SF_vars(StopCall)
            /\ SF_vars(Callback) /\ SF_vars(Delegate)

-----------------------------------------------------------------------------
(* Properties *)

(* All the audio a session hands on has one rate and one channel count     *)
(* (DeliveryState: never "silently mixing rates").                         *)
OneShape == Cardinality(fed) <= 1

(* Once stop() has taken the output off, or start() has failed, no block   *)
(* reaches the sink and the tail that stop() discards does not grow again, *)
(* unless ScreenCaptureKit has refused to take the output off.             *)
SilentAfterStop ==
  [][(owner \in {"stop", "discard", "stopped", "failed"}) /\ ~refusal
       => UNCHANGED <<accepted, dropped, fed>> /\ writePos' \in {0, writePos}]_vars

(* stop() returns, through the callbacks that hold the mutex (the bounded  *)
(* waits of stream.rs).                                                    *)
StopReturns == owner = "remove" ~> owner = "stopped"

(* stream.rs:162: once removeStreamOutput returns no callback "can be      *)
(* in-flight", so the tail stop() discards stays discarded.  Violated      *)
(* (mac_removal_refused.cfg): its error is not looked at, the callbacks of *)
(* an output that stays go on while stopCapture fails or is still late.    *)
TailStaysDiscarded == owner = "stopped" => writePos = 0

(* stream.rs, spec-07:422: PermissionDenied is for a request the user      *)
(* denied.  Violated: content that is late or fails is reported as denied. *)
DeniedMeansDenied == outcome = "PermissionDenied" => access = "denied"

(* output.rs:77: "A later buffer with a different rate ends the session".  *)
(* Violated: the error is reported, and the next buffer of the first rate  *)
(* is fed.                                                                 *)
ChangeEndsSession ==
  [][(\E i \in DOMAIN errors : errors[i] = "UnsupportedFormat")
       => UNCHANGED <<accepted, dropped, fed>>]_vars
=============================================================================
