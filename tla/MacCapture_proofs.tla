-------------------------- MODULE MacCapture_proofs --------------------------
(***************************************************************************)
(* The macOS adapter, for buffers, batches and blocks of any size: what it *)
(* hands on never mixes two shapes of audio, and nothing reaches the sink  *)
(* once stop() has taken the output off.                                   *)
(*                                                                         *)
(* Both rest on what the queue and its callback can be doing: a callback   *)
(* runs only while the output is registered, and removing the output waits *)
(* for it.                                                                 *)
(***************************************************************************)
EXTENDS MacCapture, FiniteSetTheorems, TLAPS

(* A callback has a buffer, and runs only under a registered output; where *)
(* start() or stop() is says whether there is one, but for a removal that  *)
(* was refused.                                                            *)
Unregistered == {"idle", "content", "display", "add", "stop", "discard", "stopped", "failed"}
CallbackInv ==
  /\ callback # "idle" => output /\ buffer \in SampleBuffers
  /\ owner \in Unregistered /\ ~refusal => ~output

(* The frames fed have the shape the first accepted buffer fixed. *)
ShapeInv ==
  /\ session = NoShape => fed = {}
  /\ fed \subseteq {session}

(* No buffer has the shape "none". *)
LEMMA NoShapeIsNone == NoShape \notin Shapes
  BY Zenon DEF NoShape, Shapes

(* Every step keeps the callback under its output. *)
LEMMA CallbackPreserved ==
  ASSUME CallbackInv, [Next]_vars
  PROVE  CallbackInv'
<1> USE DEF CallbackInv, Unregistered, callVars, streamVars, lockVars, audioVars
<1>1. CASE StartChecks \/ GetContent
  BY <1>1 DEF StartChecks, GetContent, Fail
<1>2. CASE BuildStream \/ AddOutput
  BY <1>2 DEF BuildStream, AddOutput, Fail
<1>3. CASE StreamRuns \/ StartCompletes
  BY <1>3 DEF StreamRuns, StartCompletes
<1>4. CASE Unwind \/ RemoveOutput
  BY <1>4 DEF Unwind, RemoveOutput, Removed
<1>5. CASE UnwindRefused \/ RemoveRefused
  BY <1>5 DEF UnwindRefused, RemoveRefused, Refused
<1>6. CASE Deliver
  BY <1>6 DEF Deliver
<1>7. CASE Ignore \/ LockDelivery
  BY <1>7 DEF Ignore, LockDelivery
<1>8. CASE NoDescription \/ Rejected \/ ShapeChanged
  BY <1>8 DEF NoDescription, Rejected, ShapeChanged, Return
<1>9. CASE Feed
  <2>1. UNCHANGED <<owner, output, refusal>> /\ callback = "work"
    BY <1>9 DEF Feed
  <2>2. callback' = "idle" \/ (callback' = "report" /\ buffer' = buffer)
    BY <1>9 DEF Feed, Return
  <2> QED
    BY <2>1, <2>2
<1>10. CASE ReportFormat
  BY <1>10 DEF ReportFormat, Return
<1>11. CASE StreamStops \/ DelegateLocks \/ ReportStopped
  BY <1>11 DEF StreamStops, DelegateLocks, ReportStopped
<1>12. CASE Stop \/ StopCapture \/ Discard
  BY <1>12 DEF Stop, StopCapture, Discard
<1>13. CASE UNCHANGED vars
  BY <1>13 DEF vars
<1> QED
  BY <1>1, <1>2, <1>3, <1>4, <1>5, <1>6, <1>7, <1>8, <1>9, <1>10, <1>11, <1>12, <1>13
     DEF Next, StartCall, StopCall, Callback, Delegate

(* The callback runs only under a registered output. *)
THEOREM CallbackInvariant == Spec => []CallbackInv
<1>1. Init => CallbackInv
  BY DEF Init, CallbackInv
<1> QED
  BY <1>1, CallbackPreserved, PTL DEF Spec

(* Only a callback at work, and the end of a stop, touch the audio. *)
LEMMA AudioSteps ==
  ASSUME [Next]_vars
  PROVE  \/ Feed
         \/ callback = "work" /\ UNCHANGED <<session, fed, accepted, dropped, writePos>>
         \/ Discard
         \/ UNCHANGED audioVars
<1> USE DEF audioVars
<1>1. CASE StartChecks \/ GetContent \/ BuildStream \/ AddOutput
  BY <1>1 DEF StartChecks, GetContent, BuildStream, AddOutput
<1>2. CASE StreamRuns \/ StartCompletes \/ Unwind \/ RemoveOutput
  BY <1>2 DEF StreamRuns, StartCompletes, Unwind, RemoveOutput
<1>3. CASE UnwindRefused \/ RemoveRefused
  BY <1>3 DEF UnwindRefused, RemoveRefused
<1>4. CASE Deliver \/ Ignore \/ LockDelivery \/ ShapeChanged
  BY <1>4 DEF Deliver, Ignore, LockDelivery, ShapeChanged
<1>5. CASE NoDescription \/ Rejected
  BY <1>5 DEF NoDescription, Rejected
<1>6. CASE ReportFormat \/ StreamStops \/ DelegateLocks \/ ReportStopped
  BY <1>6 DEF ReportFormat, StreamStops, DelegateLocks, ReportStopped
<1>7. CASE Stop \/ StopCapture
  BY <1>7 DEF Stop, StopCapture
<1>8. CASE UNCHANGED vars
  BY <1>8 DEF vars
<1> QED
  BY <1>1, <1>2, <1>3, <1>4, <1>5, <1>6, <1>7, <1>8
     DEF Next, StartCall, StopCall, Callback, Delegate

-----------------------------------------------------------------------------
(* One shape *)

(* A buffer of another shape is never fed (handle_audio_sample). *)
LEMMA ShapePreserved ==
  ASSUME CallbackInv, ShapeInv, [Next]_vars
  PROVE  ShapeInv'
<1>1. CASE Feed
  <2>1. buffer.shape \in Shapes
    BY <1>1 DEF Feed, CallbackInv, SampleBuffers
  <2>2. session' = buffer.shape /\ session' # NoShape
    BY <1>1, <2>1, NoShapeIsNone DEF Feed
  <2>3. fed \subseteq {session'}
    BY <1>1, <2>2 DEF Feed, SameShape, ShapeInv
  <2>4. fed' = fed \/ fed' = fed \union {session'}
    BY <1>1, <2>2 DEF Feed
  <2> QED
    BY <2>2, <2>3, <2>4 DEF ShapeInv
<1>2. CASE UNCHANGED <<session, fed>>
  BY <1>2 DEF ShapeInv
<1> QED
  BY <1>1, <1>2, AudioSteps DEF audioVars, Discard

(* All the audio a session hands on has one rate and one channel count     *)
(* (DeliveryState, handle_audio_sample).                                   *)
THEOREM SessionHasOneShape == Spec => []OneShape
<1>1. Init => ShapeInv
  BY DEF Init, ShapeInv
<1>2. ShapeInv => OneShape
  <2> SUFFICES ASSUME ShapeInv
               PROVE  Cardinality(fed) <= 1
    BY DEF OneShape
  <2>1. IsFiniteSet({session}) /\ Cardinality({session}) = 1
    BY FS_Singleton
  <2>2. Cardinality(fed) <= Cardinality({session})
    BY <2>1, FS_Subset DEF ShapeInv
  <2> QED
    BY <2>1, <2>2
<1> QED
  BY <1>1, <1>2, CallbackInvariant, ShapePreserved, PTL DEF Spec

-----------------------------------------------------------------------------
(* Silence after stop *)

(* Once stop() has taken the output off, or start() has failed, no block   *)
(* reaches the sink, and the tail does not grow, unless ScreenCaptureKit   *)
(* refused to take the output off (stop, start).                           *)
THEOREM NothingAfterStop == Spec => SilentAfterStop
<1>1. CallbackInv /\ [Next]_vars
      => [(owner \in {"stop", "discard", "stopped", "failed"}) /\ ~refusal
          => UNCHANGED <<accepted, dropped, fed>> /\ writePos' \in {0, writePos}]_vars
  <2> SUFFICES ASSUME CallbackInv, [Next]_vars,
                      owner \in {"stop", "discard", "stopped", "failed"}, ~refusal
               PROVE  UNCHANGED <<accepted, dropped, fed>> /\ writePos' \in {0, writePos}
    OBVIOUS
  <2>1. callback = "idle"
    BY DEF CallbackInv, Unregistered
  <2>2. ~Feed
    BY <2>1 DEF Feed
  <2>3. CASE Discard
    BY <2>3 DEF Discard
  <2>4. CASE UNCHANGED audioVars
    BY <2>4 DEF audioVars
  <2> QED
    BY <2>1, <2>2, <2>3, <2>4, AudioSteps
<1> QED
  BY <1>1, CallbackInvariant, PTL DEF Spec, SilentAfterStop
=============================================================================
