----------------------------- MODULE CapturePool -----------------------------
(***************************************************************************)
(* One opened source up to the ASR feeder: the pool of preallocated blocks *)
(* (audio/buffer.rs), the callback that fills them (the stream callback of *)
(* microphone/cpal_backend.rs, or system/sink.rs called by the native      *)
(* adapter), the monitor thread that drains them (run in                   *)
(* microphone/session.rs and system/session.rs) and the owner that stops   *)
(* it.  ChunkPipeline continues where `accept` hands a block on.           *)
(*                                                                         *)
(* The callback and the monitor share two lock-free queues with one        *)
(* producer and one consumer each, a counter and three flags: every access *)
(* to one of them is a step.  Frames are numbered in the order the device  *)
(* delivers them; of a frame's samples the model keeps whether they are    *)
(* finite and reach the signal threshold.                                  *)
(***************************************************************************)
EXTENDS Naturals, Sequences

CONSTANTS
  PoolSize,      \* POOL_CAPACITY
  BlockFrames,   \* block_capacity_for_rate: frames of a block
  NativeBlocks,  \* frames a native adapter may put in a block: its own rate / 50
  MaxFrames,     \* bound on the frames the device delivers
  ReportEvery,   \* OVERFLOW_REPORT_INTERVAL, in ticks of the clock
  MaxClock,      \* bound on the clock
  NoBlock        \* the absence of a block

ASSUME PoolAssumption ==
  /\ PoolSize \in Nat \ {0} /\ BlockFrames \in Nat \ {0}
  /\ NativeBlocks \subseteq Nat \ {0}
  /\ MaxFrames \in Nat /\ ReportEvery \in Nat /\ MaxClock \in Nat
  /\ NoBlock \notin [seq : Nat, from : Nat, to : Nat, loud : BOOLEAN]
  /\ NoBlock \notin [from : Nat, cursor : Nat, loud : BOOLEAN, void : BOOLEAN]

VARIABLES
  source,        \* which backend and which copy of the monitor
  native,        \* frames one call of the sink takes
  stream,        \* the capture session: "closed", "open", "failed", "released"
  free,          \* number of buffers in the recycle queue
  filled,        \* the filled queue
  current,       \* the callback's block in progress
  nextSeq,       \* PoolProducer.next_sequence
  overflow,      \* OverflowCounter
  refused,       \* history: pushes a full queue has refused
  frames,        \* history: frames delivered so far
  fault,         \* StreamFault (microphone), or a fault reported by the adapter
  stopFlag, abandonFlag,
  monitorPc,     \* "check", "fault", "drain", "use", "report", "tail", "feeder", "done"
  hand,          \* the block the monitor holds
  signaled,      \* has on_first_signal been called?
  seenOverflow,  \* last_overflow_total
  reportedAt,    \* times of the on_overflow calls
  clock,
  feeder,        \* "live", "finished" or "abandoned"
  heard          \* history: the blocks handed to the feeder

deviceVars  == <<stream, current, frames, fault>>
queueVars   == <<free, filled, nextSeq, overflow, refused>>
monitorVars == <<monitorPc, hand, signaled, seenOverflow, reportedAt, feeder, heard>>
ownerVars   == <<stopFlag, abandonFlag>>
vars == <<source, native, deviceVars, queueVars, monitorVars, ownerVars, clock>>

Blocks   == [seq : Nat, from : Nat, to : Nat, loud : BOOLEAN]
Partials == [from : Nat, cursor : Nat, loud : BOOLEAN, void : BOOLEAN]

TypeOK ==
  /\ source \in {"microphone", "system"}
  /\ native \in Nat \ {0}
  /\ stream \in {"closed", "open", "failed", "released"}
  /\ free \in Nat /\ filled \in Seq(Blocks)
  /\ current \in Partials \union {NoBlock}
  /\ nextSeq \in Nat /\ overflow \in Nat /\ refused \in Nat /\ frames \in Nat
  /\ fault \in {"no", "set", "reported", "handled"}
  /\ stopFlag \in BOOLEAN /\ abandonFlag \in BOOLEAN
  /\ monitorPc \in {"idle", "check", "fault", "drain", "use", "report", "tail", "feeder", "done"}
  /\ hand \in Blocks \union {NoBlock}
  /\ signaled \in BOOLEAN /\ seenOverflow \in Nat
  /\ reportedAt \in Seq(Nat) /\ clock \in Nat
  /\ feeder \in {"live", "finished", "abandoned"}
  /\ heard \in Seq(Blocks)

(* cpal hands frames on one by one, a native adapter whole blocks.  The    *)
(* microphone's pool is sized for the rate of its device, the system's for *)
(* a constant 48 kHz: its blocks may be shorter or longer than a buffer.   *)
Init ==
  /\ source \in {"microphone", "system"}
  /\ native \in IF source = "microphone" THEN {1} ELSE NativeBlocks
  /\ stream = "closed"
  /\ free = PoolSize /\ filled = <<>> /\ current = NoBlock
  /\ nextSeq = 0 /\ overflow = 0 /\ refused = 0 /\ frames = 0
  /\ fault = "no" /\ stopFlag = FALSE /\ abandonFlag = FALSE
  /\ monitorPc = "idle" /\ hand = NoBlock /\ signaled = FALSE
  /\ seenOverflow = 0 /\ reportedAt = <<>> /\ clock = 0
  /\ feeder = "live" /\ heard = <<>>

-----------------------------------------------------------------------------
(* Opening the device *)

(* The backend's start and the spawn of the monitor.  A callback may run   *)
(* from here on.                                                           *)
Open ==
  /\ stream = "closed"
  /\ stream' = "open"
  /\ monitorPc' = "check"
  /\ UNCHANGED <<source, native, current, frames, fault, queueVars, hand, signaled,
                 seenOverflow, reportedAt, feeder, heard, ownerVars, clock>>

(* Permission, device, format, stream and play are tried in this order;    *)
(* the first that fails ends the start.  The pool is dropped unused.       *)
OpenFails ==
  /\ stream = "closed"
  /\ stream' = "failed"
  /\ UNCHANGED <<source, native, current, frames, fault, queueVars, monitorVars,
                 ownerVars, clock>>

-----------------------------------------------------------------------------
(* The callback.  A block in progress is [from, cursor, loud, void].       *)

Fresh == [from |-> frames + 1, cursor |-> 0, loud |-> FALSE, void |-> FALSE]

(* try_acquire.  Without a free buffer the newest audio is dropped.        *)
AcquireBlock ==
  /\ stream = "open"
  /\ current = NoBlock
  /\ frames + native <= MaxFrames
  /\ IF free > 0
     THEN /\ free' = free - 1
          /\ current' = Fresh
          /\ UNCHANGED <<overflow, frames>>
     ELSE /\ overflow' = overflow + 1
          /\ frames' = frames + native
          /\ UNCHANGED <<free, current>>
  /\ UNCHANGED <<source, native, stream, fault, filled, nextSeq, refused, monitorVars,
                 ownerVars, clock>>

\* mutant of FilledCapacity
FilledCapacityOneShort == PoolSize - 1
FilledCapacity == PoolSize

(* try_submit stamps the sequence number of a block that ends with frame   *)
(* `to`.  A refused block comes back: the cpal callback keeps its buffer,  *)
(* the sink bridge drops it.                                               *)
Submit(b, to) ==
  LET block == [seq |-> nextSeq, from |-> b.from, to |-> to, loud |-> b.loud]
  IN  IF Len(filled) < FilledCapacity
      THEN /\ filled' = Append(filled, block)
           /\ nextSeq' = nextSeq + 1
           /\ current' = NoBlock
           /\ UNCHANGED <<overflow, refused>>
      ELSE /\ overflow' = overflow + 1
           /\ refused' = refused + 1
           /\ current' = IF source = "microphone"
                         THEN [b EXCEPT !.from = frames' + 1, !.cursor = 0]
                         ELSE NoBlock
           /\ UNCHANGED <<filled, nextSeq>>

\* mutant of Written: a non-finite frame is left out of the block
SkipsBadFrame(b, kind) ==
  IF kind = "bad" THEN b
  ELSE [b EXCEPT !.cursor = @ + 1, !.loud = @ \/ kind = "loud"]

(* One frame: a non-finite one voids the block, and a voided block takes   *)
(* no more frames.                                                         *)
Written(b, kind) ==
  IF b.void THEN b
  ELSE IF kind = "bad" THEN [b EXCEPT !.void = TRUE]
  ELSE [b EXCEPT !.cursor = @ + 1, !.loud = @ \/ kind = "loud"]

(* The stream callback of the microphone, for one frame.                   *)
CpalFrame ==
  /\ source = "microphone"
  /\ stream = "open"
  /\ current # NoBlock
  /\ frames < MaxFrames
  /\ frames' = frames + 1
  /\ \E kind \in {"loud", "quiet", "bad"} :
       LET b == Written(current, kind)
       IN  IF b.cursor = BlockFrames
           THEN Submit(b, frames')
           ELSE current' = b /\ UNCHANGED <<filled, nextSeq, overflow, refused>>
  /\ UNCHANGED <<source, native, stream, fault, free, monitorVars, ownerVars, clock>>

Least(m, n) == IF m < n THEN m ELSE n

(* SystemAudioSinkBridge::handle_block, after it has acquired a buffer: it *)
(* copies as much of the native block as the buffer holds, and leaves the  *)
(* rest of it out without a count.                                         *)
BridgeBlock ==
  /\ source = "system"
  /\ stream = "open"
  /\ current # NoBlock
  /\ frames' = frames + native
  /\ \E loud \in BOOLEAN :
       Submit([current EXCEPT !.loud = loud], frames + Least(native, BlockFrames))
  /\ UNCHANGED <<source, native, stream, fault, free, monitorVars, ownerVars, clock>>

(* The device breaks.  cpal's error callback sets a flag the monitor       *)
(* reads; a native adapter calls on_error from its own thread.             *)
DeviceBreaks ==
  /\ stream = "open"
  /\ fault = "no"
  /\ fault' = IF source = "microphone" THEN "set" ELSE "reported"
  /\ UNCHANGED <<source, native, stream, current, frames, queueVars, monitorVars,
                 ownerVars, clock>>

-----------------------------------------------------------------------------
(* The monitor thread *)

CheckStop ==
  /\ monitorPc = "check"
  /\ monitorPc' = IF stopFlag THEN "tail" ELSE "fault"
  /\ UNCHANGED <<source, native, deviceVars, queueVars, hand, signaled, seenOverflow,
                 reportedAt, feeder, heard, ownerVars, clock>>

(* Only the microphone's monitor looks for a fault; it reports it and      *)
(* leaves the loop.                                                        *)
CheckFault ==
  /\ monitorPc = "fault"
  /\ IF source = "microphone" /\ fault = "set"
     THEN fault' = "reported" /\ monitorPc' = "tail"
     ELSE UNCHANGED fault /\ monitorPc' = "drain"
  /\ UNCHANGED <<source, native, stream, current, frames, queueVars, hand, signaled,
                 seenOverflow, reportedAt, feeder, heard, ownerVars, clock>>

TakeBlock ==
  /\ monitorPc = "drain"
  /\ filled # <<>>
  /\ hand' = Head(filled)
  /\ filled' = Tail(filled)
  /\ monitorPc' = "use"
  /\ UNCHANGED <<source, native, deviceVars, free, nextSeq, overflow, refused, signaled,
                 seenOverflow, reportedAt, feeder, heard, ownerVars, clock>>

(* on_first_signal, once: it may wait for the manager's locks while the    *)
(* callback goes on.                                                       *)
Signal ==
  /\ monitorPc = "use"
  /\ hand.loud /\ ~signaled
  /\ signaled' = TRUE
  /\ UNCHANGED <<source, native, deviceVars, queueVars, monitorPc, hand, seenOverflow,
                 reportedAt, feeder, heard, ownerVars, clock>>

\* mutant of Recycle: the buffer is dropped with the block
DropsBuffer ==
  /\ monitorPc = "use"
  /\ ~(hand.loud /\ ~signaled)
  /\ heard' = Append(heard, hand)
  /\ hand' = NoBlock
  /\ monitorPc' = "drain"
  /\ UNCHANGED <<source, native, deviceVars, queueVars, signaled, seenOverflow,
                 reportedAt, feeder, ownerVars, clock>>

(* accept, then recycle.  A full recycle queue would be an invariant       *)
(* failure: it is reported, and the feeder of the session abandoned.       *)
Recycle ==
  /\ monitorPc = "use"
  /\ ~(hand.loud /\ ~signaled)
  /\ heard' = Append(heard, hand)
  /\ hand' = NoBlock
  /\ IF free < PoolSize
     THEN /\ free' = free + 1
          /\ monitorPc' = "drain"
          /\ UNCHANGED <<refused, fault, feeder>>
     ELSE /\ refused' = refused + 1
          /\ fault' = "reported" /\ feeder' = "abandoned"
          /\ monitorPc' = "tail"
          /\ UNCHANGED free
  /\ UNCHANGED <<source, native, stream, current, frames, filled, nextSeq, overflow,
                 signaled, seenOverflow, reportedAt, ownerVars, clock>>

Drained ==
  /\ monitorPc = "drain"
  /\ filled = <<>>
  /\ monitorPc' = "report"
  /\ UNCHANGED <<source, native, deviceVars, queueVars, hand, signaled, seenOverflow,
                 reportedAt, feeder, heard, ownerVars, clock>>

DueForReport ==
  \/ reportedAt = <<>>
  \/ clock - reportedAt[Len(reportedAt)] >= ReportEvery

(* The counter is noted even when the report is suppressed.  Then the      *)
(* thread goes on, or parks for at most one tick.                          *)
ReportOverflow ==
  /\ monitorPc = "report"
  /\ monitorPc' = "check"
  /\ seenOverflow' = overflow
  /\ reportedAt' = IF overflow > seenOverflow /\ DueForReport
                   THEN Append(reportedAt, clock) ELSE reportedAt
  /\ UNCHANGED <<source, native, deviceVars, queueVars, hand, signaled, feeder, heard,
                 ownerVars, clock>>

\* mutant of StopSession: the exit of a broken stream forgets session.stop()
KeepsBrokenStream ==
  /\ monitorPc = "tail"
  /\ stream' = IF fault = "no" THEN "released" ELSE stream
  /\ current' = NoBlock
  /\ monitorPc' = "feeder"
  /\ UNCHANGED <<source, native, frames, fault, queueVars, hand, signaled, seenOverflow,
                 reportedAt, feeder, heard, ownerVars, clock>>

(* session.stop() drops the stream and with it the callback, its block in  *)
(* progress and the producer half of the pool.                             *)
StopSession ==
  /\ monitorPc = "tail"
  /\ stream' = "released"
  /\ current' = NoBlock
  /\ monitorPc' = "feeder"
  /\ UNCHANGED <<source, native, frames, fault, queueVars, hand, signaled, seenOverflow,
                 reportedAt, feeder, heard, ownerVars, clock>>

EndFeeder ==
  /\ monitorPc = "feeder"
  /\ feeder' = IF abandonFlag \/ feeder = "abandoned" THEN "abandoned" ELSE "finished"
  /\ monitorPc' = "done"
  /\ UNCHANGED <<source, native, deviceVars, queueVars, hand, signaled, seenOverflow,
                 reportedAt, heard, ownerVars, clock>>

-----------------------------------------------------------------------------
(* The owner *)

RequestStop ==
  /\ monitorPc # "idle"
  /\ ~stopFlag /\ ~abandonFlag
  /\ stopFlag' = TRUE
  /\ UNCHANGED <<source, native, deviceVars, queueVars, monitorVars, abandonFlag, clock>>

(* The teardown of a source that reported a fault: abandon, then stop.     *)
RequestAbandon ==
  /\ fault = "reported"
  /\ ~stopFlag
  /\ abandonFlag' = TRUE
  /\ fault' = "handled"
  /\ UNCHANGED <<source, native, stream, current, frames, queueVars, monitorVars,
                 stopFlag, clock>>

StopAfterAbandon ==
  /\ abandonFlag /\ ~stopFlag
  /\ stopFlag' = TRUE
  /\ UNCHANGED <<source, native, deviceVars, queueVars, monitorVars, abandonFlag, clock>>

Tick ==
  /\ clock < MaxClock
  /\ clock' = clock + 1
  /\ UNCHANGED <<source, native, deviceVars, queueVars, monitorVars, ownerVars>>

DeviceStep == AcquireBlock \/ CpalFrame \/ BridgeBlock \/ DeviceBreaks

MonitorStep ==
  \/ CheckStop \/ CheckFault \/ TakeBlock \/ Signal \/ Recycle \/ Drained
  \/ ReportOverflow \/ StopSession \/ EndFeeder

OwnerStep == RequestStop \/ RequestAbandon \/ StopAfterAbandon

Next == Open \/ OpenFails \/ DeviceStep \/ MonitorStep \/ OwnerStep \/ Tick

Spec == Init /\ [][Next]_vars

(* The monitor thread is scheduled and a reported fault is handled; nobody *)
(* is obliged to stop the source and the device may fall silent.           *)
FairSpec ==
  /\ Spec
  /\ WF_vars(MonitorStep)
  /\ WF_vars(RequestAbandon)
  /\ WF_vars(StopAfterAbandon)

-----------------------------------------------------------------------------
(* Properties *)

One(b) == IF b THEN 1 ELSE 0
Buffers == free + Len(filled) + One(current # NoBlock) + One(hand # NoBlock)

(* No buffer is duplicated, and none is lost while the stream runs: the    *)
(* two seconds of audio the pool stands for never shrink.                  *)
PoolConserved ==
  /\ Buffers <= PoolSize
  /\ stream \in {"closed", "open"} => Buffers = PoolSize

(* No push ever meets a full queue.  Hence the block the sink bridge would *)
(* drop with its buffer, and the invariant failure of a recycle, do not    *)
(* happen.                                                                 *)
NothingRefused == refused = 0

(* The frames from the start of one block of the device to the next, and   *)
(* how many of them are handed on.                                         *)
Delivered == IF source = "microphone" THEN BlockFrames ELSE native
Kept == Least(Delivered, BlockFrames)

(* What the feeder is handed is what the device delivered: blocks in       *)
(* order, none twice, each the gapless run of the finite frames a block of *)
(* the device starts with, cut to the size of a buffer.  Unless overflow   *)
(* was counted no block of the device is skipped, and no frame of it when  *)
(* it fits a buffer: Delivered = Kept.                                     *)
HeardFaithfully ==
  /\ \A i \in DOMAIN heard :
       /\ heard[i].seq = i - 1
       /\ heard[i].to - heard[i].from = Kept - 1
  /\ \A i \in 1 .. Len(heard) - 1 :
       /\ heard[i].to < heard[i + 1].from
       /\ overflow = 0 => heard[i + 1].from = heard[i].from + Delivered

(* A stop, and a fault, release the device and end the feeder, whatever    *)
(* the callback is doing and however often it overflows.                   *)
StopReleases ==
  stopFlag \/ fault # "no" ~> stream = "released" /\ monitorPc = "done"

(* A block voided by a non-finite sample is reused for the frames that     *)
(* follow (comment at cpal_backend.rs:249-251).  Violated                  *)
(* (voided_block_stalls.cfg): nothing moves the cursor of a voided block,  *)
(* so the reset behind `cursor == block_capacity` is never reached.        *)
VoidedBlockReused ==
  current # NoBlock /\ current.void => frames - current.from < BlockFrames

(* Audio is missing between two blocks only where overflow was counted: a  *)
(* block the bridge cannot take is "counted as dropped" (sink.rs:30), and  *)
(* blocks are "exact 20 ms" at the mix rate (spec-08:21).  Violated        *)
(* (block_cut_short.cfg) by a device whose rate is above 48 kHz: the       *)
(* frames a buffer has no room for are counted nowhere.                    *)
MissingIsCounted ==
  \A i \in 1 .. Len(heard) - 1 :
    overflow = 0 => heard[i + 1].from = heard[i].to + 1
=============================================================================
