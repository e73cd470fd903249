-------------------------- MODULE CapturePool_proofs --------------------------
(***************************************************************************)
(* Theorems about CapturePool, for every size of the pool and of a block   *)
(* and for any number of frames, overflows and faults.                     *)
(***************************************************************************)
EXTENDS CapturePool, SequenceTheorems, TLAPS

(* What one frame makes of the block in progress                           *)
LEMMA FrameWritten ==
  ASSUME NEW b \in Partials, NEW kind
  PROVE  /\ Written(b, kind) \in Partials
         /\ Written(b, kind).from = b.from
         /\ b.void => Written(b, kind) = b
         /\ ~b.void /\ kind = "bad" =>
              Written(b, kind).void /\ Written(b, kind).cursor = b.cursor
         /\ ~b.void /\ kind # "bad" =>
              ~Written(b, kind).void /\ Written(b, kind).cursor = b.cursor + 1
<1> DEFINE cursor == b.cursor + 1
           loud == b.loud \/ kind = "loud"
<1>1. cursor \in Nat /\ loud \in BOOLEAN
  BY DEF Partials
<1>2. [b EXCEPT !.cursor = cursor, !.loud = loud] \in Partials
  <2> HIDE DEF cursor, loud
  <2> QED
    BY <1>1 DEF Partials
<1>3. [b EXCEPT !.cursor = @ + 1, !.loud = @ \/ kind = "loud"] \in Partials
  BY <1>2, Zenon
<1>4. [b EXCEPT !.void = TRUE] \in Partials
  BY DEF Partials
<1>5. Written(b, kind) \in Partials
  BY <1>3, <1>4 DEF Written
<1>6. Written(b, kind).from = b.from
  BY DEF Written, Partials
<1>7. ~b.void /\ kind = "bad" =>
        Written(b, kind).void /\ Written(b, kind).cursor = b.cursor
  BY DEF Written, Partials
<1>8. ~b.void /\ kind # "bad" =>
        ~Written(b, kind).void /\ Written(b, kind).cursor = b.cursor + 1
  BY DEF Written, Partials
<1> QED
  BY <1>5, <1>6, <1>7, <1>8 DEF Written

(* The block a submit stamps                                               *)
Stamped(b, to) == [seq |-> nextSeq, from |-> b.from, to |-> to, loud |-> b.loud]

LEMMA StampTyped ==
  ASSUME TypeOK, NEW b \in Partials, NEW to \in Nat
  PROVE  Stamped(b, to) \in Blocks
<1>1. b.from \in Nat /\ nextSeq \in Nat
  BY DEF TypeOK, Partials
<1>2. b.loud \in BOOLEAN
  BY DEF Partials
<1> QED
  BY <1>1, <1>2 DEF Stamped, Blocks

(* The block the callback keeps when the queue refuses it                  *)
LEMMA RewoundTyped ==
  ASSUME NEW b \in Partials, NEW n \in Nat
  PROVE  [b EXCEPT !.from = n + 1, !.cursor = 0] \in Partials
<1> DEFINE first == n + 1
<1>1. first \in Nat
  OBVIOUS
<1>2. [b EXCEPT !.from = first, !.cursor = 0] \in Partials
  <2> HIDE DEF first
  <2> QED
    BY <1>1 DEF Partials
<1> QED
  BY <1>2, Zenon

(* What a submit does to the variables it touches                          *)
LEMMA SubmitTyped ==
  ASSUME TypeOK, frames' \in Nat, NEW b \in Partials, NEW to \in Nat, Submit(b, to)
  PROVE  /\ filled' \in Seq(Blocks)
         /\ nextSeq' \in Nat /\ overflow' \in Nat /\ refused' \in Nat
         /\ current' \in Partials \union {NoBlock}
<1>1. Stamped(b, to) \in Blocks
  BY StampTyped
<1>2. filled' \in {filled, Append(filled, Stamped(b, to))}
  BY DEF Submit, Stamped
<1>3. filled' \in Seq(Blocks)
  <2>1. filled \in Seq(Blocks)
    BY DEF TypeOK
  <2>2. Append(filled, Stamped(b, to)) \in Seq(Blocks)
    BY <1>1, <2>1, AppendProperties
  <2> QED
    BY <1>2, <2>1, <2>2
<1>4. [b EXCEPT !.from = frames' + 1, !.cursor = 0] \in Partials
  BY RewoundTyped
<1>5. current' \in {NoBlock, [b EXCEPT !.from = frames' + 1, !.cursor = 0]}
  BY DEF Submit
<1>6. nextSeq' \in {nextSeq, nextSeq + 1} /\ overflow' \in {overflow, overflow + 1}
      /\ refused' \in {refused, refused + 1}
  BY DEF Submit
<1>7. nextSeq' \in Nat /\ overflow' \in Nat /\ refused' \in Nat
  <2>1. nextSeq \in Nat /\ overflow \in Nat /\ refused \in Nat
    BY DEF TypeOK
  <2> QED
    BY <1>6, <2>1
<1>8. current' \in Partials \union {NoBlock}
  <2> DEFINE rewound == [b EXCEPT !.from = frames' + 1, !.cursor = 0]
  <2>1. rewound \in Partials /\ current' \in {NoBlock, rewound}
    BY <1>4, <1>5
  <2> HIDE DEF rewound
  <2> QED
    BY <2>1
<1> QED
  BY <1>3, <1>7, <1>8

(* The monitor holds a block exactly while it uses it, and does not run    *)
(* before the device is open.                                              *)
HoldsWhileUsed ==
  /\ monitorPc = "use" => hand # NoBlock
  /\ hand # NoBlock => monitorPc = "use"
  /\ stream = "closed" => monitorPc = "idle"

(* Type correctness, and the monitor never appends NoBlock to what was     *)
(* heard                                                                   *)
THEOREM TypeCorrect == Spec => [](TypeOK /\ HoldsWhileUsed)
<1>1. Init => TypeOK /\ HoldsWhileUsed
  <2>1. <<>> \in Seq(Blocks) /\ <<>> \in Seq(Nat)
    BY EmptySeq
  <2>2. PoolSize \in Nat
    BY PoolAssumption
  <2> SUFFICES ASSUME Init
               PROVE  TypeOK /\ HoldsWhileUsed
    OBVIOUS
  <2>3. /\ free \in Nat /\ filled \in Seq(Blocks) /\ heard \in Seq(Blocks)
        /\ reportedAt \in Seq(Nat)
    BY <2>1, <2>2 DEF Init
  <2>4. /\ current = NoBlock /\ hand = NoBlock
        /\ stopFlag \in BOOLEAN /\ abandonFlag \in BOOLEAN /\ signaled \in BOOLEAN
    BY DEF Init
  <2>5. native \in Nat \ {0}
    BY PoolAssumption DEF Init
  <2> QED
    BY <2>3, <2>4, <2>5 DEF Init, TypeOK, HoldsWhileUsed
<1>2. TypeOK /\ HoldsWhileUsed /\ [Next]_vars => TypeOK' /\ HoldsWhileUsed'
  <2> SUFFICES ASSUME TypeOK, HoldsWhileUsed, [Next]_vars
               PROVE  TypeOK' /\ HoldsWhileUsed'
    OBVIOUS
  <2> USE DEF TypeOK, HoldsWhileUsed, deviceVars, queueVars, monitorVars, ownerVars
  <2>1. CASE Open
    BY <2>1 DEF Open
  <2>2. CASE OpenFails
    BY <2>2 DEF OpenFails
  <2>3. CASE AcquireBlock
    <3>1. Fresh \in Partials
      BY DEF Fresh, Partials
    <3>2. free' \in Nat /\ overflow' \in Nat /\ frames' \in Nat
      BY <2>3, <3>1 DEF AcquireBlock
    <3>3. current' \in Partials \union {NoBlock}
      BY <2>3, <3>1 DEF AcquireBlock
    <3>4. UNCHANGED <<source, native, stream, fault, filled, nextSeq, refused, monitorVars,
                      ownerVars, clock>>
      BY <2>3 DEF AcquireBlock
    <3> QED
      BY <3>2, <3>3, <3>4
  <2>4. CASE CpalFrame
    <3>1. frames' \in Nat
      BY <2>4 DEF CpalFrame
    <3>2. PICK kind \in {"loud", "quiet", "bad"} :
            LET b == Written(current, kind)
            IN  IF b.cursor = BlockFrames
                THEN Submit(b, frames')
                ELSE current' = b /\ UNCHANGED <<filled, nextSeq, overflow, refused>>
      BY <2>4 DEF CpalFrame
    <3>3. Written(current, kind) \in Partials
      BY <2>4, FrameWritten DEF CpalFrame
    <3>4. /\ filled' \in Seq(Blocks)
          /\ nextSeq' \in Nat /\ overflow' \in Nat /\ refused' \in Nat
          /\ current' \in Partials \union {NoBlock}
      BY <3>1, <3>2, <3>3, SubmitTyped
    <3>5. UNCHANGED <<source, native, stream, fault, free, monitorVars, ownerVars, clock>>
      BY <2>4 DEF CpalFrame
    <3> QED
      BY <3>1, <3>4, <3>5
  <2>5. CASE BridgeBlock
    <3> DEFINE last == frames + Least(native, BlockFrames)
    <3>1. frames' \in Nat /\ last \in Nat
      BY <2>5, PoolAssumption DEF BridgeBlock, Least
    <3>2. PICK loud \in BOOLEAN : Submit([current EXCEPT !.loud = loud], last)
      BY <2>5 DEF BridgeBlock
    <3>3. [current EXCEPT !.loud = loud] \in Partials
      BY <2>5 DEF BridgeBlock, Partials
    <3>4. /\ filled' \in Seq(Blocks)
          /\ nextSeq' \in Nat /\ overflow' \in Nat /\ refused' \in Nat
          /\ current' \in Partials \union {NoBlock}
      BY <3>1, <3>2, <3>3, SubmitTyped
    <3>5. UNCHANGED <<source, native, stream, fault, free, monitorVars, ownerVars, clock>>
      BY <2>5 DEF BridgeBlock
    <3> QED
      BY <3>1, <3>4, <3>5
  <2>6. CASE DeviceBreaks
    BY <2>6 DEF DeviceBreaks
  <2>7. CASE CheckStop
    BY <2>7 DEF CheckStop
  <2>8. CASE CheckFault
    BY <2>8 DEF CheckFault
  <2>9. CASE TakeBlock
    <3>1. hand' \in Blocks /\ filled' \in Seq(Blocks)
      BY <2>9, HeadTailProperties DEF TakeBlock
    <3>2. hand' # NoBlock
      BY <3>1, PoolAssumption DEF Blocks
    <3> QED
      BY <2>9, <3>1, <3>2 DEF TakeBlock
  <2>10. CASE Signal
    BY <2>10 DEF Signal
  <2>11. CASE Recycle
    <3>1. heard' \in Seq(Blocks)
      BY <2>11, AppendProperties DEF Recycle
    <3> QED
      BY <2>11, <3>1 DEF Recycle
  <2>12. CASE Drained
    BY <2>12 DEF Drained
  <2>13. CASE ReportOverflow
    <3>1. reportedAt' \in Seq(Nat)
      BY <2>13, AppendProperties DEF ReportOverflow
    <3> QED
      BY <2>13, <3>1 DEF ReportOverflow
  <2>14. CASE StopSession
    BY <2>14 DEF StopSession
  <2>15. CASE EndFeeder
    BY <2>15 DEF EndFeeder
  <2>16. CASE OwnerStep
    <3>1. CASE RequestStop
      BY <3>1 DEF RequestStop
    <3>2. CASE RequestAbandon
      BY <3>2 DEF RequestAbandon
    <3>3. CASE StopAfterAbandon
      BY <3>3 DEF StopAfterAbandon
    <3> QED
      BY <2>16, <3>1, <3>2, <3>3 DEF OwnerStep
  <2>17. CASE Tick
    BY <2>17 DEF Tick
  <2>18. CASE UNCHANGED vars
    BY <2>18 DEF vars
  <2> QED
    BY <2>1, <2>2, <2>3, <2>4, <2>5, <2>6, <2>7, <2>8, <2>9, <2>10, <2>11,
       <2>12, <2>13, <2>14, <2>15, <2>16, <2>17, <2>18
    DEF Next, DeviceStep, MonitorStep
<1> QED
  BY <1>1, <1>2, PTL DEF Spec

-----------------------------------------------------------------------------
(* The pool *)

(* A block in progress belongs to an open stream.                          *)
PoolInv ==
  /\ PoolConserved
  /\ NothingRefused
  /\ current # NoBlock => stream = "open"

(* A submit moves the buffer of the block in progress to the filled queue, *)
(* which has room for it.                                                  *)
LEMMA SubmitMoves ==
  ASSUME TypeOK, PoolInv, NEW b \in Partials, NEW to \in Nat, Submit(b, to),
         current # NoBlock, UNCHANGED <<free, hand>>
  PROVE  /\ filled' = Append(filled, Stamped(b, to))
         /\ nextSeq' = nextSeq + 1 /\ current' = NoBlock
         /\ UNCHANGED <<overflow, refused>>
         /\ Len(filled') = Len(filled) + 1
         /\ Buffers' = Buffers
<1>1. Len(filled) \in Nat /\ free \in Nat /\ PoolSize \in Nat
  BY PoolAssumption, LenProperties DEF TypeOK
<1>2. Len(filled) < FilledCapacity
  BY <1>1 DEF PoolInv, PoolConserved, Buffers, One, FilledCapacity
<1>3. /\ filled' = Append(filled, Stamped(b, to))
      /\ nextSeq' = nextSeq + 1 /\ current' = NoBlock
      /\ UNCHANGED <<overflow, refused>>
  BY <1>2 DEF Submit, Stamped
<1>4. Len(filled') = Len(filled) + 1
  <2>1. Stamped(b, to) \in Blocks /\ filled \in Seq(Blocks)
    BY StampTyped DEF TypeOK
  <2> QED
    BY <1>3, <2>1, AppendProperties
<1>5. Buffers' = Buffers
  BY <1>1, <1>3, <1>4 DEF Buffers, One
<1> QED
  BY <1>3, <1>4, <1>5

(* The pool never loses a buffer and no queue ever refuses one, for every  *)
(* number of buffers (CapturePool!PoolConserved and NothingRefused; the    *)
(* two ends of audio/buffer.rs with sink.rs and cpal_backend.rs).          *)
THEOREM PoolInvariant == Spec => []PoolInv
<1>1. Init => PoolInv
  <2> SUFFICES ASSUME Init
               PROVE  PoolInv
    OBVIOUS
  <2>1. Len(filled) = 0 /\ free = PoolSize /\ PoolSize \in Nat
    BY EmptySeq, PoolAssumption DEF Init
  <2> QED
    BY <2>1 DEF Init, PoolInv, PoolConserved, NothingRefused, Buffers, One
<1>2. TypeOK /\ HoldsWhileUsed /\ PoolInv /\ [Next]_vars => PoolInv'
  <2> SUFFICES ASSUME TypeOK, HoldsWhileUsed, PoolInv, [Next]_vars
               PROVE  PoolInv'
    OBVIOUS
  <2>1. Len(filled) \in Nat /\ free \in Nat /\ refused \in Nat /\ PoolSize \in Nat
    BY PoolAssumption, LenProperties DEF TypeOK
  <2> USE DEF deviceVars, queueVars, monitorVars, ownerVars
  <2>2. ASSUME UNCHANGED <<free, filled, current, hand, stream, refused>>
        PROVE  PoolInv'
    BY <2>2 DEF PoolInv, PoolConserved, NothingRefused, Buffers, One
  <2>3. CASE Open \/ OpenFails
    BY <2>3 DEF PoolInv, PoolConserved, NothingRefused, Buffers, One, Open, OpenFails
  <2>4. CASE AcquireBlock
    <3>1. Fresh # NoBlock
      <4>1. frames + 1 \in Nat
        BY DEF TypeOK
      <4>2. Fresh \in Partials
        BY <4>1 DEF Fresh, Partials
      <4> QED
        BY <4>2, PoolAssumption DEF Partials
    <3> QED
      BY <2>1, <2>4, <3>1
      DEF PoolInv, PoolConserved, NothingRefused, Buffers, One, AcquireBlock
  <2>5. CASE CpalFrame
    <3>1. frames' \in Nat /\ current # NoBlock /\ current \in Partials
      BY <2>5 DEF CpalFrame, TypeOK
    <3>2. UNCHANGED <<free, hand, stream>>
      BY <2>5 DEF CpalFrame
    <3>3. PICK kind \in {"loud", "quiet", "bad"} :
            IF Written(current, kind).cursor = BlockFrames
            THEN Submit(Written(current, kind), frames')
            ELSE /\ current' = Written(current, kind)
                 /\ UNCHANGED <<filled, nextSeq, overflow, refused>>
      BY <2>5 DEF CpalFrame
    <3>4. Written(current, kind) \in Partials /\ Written(current, kind) # NoBlock
      BY <3>1, FrameWritten, PoolAssumption DEF Partials
    <3>5. CASE Written(current, kind).cursor = BlockFrames
      <4>1. current' = NoBlock /\ refused' = refused /\ Buffers' = Buffers
        BY <3>1, <3>2, <3>3, <3>4, <3>5, SubmitMoves
      <4> QED
        BY <3>2, <4>1 DEF PoolInv, PoolConserved, NothingRefused
    <3>6. CASE Written(current, kind).cursor # BlockFrames
      <4>1. current' # NoBlock /\ UNCHANGED <<filled, refused>>
        BY <3>3, <3>4, <3>6
      <4>2. Buffers' = Buffers
        BY <3>1, <3>2, <4>1 DEF Buffers, One
      <4> QED
        BY <3>1, <3>2, <4>1, <4>2 DEF PoolInv, PoolConserved, NothingRefused
    <3> QED
      BY <3>5, <3>6
  <2>6. CASE BridgeBlock
    <3> DEFINE last == frames + Least(native, BlockFrames)
    <3>1. last \in Nat /\ current # NoBlock /\ current \in Partials
      BY <2>6, PoolAssumption DEF BridgeBlock, TypeOK, Least
    <3>2. UNCHANGED <<free, hand, stream>>
      BY <2>6 DEF BridgeBlock
    <3>3. PICK loud \in BOOLEAN : Submit([current EXCEPT !.loud = loud], last)
      BY <2>6 DEF BridgeBlock
    <3>4. [current EXCEPT !.loud = loud] \in Partials
      BY <3>1 DEF Partials
    <3>5. current' = NoBlock /\ refused' = refused /\ Buffers' = Buffers
      BY <3>1, <3>2, <3>3, <3>4, SubmitMoves
    <3> QED
      BY <3>2, <3>5 DEF PoolInv, PoolConserved, NothingRefused
  <2>7. CASE TakeBlock
    <3>1. hand = NoBlock /\ hand' \in Blocks
      BY <2>7, HeadTailProperties DEF TakeBlock, HoldsWhileUsed, TypeOK
    <3>2. hand' # NoBlock
      BY <3>1, PoolAssumption DEF Blocks
    <3>3. Len(filled') = Len(filled) - 1 /\ UNCHANGED <<free, current, stream, refused>>
      BY <2>7, HeadTailProperties DEF TakeBlock, TypeOK
    <3> QED
      BY <2>1, <3>1, <3>2, <3>3
      DEF PoolInv, PoolConserved, NothingRefused, Buffers, One
  <2>8. CASE Recycle
    <3>1. hand # NoBlock /\ hand' = NoBlock /\ UNCHANGED <<filled, current, stream>>
      BY <2>8 DEF Recycle, HoldsWhileUsed
    <3>2. free < PoolSize
      BY <2>1, <3>1 DEF PoolInv, PoolConserved, Buffers, One
    <3>3. free' = free + 1 /\ refused' = refused
      BY <2>8, <3>2 DEF Recycle
    <3> QED
      BY <2>1, <3>1, <3>3 DEF PoolInv, PoolConserved, NothingRefused, Buffers, One
  <2>9. CASE StopSession
    <3>1. stream' = "released" /\ current' = NoBlock /\ UNCHANGED <<free, filled, hand, refused>>
      BY <2>9 DEF StopSession
    <3> QED
      BY <2>1, <3>1 DEF PoolInv, PoolConserved, NothingRefused, Buffers, One
  <2>10. CASE \/ DeviceBreaks \/ CheckStop \/ CheckFault \/ Signal \/ Drained
              \/ ReportOverflow \/ EndFeeder
    BY <2>2, <2>10
    DEF DeviceBreaks, CheckStop, CheckFault, Signal, Drained, ReportOverflow, EndFeeder
  <2>11. CASE OwnerStep \/ Tick \/ UNCHANGED vars
    BY <2>2, <2>11
    DEF OwnerStep, RequestStop, RequestAbandon, StopAfterAbandon, Tick, vars
  <2> QED
    BY <2>3, <2>4, <2>5, <2>6, <2>7, <2>8, <2>9, <2>10, <2>11
    DEF Next, DeviceStep, MonitorStep
<1> QED
  BY <1>1, <1>2, TypeCorrect, PTL DEF Spec

(* CapturePool!PoolConserved for every pool: no buffer is duplicated, and  *)
(* none is lost while the stream runs.                                     *)
THEOREM PoolIsConserved == Spec => []PoolConserved
BY PoolInvariant, PTL DEF PoolInv

(* CapturePool!NothingRefused for every pool: neither try_submit nor       *)
(* recycle ever meets a full queue.                                        *)
THEOREM NoQueueRefuses == Spec => []NothingRefused
BY PoolInvariant, PTL DEF PoolInv

-----------------------------------------------------------------------------
(* The order of the blocks *)

(* The blocks submitted so far, from the first to the last: those handed   *)
(* to the feeder, the one in the monitor's hand, those still queued.       *)
Held == IF hand = NoBlock THEN <<>> ELSE <<hand>>
Passed == (heard \o Held) \o filled

(* Numbered one by one, each a full run of frames delivered by now         *)
FullRuns(s) ==
  \A i \in 1 .. Len(s) :
    /\ s[i].seq = i - 1
    /\ s[i].to - s[i].from = Kept - 1
    /\ s[i].to <= frames

(* None overlaps the next, and what lies between two was counted as lost   *)
NoneSkipped(s) ==
  \A i \in 1 .. Len(s) - 1 :
    /\ s[i].to < s[i + 1].from
    /\ overflow = 0 => s[i + 1].from = s[i].from + Delivered

(* The block in progress starts where the last one ended and holds every   *)
(* frame since, unless it is void.                                         *)
Continues(b) ==
  /\ b.cursor < BlockFrames /\ b.from <= frames + 1
  /\ ~b.void => b.from + b.cursor = frames + 1
  /\ source = "system" => ~b.void /\ b.cursor = 0
  /\ nextSeq > 0 => /\ Passed[nextSeq].to < b.from
                    /\ overflow = 0 => b.from = Passed[nextSeq].from + Delivered

OrderInv ==
  /\ Len(Passed) = nextSeq
  /\ FullRuns(Passed)
  /\ NoneSkipped(Passed)
  /\ current # NoBlock => Continues(current)
  /\ (/\ current = NoBlock /\ stream \in {"closed", "open"}
      /\ overflow = 0 /\ nextSeq > 0) => Passed[nextSeq].from + Delivered = frames + 1

(* The sizes of a device's blocks, and of what is kept of them, do not     *)
(* change.                                                                 *)
LEMMA SizesFixed ==
  ASSUME UNCHANGED <<source, native>>
  PROVE  Delivered' = Delivered /\ Kept' = Kept
BY DEF Delivered, Kept, Least

LEMMA SizesTyped ==
  ASSUME TypeOK
  PROVE  Delivered \in Nat \ {0} /\ Kept \in Nat \ {0}
BY PoolAssumption DEF TypeOK, Delivered, Kept, Least

LEMMA HeadFirst ==
  ASSUME NEW S, NEW s \in Seq(S), s # <<>>
  PROVE  s = <<Head(s)>> \o Tail(s)
<1>1. Head(s) \in S /\ Tail(s) \in Seq(S) /\ Len(Tail(s)) = Len(s) - 1
  BY HeadTailProperties
<1>2. \A i \in 1 .. Len(Tail(s)) : Tail(s)[i] = s[i + 1]
  BY HeadTailProperties
<1> QED
  BY <1>1, <1>2

LEMMA PassedTyped ==
  ASSUME TypeOK
  PROVE  /\ Held \in Seq(Blocks) /\ Passed \in Seq(Blocks)
         /\ heard \o Held \in Seq(Blocks)
<1>1. Held \in Seq(Blocks)
  BY DEF TypeOK, Held
<1>2. heard \o Held \in Seq(Blocks) /\ filled \in Seq(Blocks)
  BY <1>1, ConcatProperties DEF TypeOK
<1> QED
  BY <1>1, <1>2, ConcatProperties DEF Passed

(* The monitor passes blocks on without reordering them.                   *)
LEMMA TakeKeepsOrder ==
  ASSUME TypeOK, HoldsWhileUsed, TakeBlock
  PROVE  Passed' = Passed
<1>1. /\ filled \in Seq(Blocks) /\ heard \in Seq(Blocks) /\ filled # <<>>
      /\ hand = NoBlock /\ hand' = Head(filled) /\ filled' = Tail(filled)
      /\ heard' = heard
  BY DEF TypeOK, HoldsWhileUsed, TakeBlock
<1>2. hand' \in Blocks /\ filled' \in Seq(Blocks) /\ <<hand'>> \in Seq(Blocks)
  BY <1>1, HeadTailProperties
<1>3. Held = <<>> /\ Held' = <<hand'>>
  BY <1>1, <1>2, PoolAssumption DEF Held, Blocks
<1>4. Passed' = heard \o (<<hand'>> \o filled')
  BY <1>1, <1>2, <1>3, ConcatAssociative DEF Passed
<1>5. filled = <<hand'>> \o filled'
  BY <1>1, HeadFirst
<1>6. Passed = heard \o filled
  BY <1>1, <1>3, ConcatEmptySeq DEF Passed
<1> QED
  BY <1>4, <1>5, <1>6

LEMMA RecycleKeepsOrder ==
  ASSUME TypeOK, HoldsWhileUsed, Recycle
  PROVE  Passed' = Passed
<1>1. /\ heard \in Seq(Blocks) /\ hand \in Blocks /\ hand # NoBlock /\ hand' = NoBlock
      /\ heard' = Append(heard, hand) /\ filled' = filled
  BY DEF TypeOK, HoldsWhileUsed, Recycle
<1>2. heard' = heard \o <<hand>> /\ heard' \in Seq(Blocks)
  BY <1>1, AppendIsConcat, AppendProperties
<1>3. heard' \o Held' = heard \o Held
  BY <1>1, <1>2, ConcatEmptySeq DEF Held
<1> QED
  BY <1>1, <1>3 DEF Passed

(* A submitted block is the next in order.                                 *)
LEMMA SubmitAppends ==
  ASSUME TypeOK, NEW b \in Partials, NEW to \in Nat,
         filled' = Append(filled, Stamped(b, to)), UNCHANGED <<heard, hand>>
  PROVE  Passed' = Append(Passed, Stamped(b, to))
<1>1. /\ Stamped(b, to) \in Blocks /\ filled \in Seq(Blocks)
      /\ heard \o Held \in Seq(Blocks) /\ Passed \in Seq(Blocks)
  BY StampTyped, PassedTyped DEF TypeOK
<1>2. <<Stamped(b, to)>> \in Seq(Blocks)
  BY <1>1
<1>3. filled' = filled \o <<Stamped(b, to)>>
  BY <1>1, AppendIsConcat
<1>4. Held' = Held
  BY DEF Held
<1>5. Passed' = (heard \o Held) \o (filled \o <<Stamped(b, to)>>)
  BY <1>3, <1>4 DEF Passed
<1>6. (heard \o Held) \o (filled \o <<Stamped(b, to)>>)
        = ((heard \o Held) \o filled) \o <<Stamped(b, to)>>
  <2> DEFINE passed == heard \o Held
             last   == <<Stamped(b, to)>>
  <2>1. passed \in Seq(Blocks) /\ last \in Seq(Blocks) /\ filled \in Seq(Blocks)
    BY <1>1, <1>2
  <2> HIDE DEF passed, last
  <2>2. passed \o (filled \o last) = (passed \o filled) \o last
    BY <2>1, ConcatAssociative
  <2> QED
    BY <2>2 DEF passed, last
<1>7. Passed' = Passed \o <<Stamped(b, to)>>
  BY <1>5, <1>6 DEF Passed
<1> QED
  BY <1>1, <1>7, AppendIsConcat

LEMMA SubmitKeepsOrder ==
  ASSUME TypeOK, OrderInv, current # NoBlock, frames' \in Nat, NEW b \in Partials,
         NEW to \in Nat, b.from = current.from, frames <= frames', to <= frames',
         to - b.from = Kept - 1, frames' + 1 = b.from + Delivered,
         filled' = Append(filled, Stamped(b, to)), nextSeq' = nextSeq + 1,
         current' = NoBlock, UNCHANGED <<heard, hand, overflow, source, native>>
  PROVE  OrderInv'
<1> DEFINE x == Stamped(b, to)
<1>1. /\ x \in Blocks /\ x.seq = nextSeq /\ x.from = b.from /\ x.to = to
      /\ b.from \in Nat
  BY StampTyped DEF Stamped, Partials
<1>2. Passed \in Seq(Blocks) /\ Passed' = Append(Passed, x)
  BY PassedTyped, SubmitAppends
<1>3. Len(Passed) = nextSeq /\ nextSeq \in Nat /\ frames \in Nat /\ overflow \in Nat
  BY DEF OrderInv, TypeOK
<1>0. Delivered' = Delivered /\ Kept' = Kept /\ Delivered \in Nat
  BY SizesFixed, SizesTyped
<1> HIDE DEF x
<1>4. /\ Len(Passed') = nextSeq' /\ Passed'[nextSeq'] = x
      /\ \A i \in 1 .. nextSeq : Passed'[i] = Passed[i]
  BY <1>1, <1>2, <1>3, AppendProperties
<1>5. \A i \in 1 .. nextSeq : Passed[i] \in Blocks
  BY <1>2, <1>3, ElementOfSeq
<1>6. \A i \in 1 .. nextSeq : Passed[i].to \in Nat
  BY <1>5 DEF Blocks
<1>7. FullRuns(Passed)'
  <2> SUFFICES ASSUME NEW i \in 1 .. nextSeq + 1
               PROVE  /\ Passed'[i].seq = i - 1
                      /\ Passed'[i].to - Passed'[i].from = Kept - 1
                      /\ Passed'[i].to <= frames'
    BY <1>0, <1>4 DEF FullRuns
  <2>1. CASE i = nextSeq + 1
    BY <1>1, <1>3, <1>4, <2>1
  <2>2. CASE i \in 1 .. nextSeq
    <3>1. /\ Passed[i].seq = i - 1 /\ Passed[i].to - Passed[i].from = Kept - 1
          /\ Passed[i].to <= frames
      BY <1>3, <2>2 DEF OrderInv, FullRuns
    <3> QED
      BY <1>3, <1>4, <1>6, <2>2, <3>1
  <2> QED
    BY <1>3, <2>1, <2>2
<1>8. nextSeq > 0 => Passed[nextSeq].to < x.from
                     /\ (overflow = 0 => x.from = Passed[nextSeq].from + Delivered)
  BY <1>1 DEF OrderInv, Continues
<1>9. NoneSkipped(Passed)'
  <2> SUFFICES ASSUME NEW i \in 1 .. nextSeq
               PROVE  /\ Passed'[i].to < Passed'[i + 1].from
                      /\ overflow = 0 => Passed'[i + 1].from = Passed'[i].from + Delivered
    BY <1>0, <1>3, <1>4 DEF NoneSkipped
  <2>1. CASE i = nextSeq
    BY <1>3, <1>4, <1>8, <2>1
  <2>2. CASE i \in 1 .. nextSeq - 1
    <3>1. /\ Passed[i].to < Passed[i + 1].from
          /\ overflow = 0 => Passed[i + 1].from = Passed[i].from + Delivered
      BY <1>3, <2>2 DEF OrderInv, NoneSkipped
    <3>2. Passed'[i] = Passed[i] /\ Passed'[i + 1] = Passed[i + 1]
      BY <1>3, <1>4, <2>2
    <3> QED
      BY <3>1, <3>2
  <2> QED
    BY <1>3, <2>1, <2>2
<1> QED
  BY <1>0, <1>1, <1>4, <1>7, <1>9 DEF OrderInv

(* Steps that let audio pass, or be lost, without a submit                 *)
LEMMA OthersKeepOrder ==
  ASSUME TypeOK, OrderInv, Passed' = Passed, UNCHANGED nextSeq, frames' \in Nat,
         frames <= frames', overflow' \in Nat, overflow' = 0 => overflow = 0,
         UNCHANGED <<source, native>>
  PROVE  /\ Len(Passed') = nextSeq' /\ FullRuns(Passed)' /\ NoneSkipped(Passed)'
         /\ Delivered' = Delivered
<1>1. Passed \in Seq(Blocks) /\ Len(Passed) = nextSeq /\ nextSeq \in Nat /\ frames \in Nat
  BY PassedTyped DEF OrderInv, TypeOK
<1>0. Delivered' = Delivered /\ Kept' = Kept
  BY SizesFixed
<1>2. \A i \in 1 .. nextSeq : Passed[i].to \in Nat
  <2>1. \A i \in 1 .. nextSeq : Passed[i] \in Blocks
    BY <1>1, ElementOfSeq
  <2> QED
    BY <2>1 DEF Blocks
<1>3. FullRuns(Passed)'
  BY <1>0, <1>1, <1>2 DEF OrderInv, FullRuns
<1>4. NoneSkipped(Passed)'
  BY <1>0, <1>1 DEF OrderInv, NoneSkipped
<1> QED
  BY <1>0, <1>1, <1>3, <1>4

(* The blocks pass in the order, and with the frames, the device delivered.*)
THEOREM OrderInvariant == Spec => []OrderInv
<1>1. Init => OrderInv
  <2> SUFFICES ASSUME Init
               PROVE  OrderInv
    OBVIOUS
  <2>1. /\ hand = NoBlock /\ heard = <<>> /\ filled = <<>> /\ current = NoBlock
        /\ nextSeq = 0
    BY DEF Init
  <2>2. Passed = <<>>
    BY <2>1 DEF Passed, Held
  <2>3. Len(Passed) = 0
    BY <2>2
  <2> QED
    BY <2>1, <2>3 DEF OrderInv, FullRuns, NoneSkipped
<1>2. TypeOK /\ HoldsWhileUsed /\ PoolInv /\ OrderInv /\ [Next]_vars => OrderInv'
  <2> SUFFICES ASSUME TypeOK, HoldsWhileUsed, PoolInv, OrderInv, [Next]_vars
               PROVE  OrderInv'
    OBVIOUS
  <2>1. frames \in Nat /\ nextSeq \in Nat /\ overflow \in Nat /\ BlockFrames \in Nat \ {0}
    BY PoolAssumption DEF TypeOK
  <2>0. native \in Nat \ {0} /\ Delivered \in Nat \ {0} /\ Kept \in Nat \ {0}
    BY SizesTyped DEF TypeOK
  <2> USE DEF deviceVars, queueVars, monitorVars, ownerVars
  <2>2. ASSUME Passed' = Passed, UNCHANGED <<source, native, nextSeq, frames>>,
               UNCHANGED <<overflow, current, stream>>
        PROVE  OrderInv'
    BY <2>1, <2>2, OthersKeepOrder DEF OrderInv, Continues
  <2>3. ASSUME UNCHANGED <<heard, hand, filled>>
        PROVE  Passed' = Passed
    BY <2>3 DEF Passed, Held
  <2>4. CASE Open \/ OpenFails
    <3>1. /\ UNCHANGED <<source, native, nextSeq, frames, overflow, current>>
          /\ UNCHANGED <<heard, hand, filled>>
          /\ stream = "closed"
      BY <2>4 DEF Open, OpenFails
    <3>2. Passed' = Passed
      BY <2>3, <3>1
    <3> QED
      BY <2>1, <3>1, <3>2, OthersKeepOrder DEF OrderInv, Continues
  <2>5. CASE AcquireBlock
    <3>1. /\ UNCHANGED <<source, native, nextSeq, stream, heard, hand, filled>>
          /\ current = NoBlock /\ stream = "open"
      BY <2>5 DEF AcquireBlock
    <3>2. Passed' = Passed
      BY <2>3, <3>1
    <3>3. CASE free > 0
      <4>1. current' = Fresh /\ UNCHANGED <<overflow, frames>>
        BY <2>5, <3>3 DEF AcquireBlock
      <4>2. /\ Fresh.from = frames + 1 /\ Fresh.cursor = 0 /\ ~Fresh.void
        BY DEF Fresh
      <4>3. nextSeq > 0 => Passed[nextSeq].to <= frames
        BY <2>1 DEF OrderInv, FullRuns
      <4>4. nextSeq > 0 => Passed[nextSeq].to \in Nat
        <5>1. nextSeq > 0 => Passed[nextSeq] \in Blocks
          BY <2>1, PassedTyped, ElementOfSeq DEF OrderInv
        <5> QED
          BY <5>1 DEF Blocks
      <4>5. overflow = 0 /\ nextSeq > 0 => Passed[nextSeq].from + Delivered = frames + 1
        BY <3>1 DEF OrderInv
      <4>6. Continues(current)'
        BY SizesFixed, <2>0, <2>1, <3>1, <3>2, <4>1, <4>2, <4>3, <4>4, <4>5 DEF Continues
      <4>7. current' # NoBlock
        <5>1. Fresh \in Partials
          BY <2>1 DEF Fresh, Partials
        <5> QED
          BY <4>1, <5>1, PoolAssumption DEF Partials
      <4> QED
        BY <2>1, <3>1, <3>2, <4>1, <4>6, <4>7, OthersKeepOrder DEF OrderInv
    <3>4. CASE ~(free > 0)
      <4>1. overflow' = overflow + 1 /\ frames' = frames + native /\ current' = current
        BY <2>5, <3>4 DEF AcquireBlock
      <4> QED
        BY <2>0, <2>1, <3>1, <3>2, <4>1, OthersKeepOrder DEF OrderInv
    <3> QED
      BY <3>3, <3>4
  <2>6. CASE CpalFrame
    <3>1. /\ UNCHANGED <<source, native, stream, free, heard, hand>> /\ frames' = frames + 1
          /\ current # NoBlock /\ current \in Partials /\ source = "microphone"
      BY <2>6 DEF CpalFrame, TypeOK
    <3>2. PICK kind \in {"loud", "quiet", "bad"} :
            IF Written(current, kind).cursor = BlockFrames
            THEN Submit(Written(current, kind), frames')
            ELSE /\ current' = Written(current, kind)
                 /\ UNCHANGED <<filled, nextSeq, overflow, refused>>
      BY <2>6 DEF CpalFrame
    <3> DEFINE b == Written(current, kind)
    <3>3. /\ b \in Partials /\ b # NoBlock /\ b.from = current.from
          /\ current.void => b = current
          /\ ~current.void /\ kind = "bad" => b.void /\ b.cursor = current.cursor
          /\ ~current.void /\ kind # "bad" => ~b.void /\ b.cursor = current.cursor + 1
      BY <3>1, FrameWritten, PoolAssumption DEF Partials
    <3>4. current.from \in Nat /\ current.cursor \in Nat /\ b.cursor \in Nat
      BY <3>1, <3>3 DEF Partials
    <3>5. Continues(current)
      BY <3>1 DEF OrderInv
    <3>6. CASE b.cursor = BlockFrames
      <4>1. ~current.void /\ b.cursor = current.cursor + 1
        BY <2>1, <3>3, <3>4, <3>5, <3>6 DEF Continues
      <4>2. frames' - b.from = Kept - 1 /\ frames' + 1 = b.from + Delivered
        BY <2>1, <3>1, <3>3, <3>4, <3>5, <3>6, <4>1 DEF Continues, Delivered, Kept, Least
      <4>3. /\ filled' = Append(filled, Stamped(b, frames')) /\ nextSeq' = nextSeq + 1
            /\ current' = NoBlock /\ UNCHANGED overflow
        BY <2>1, <3>1, <3>2, <3>3, <3>6, SubmitMoves
      <4> HIDE DEF b
      <4> QED
        BY <2>1, <3>1, <3>3, <4>2, <4>3, SubmitKeepsOrder
    <3>7. CASE b.cursor # BlockFrames
      <4>1. current' = b /\ UNCHANGED <<filled, nextSeq, overflow>>
        BY <3>2, <3>7
      <4>2. Passed' = Passed
        BY <2>3, <3>1, <4>1
      <4> HIDE DEF b
      <4>3. Continues(current)'
        BY SizesFixed, <2>0, <2>1, <3>1, <3>3, <3>4, <3>5, <3>7, <4>1, <4>2 DEF Continues
      <4> QED
        BY <2>1, <3>1, <3>3, <4>1, <4>2, <4>3, OthersKeepOrder DEF OrderInv
    <3> QED
      BY <3>6, <3>7
  <2>7. CASE BridgeBlock
    <3>1. /\ UNCHANGED <<source, native, free, heard, hand>> /\ frames' = frames + native
          /\ current # NoBlock /\ current \in Partials /\ source = "system"
      BY <2>7 DEF BridgeBlock, TypeOK
    <3> DEFINE last == frames + Least(native, BlockFrames)
    <3>2. PICK loud \in BOOLEAN : Submit([current EXCEPT !.loud = loud], last)
      BY <2>7 DEF BridgeBlock
    <3> DEFINE b == [current EXCEPT !.loud = loud]
    <3>3. b \in Partials /\ b.from = current.from
      BY <3>1 DEF Partials
    <3>4. current.from \in Nat /\ current.cursor = 0 /\ ~current.void /\ Continues(current)
      BY <3>1 DEF OrderInv, Continues, Partials
    <3>5. /\ last \in Nat /\ last <= frames' /\ last - b.from = Kept - 1
          /\ frames' + 1 = b.from + Delivered
      BY <2>0, <2>1, <3>1, <3>3, <3>4 DEF Continues, Delivered, Kept, Least
    <3>6. /\ filled' = Append(filled, Stamped(b, last)) /\ nextSeq' = nextSeq + 1
          /\ current' = NoBlock /\ UNCHANGED overflow
      BY <2>1, <3>1, <3>2, <3>3, <3>5, SubmitMoves
    <3> HIDE DEF b, last
    <3> QED
      BY <2>0, <2>1, <3>1, <3>3, <3>5, <3>6, SubmitKeepsOrder
  <2>8. CASE TakeBlock
    BY <2>2, <2>8, TakeKeepsOrder DEF TakeBlock
  <2>9. CASE Recycle
    BY <2>2, <2>9, RecycleKeepsOrder DEF Recycle
  <2>10. CASE StopSession
    <3>1. /\ UNCHANGED <<source, native, nextSeq, frames, overflow, heard, hand, filled>>
          /\ current' = NoBlock /\ stream' = "released"
      BY <2>10 DEF StopSession
    <3>2. Passed' = Passed
      BY <2>3, <3>1
    <3> QED
      BY <2>1, <3>1, <3>2, OthersKeepOrder DEF OrderInv
  <2>11. CASE \/ DeviceBreaks \/ CheckStop \/ CheckFault \/ Signal \/ Drained
              \/ ReportOverflow \/ EndFeeder
    BY <2>2, <2>3, <2>11
    DEF DeviceBreaks, CheckStop, CheckFault, Signal, Drained, ReportOverflow, EndFeeder
  <2>12. CASE OwnerStep \/ Tick \/ UNCHANGED vars
    BY <2>2, <2>3, <2>12
    DEF OwnerStep, RequestStop, RequestAbandon, StopAfterAbandon, Tick, vars
  <2> QED
    BY <2>4, <2>5, <2>6, <2>7, <2>8, <2>9, <2>10, <2>11, <2>12
    DEF Next, DeviceStep, MonitorStep
<1> QED
  BY <1>1, <1>2, TypeCorrect, PoolInvariant, PTL DEF Spec

(* CapturePool!HeardFaithfully for every pool and block size: the feeder   *)
(* gets the device's audio in order, gapless but for counted overflow.     *)
THEOREM AudioHeardFaithfully == Spec => []HeardFaithfully
<1>1. TypeOK /\ OrderInv => HeardFaithfully
  <2> SUFFICES ASSUME TypeOK, OrderInv
               PROVE  HeardFaithfully
    OBVIOUS
  <2>1. /\ heard \in Seq(Blocks) /\ Held \in Seq(Blocks) /\ filled \in Seq(Blocks)
        /\ heard \o Held \in Seq(Blocks) /\ Passed \in Seq(Blocks)
    BY PassedTyped DEF TypeOK
  <2>2. /\ Len(heard) \in Nat /\ Len(heard) <= Len(Passed) /\ Len(Passed) \in Nat
        /\ \A i \in 1 .. Len(heard) : Passed[i] = heard[i]
    <3>1. /\ Len(heard \o Held) = Len(heard) + Len(Held)
          /\ \A i \in 1 .. Len(heard) : (heard \o Held)[i] = heard[i]
      BY <2>1, ConcatProperties
    <3>2. /\ Len(Passed) = Len(heard \o Held) + Len(filled)
          /\ \A i \in 1 .. Len(heard \o Held) : Passed[i] = (heard \o Held)[i]
      BY <2>1, ConcatProperties DEF Passed
    <3>3. Len(heard) \in Nat /\ Len(Held) \in Nat /\ Len(filled) \in Nat
      BY <2>1, LenProperties
    <3> QED
      BY <3>1, <3>2, <3>3
  <2>3. DOMAIN heard = 1 .. Len(heard)
    BY <2>1
  <2>4. \A i \in 1 .. Len(heard) :
          heard[i].seq = i - 1 /\ heard[i].to - heard[i].from = Kept - 1
    BY <2>2 DEF OrderInv, FullRuns
  <2>5. \A i \in 1 .. Len(heard) - 1 :
          /\ heard[i].to < heard[i + 1].from
          /\ overflow = 0 => heard[i + 1].from = heard[i].from + Delivered
    <3> SUFFICES ASSUME NEW i \in 1 .. Len(heard) - 1
                 PROVE  /\ heard[i].to < heard[i + 1].from
                        /\ overflow = 0 => heard[i + 1].from = heard[i].from + Delivered
      OBVIOUS
    <3>1. i \in 1 .. Len(Passed) - 1 /\ i \in 1 .. Len(heard) /\ i + 1 \in 1 .. Len(heard)
      BY <2>2
    <3>2. Passed[i] = heard[i] /\ Passed[i + 1] = heard[i + 1]
      BY <2>2, <3>1
    <3> QED
      BY <3>1, <3>2 DEF OrderInv, NoneSkipped
  <2> QED
    BY <2>3, <2>4, <2>5 DEF HeardFaithfully
<1> QED
  BY <1>1, TypeCorrect, OrderInvariant, PTL

=============================================================================
