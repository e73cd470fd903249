---------------------------- MODULE ChunkPipeline ----------------------------
(***************************************************************************)
(* One running source behind its capture queue: the monitor thread that    *)
(* feeds captured blocks into ASR chunks (audio/microphone/session.rs, run *)
(* and AsrChunkFeeder), the pool of preallocated chunk buffers between the *)
(* two threads (asr/chunk_pool.rs), the ASR worker thread (asr/worker.rs,  *)
(* run) and the owner that stops or abandons them.                         *)
(*                                                                         *)
(* Audio is a sequence of numbered units; a block brings BlockUnits of     *)
(* them and a chunk holds ChunkUnits.  Both queues are lock-free and have  *)
(* one producer and one consumer, so each push and pop is one step; so is  *)
(* each access to the flags `finished`, `abandoned`, `stop` and `abandon`. *)
(***************************************************************************)
EXTENDS Naturals, Sequences

CONSTANTS
  PoolSize,     \* ASR_POOL_CAPACITY
  ChunkUnits,   \* capacity of a chunk
  BlockUnits,   \* size of a captured block
  MaxBlocks,    \* bound on the blocks captured
  Faults        \* what may break: "source", "worker"

ASSUME PipelineAssumption ==
  /\ PoolSize \in Nat \ {0}
  /\ ChunkUnits \in Nat \ {0}
  /\ BlockUnits \in Nat \ {0}
  /\ MaxBlocks \in Nat
  /\ Faults \subseteq {"source", "worker"}

VARIABLES
  recycle,       \* number of buffers in the recycle queue
  filled,        \* the filled queue: chunks, each a sequence of units
  holds,         \* AsrChunkFeeder.current.is_some()
  current,       \* the units in the feeder's current chunk (cursor = Len)
  overflow,      \* has anything been dropped and counted?
  finished,      \* the feeder will submit nothing more
  abandoned,     \* and the worker must not finalize
  blocks,        \* blocks captured so far
  pending,       \* units of the current block still to be fed
  fed,           \* history: how many units have been offered to the feeder
  monitorPc,     \* "run", "feed", "tail", "flush", "mark", "abandon", "done"
  workerPc,      \* "recv", "busy", "look", "end", "done"
  drained,       \* drained_any of the worker's current tick
  failed,        \* has the worker left its loop on an error?
  hand,          \* the chunk the worker holds
  heard,         \* history: the units the recognizer has accepted
  finalized,     \* history: has the worker called finish()?
  stopFlag, abandonFlag,
  faulted        \* has the source broken, and the owner not reacted yet?

poolVars    == <<recycle, filled, overflow, finished, abandoned>>
feederVars  == <<holds, current, blocks, pending, fed, monitorPc>>
workerVars  == <<workerPc, drained, failed, hand, heard, finalized>>
ownerVars   == <<stopFlag, abandonFlag, faulted>>
vars == <<poolVars, feederVars, workerVars, ownerVars>>

Units == Seq(Nat)

TypeOK ==
  /\ recycle \in Nat
  /\ filled \in Seq(Units)
  /\ holds \in BOOLEAN
  /\ current \in Units /\ Len(current) < ChunkUnits
  /\ overflow \in BOOLEAN /\ finished \in BOOLEAN /\ abandoned \in BOOLEAN
  /\ blocks \in Nat /\ pending \in Nat /\ fed \in Nat
  /\ monitorPc \in {"run", "feed", "tail", "flush", "mark", "abandon", "done"}
  /\ workerPc \in {"recv", "busy", "look", "end", "done"}
  /\ drained \in BOOLEAN /\ failed \in BOOLEAN
  /\ hand \in Units
  /\ heard \in Units
  /\ finalized \in BOOLEAN
  /\ stopFlag \in BOOLEAN /\ abandonFlag \in BOOLEAN
  /\ faulted \in {"no", "yes", "handled"}

Init ==
  /\ recycle = PoolSize
  /\ filled = <<>>
  /\ holds = FALSE /\ current = <<>>
  /\ overflow = FALSE /\ finished = FALSE /\ abandoned = FALSE
  /\ blocks = 0 /\ pending = 0 /\ fed = 0
  /\ monitorPc = "run"
  /\ workerPc = "recv" /\ drained = FALSE /\ failed = FALSE
  /\ hand = <<>> /\ heard = <<>> /\ finalized = FALSE
  /\ stopFlag = FALSE /\ abandonFlag = FALSE /\ faulted = "no"

-----------------------------------------------------------------------------
(* The monitor thread *)

(* A block has arrived in the capture queue.  The flags are looked at only *)
(* when that queue is empty; the capture side may keep it from ever being. *)
TakeBlock ==
  /\ monitorPc = "run"
  /\ blocks < MaxBlocks
  /\ blocks' = blocks + 1
  /\ pending' = BlockUnits
  /\ monitorPc' = "feed"
  /\ UNCHANGED <<poolVars, holds, current, fed, workerVars, ownerVars>>

DropsSilently == UNCHANGED overflow  \* mutant of CountDrop
CountDrop == overflow' = TRUE

(* accept: without a buffer the rest of the block is dropped and counted.  *)
AcquireBuffer ==
  /\ monitorPc = "feed"
  /\ ~holds
  /\ \/ /\ recycle > 0
        /\ recycle' = recycle - 1
        /\ holds' = TRUE
        /\ current' = <<>>
        /\ UNCHANGED <<overflow, pending, fed, monitorPc>>
     \/ /\ recycle = 0
        /\ CountDrop
        /\ pending' = 0
        /\ fed' = fed + pending
        /\ monitorPc' = "run"
        /\ UNCHANGED <<recycle, holds, current>>
  /\ UNCHANGED <<filled, finished, abandoned, blocks, workerVars, ownerVars>>

Space == ChunkUnits - Len(current)
HasRoom == Len(filled) < PoolSize

(* accept: copy what fits.  A full chunk is submitted; if the queue had no  *)
(* room, the chunk would be dropped and its buffer kept.                   *)
CopyUnits ==
  LET n == IF pending < Space THEN pending ELSE Space
      copied == current \o [i \in 1..n |-> fed + i]
      full == n = Space
  IN  /\ monitorPc = "feed"
      /\ holds
      /\ fed' = fed + n
      /\ pending' = pending - n
      /\ current' = IF full THEN <<>> ELSE copied
      /\ IF full /\ HasRoom
         THEN holds' = FALSE /\ filled' = Append(filled, copied)
         ELSE UNCHANGED <<holds, filled>>
      /\ IF full /\ ~HasRoom THEN CountDrop ELSE UNCHANGED overflow
      /\ monitorPc' = IF n = pending THEN "run" ELSE "feed"
      /\ UNCHANGED <<recycle, finished, abandoned, blocks, workerVars, ownerVars>>

(* The source breaks; on_fault hands the teardown to another thread and    *)
(* returns.                                                                *)
SourceFaults ==
  /\ "source" \in Faults
  /\ monitorPc = "run"
  /\ ~stopFlag
  /\ faulted = "no"
  /\ faulted' = "yes"
  /\ monitorPc' = "tail"
  /\ UNCHANGED <<poolVars, holds, current, blocks, pending, fed, workerVars,
                 stopFlag, abandonFlag>>

SeeStop ==
  /\ monitorPc = "run"
  /\ stopFlag
  /\ monitorPc' = "tail"
  /\ UNCHANGED <<poolVars, holds, current, blocks, pending, fed, workerVars,
                 ownerVars>>

(* After session.stop(): abandon or finish the feeder.                     *)
ChooseTail ==
  /\ monitorPc = "tail"
  /\ monitorPc' = IF abandonFlag THEN "abandon" ELSE "flush"
  /\ UNCHANGED <<poolVars, holds, current, blocks, pending, fed, workerVars,
                 ownerVars>>

FlushTail ==
  LET tail == holds /\ current # <<>>
  IN  /\ monitorPc = "flush"
      /\ monitorPc' = "mark"
      /\ holds' = FALSE
      /\ current' = <<>>
      /\ filled' = IF tail /\ HasRoom THEN Append(filled, current) ELSE filled
      /\ IF tail /\ ~HasRoom THEN CountDrop ELSE UNCHANGED overflow
      /\ UNCHANGED <<recycle, finished, abandoned, blocks, pending, fed,
                     workerVars, ownerVars>>

\* mutant of MarkFinished: the flag is forgotten
NeverMarksFinished ==
  /\ monitorPc = "mark"
  /\ monitorPc' = "done"
  /\ UNCHANGED <<poolVars, holds, current, blocks, pending, fed, workerVars,
                 ownerVars>>

MarkFinished ==
  /\ monitorPc = "mark"
  /\ monitorPc' = "done"
  /\ finished' = TRUE
  /\ UNCHANGED <<recycle, filled, overflow, abandoned, holds, current, blocks,
                 pending, fed, workerVars, ownerVars>>

\* mutant of MarkAbandoned: the two flags are set in the other order
MarksFinishedFirst ==
  /\ monitorPc = "abandon"
  /\ holds' = FALSE
  /\ current' = <<>>
  /\ IF finished THEN abandoned' = TRUE /\ monitorPc' = "done" /\ UNCHANGED finished
                 ELSE finished' = TRUE /\ UNCHANGED <<abandoned, monitorPc>>
  /\ UNCHANGED <<recycle, filled, overflow, blocks, pending, fed, workerVars, ownerVars>>

(* AsrChunkFeeder::abandon: drop the partial chunk with its buffer, then   *)
(* mark_abandoned, which sets `abandoned` before `finished`.               *)
MarkAbandoned ==
  /\ monitorPc = "abandon"
  /\ holds' = FALSE
  /\ current' = <<>>
  /\ abandoned' = TRUE
  /\ monitorPc' = "mark"
  /\ UNCHANGED <<recycle, filled, overflow, finished, blocks, pending, fed,
                 workerVars, ownerVars>>

-----------------------------------------------------------------------------
(* The ASR worker thread *)

Receive ==
  /\ workerPc = "recv"
  /\ \/ /\ filled # <<>>
        /\ hand' = Head(filled)
        /\ filled' = Tail(filled)
        /\ drained' = TRUE
        /\ workerPc' = "busy"
     \/ /\ filled = <<>>
        /\ workerPc' = IF drained THEN "recv" ELSE "look"
        /\ drained' = FALSE
        /\ UNCHANGED <<filled, hand>>
  /\ UNCHANGED <<recycle, overflow, finished, abandoned, feederVars, failed, heard,
                 finalized, ownerVars>>

\* mutant of Decode: the buffer is not recycled
DecodeWithoutRecycle ==
  /\ workerPc = "busy"
  /\ heard' = heard \o hand
  /\ hand' = <<>>
  /\ workerPc' = "recv"
  /\ UNCHANGED <<poolVars, feederVars, drained, failed, finalized, ownerVars>>

Decode ==
  /\ workerPc = "busy"
  /\ heard' = heard \o hand
  /\ hand' = <<>>
  /\ recycle' = recycle + 1
  /\ workerPc' = "recv"
  /\ UNCHANGED <<filled, overflow, finished, abandoned, feederVars, drained,
                 failed, finalized, ownerVars>>

(* The recognizer fails: the worker leaves its loop, chunk in hand.        *)
DecodeFails ==
  /\ "worker" \in Faults
  /\ workerPc = "busy"
  /\ hand' = <<>>
  /\ workerPc' = "end"
  /\ failed' = TRUE
  /\ faulted' = IF faulted = "no" THEN "yes" ELSE faulted
  /\ UNCHANGED <<poolVars, feederVars, drained, heard, finalized, stopFlag, abandonFlag>>

(* A tick that drained nothing looks whether more can come.                *)
LookFinished ==
  /\ workerPc = "look"
  /\ workerPc' = IF finished THEN "end" ELSE "recv"
  /\ UNCHANGED <<poolVars, feederVars, drained, failed, hand, heard, finalized,
                 ownerVars>>

End ==
  /\ workerPc = "end"
  /\ finalized' = ~abandoned
  /\ workerPc' = "done"
  /\ UNCHANGED <<poolVars, feederVars, drained, failed, hand, heard, ownerVars>>

-----------------------------------------------------------------------------
(* The owner: a stop, or the teardown of a faulted source *)

RequestStop ==
  /\ ~stopFlag
  /\ ~abandonFlag
  /\ stopFlag' = TRUE
  /\ UNCHANGED <<poolVars, feederVars, workerVars, abandonFlag, faulted>>

RequestAbandon ==
  /\ faulted = "yes"
  /\ ~stopFlag
  /\ abandonFlag' = TRUE
  /\ faulted' = "handled"
  /\ UNCHANGED <<poolVars, feederVars, workerVars, stopFlag>>

StopAfterAbandon ==
  /\ abandonFlag
  /\ ~stopFlag
  /\ stopFlag' = TRUE
  /\ UNCHANGED <<poolVars, feederVars, workerVars, abandonFlag, faulted>>

MonitorStep ==
  \/ TakeBlock \/ AcquireBuffer \/ CopyUnits \/ SeeStop
  \/ ChooseTail \/ FlushTail \/ MarkFinished \/ MarkAbandoned

WorkerStep == Receive \/ Decode \/ LookFinished \/ End

OwnerStep == RequestStop \/ RequestAbandon \/ StopAfterAbandon

Next == MonitorStep \/ WorkerStep \/ OwnerStep \/ SourceFaults \/ DecodeFails

Spec == Init /\ [][Next]_vars

(* Both threads are scheduled; a fault is handled and an abandon goes      *)
(* through; whether anybody stops the source is left open.                 *)
FairSpec ==
  /\ Spec
  /\ WF_vars(MonitorStep)
  /\ WF_vars(WorkerStep)
  /\ WF_vars(RequestAbandon)
  /\ WF_vars(StopAfterAbandon)

-----------------------------------------------------------------------------
(* Properties *)

One(b) == IF b THEN 1 ELSE 0
Buffers == recycle + Len(filled) + One(holds) + One(workerPc = "busy")

(* Buffers are never duplicated, and none leaks while both threads run:    *)
(* the pool bounds the queued audio and never shrinks that bound.  Hence   *)
(* the filled queue, as long as the pool, never refuses a chunk.           *)
BuffersConserved ==
  /\ Buffers <= PoolSize
  /\ monitorPc \in {"run", "feed", "tail", "flush"} /\ workerPc \in {"recv", "busy", "look"}
       => Buffers = PoolSize
  /\ holds => HasRoom

(* The recognizer hears the audio in order and never twice; a gap means    *)
(* that an overflow was counted.                                           *)
HeardInOrder ==
  /\ \A i, j \in DOMAIN heard : i < j => heard[i] < heard[j]
  /\ workerPc \in {"recv", "busy", "look"} /\ ~overflow => \A i \in DOMAIN heard : heard[i] = i

(* A worker whose feeder was abandoned does not finalize: it cannot see    *)
(* that the input is finished without seeing that it was abandoned.  (One  *)
(* that failed by itself may look before its source is torn down.)         *)
AbandonedNotFinalized == abandoned /\ ~failed => ~finalized

(* Once asked to stop, both threads end: neither waits for the other.      *)
TeardownEnds == stopFlag ~> monitorPc = "done" /\ workerPc = "done"

(* A graceful stop loses no audio (lifecycle policy, section 3).  Violated *)
(* (stop_misses_tail.cfg): the worker looks at `finished` after it found   *)
(* the queue empty.                                                        *)
StopHearsAll ==
  workerPc = "done" /\ finalized /\ ~overflow => Len(heard) = fed

(* A source torn down for a fault is not finalized (spec 10, recovery-safe *)
(* identity).  Violated (fault_finalizes_interim.cfg): the monitor chooses *)
(* its tail before the teardown sets the flag.                             *)
FaultNotFinalized == faulted = "handled" => ~finalized
=============================================================================
