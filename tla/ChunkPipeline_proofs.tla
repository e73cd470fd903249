------------------------ MODULE ChunkPipeline_proofs ------------------------
(***************************************************************************)
(* Theorems about ChunkPipeline, for every pool size, chunk and block      *)
(* size.                                                                   *)
(***************************************************************************)
EXTENDS ChunkPipeline, SequenceTheorems, TLAPS

(* What the proofs need to know of sequences of units                      *)
LEMMA UnitsFacts ==
  /\ <<>> \in Units /\ <<>> \in Seq(Units) /\ Len(<<>>) = 0
  /\ \A u \in Units : Len(u) \in Nat
  /\ \A u, v \in Units : u \o v \in Units /\ Len(u \o v) = Len(u) + Len(v)
<1>1. \A u, v \in Units : u \o v \in Units /\ Len(u \o v) = Len(u) + Len(v)
  BY ConcatProperties DEF Units
<1> QED
  BY <1>1, EmptySeq, LenProperties DEF Units

(* What CopyUnits takes from the block fits the chunk.                     *)
LEMMA CopyFits ==
  ASSUME TypeOK,
         NEW n, n = IF pending < Space THEN pending ELSE Space
  PROVE  /\ n \in Nat
         /\ n <= pending
         /\ current \o [i \in 1..n |-> fed + i] \in Units
         /\ n # Space => Len(current \o [i \in 1..n |-> fed + i]) < ChunkUnits
<1>1. /\ current \in Seq(Nat) /\ Len(current) \in Nat /\ Len(current) < ChunkUnits
      /\ pending \in Nat /\ fed \in Nat /\ ChunkUnits \in Nat
  BY PipelineAssumption DEF TypeOK, Units
<1>2. Space \in Nat /\ n \in Nat /\ n <= pending /\ n <= Space
  BY <1>1 DEF Space
<1>3. /\ [i \in 1..n |-> fed + i] \in Seq(Nat)
      /\ Len([i \in 1..n |-> fed + i]) = n
  BY <1>1, <1>2
<1>4. Len(current \o [i \in 1..n |-> fed + i]) = Len(current) + n
  BY <1>1, <1>3, UnitsFacts DEF Units
<1>5. n # Space => Len(current) + n < ChunkUnits
  BY <1>1, <1>2 DEF Space
<1> HIDE DEF Space
<1>6. current \o [i \in 1..n |-> fed + i] \in Seq(Nat)
  BY <1>1, <1>3, UnitsFacts DEF Units
<1> QED
  BY <1>2, <1>4, <1>5, <1>6 DEF Units

(* Type correctness; in particular the chunk being filled is never full    *)
(* between two steps of the monitor thread.                                *)
THEOREM TypeCorrect == Spec => []TypeOK
<1>1. Init => TypeOK
  <2> SUFFICES ASSUME Init
               PROVE  TypeOK
    OBVIOUS
  <2>1. recycle \in Nat /\ Len(current) < ChunkUnits
    BY PipelineAssumption, UnitsFacts DEF Init
  <2>2. filled \in Seq(Units) /\ current \in Units /\ hand \in Units /\ heard \in Units
    BY UnitsFacts DEF Init
  <2> QED
    BY <2>1, <2>2 DEF Init, TypeOK
<1>2. TypeOK /\ [Next]_vars => TypeOK'
  <2> SUFFICES ASSUME TypeOK, [Next]_vars
               PROVE  TypeOK'
    OBVIOUS
  <2> USE DEF TypeOK, poolVars, feederVars, workerVars, ownerVars
  <2>1. CASE TakeBlock
    BY <2>1, PipelineAssumption DEF TakeBlock
  <2>2. CASE AcquireBuffer
    <3>1. /\ recycle' \in Nat /\ pending' \in Nat /\ fed' \in Nat
          /\ current' \in Units /\ Len(current') < ChunkUnits
      BY <2>2, UnitsFacts, PipelineAssumption DEF AcquireBuffer
    <3>2. /\ holds' \in BOOLEAN /\ overflow' \in BOOLEAN
          /\ monitorPc' \in {"run", "feed"}
      BY <2>2 DEF AcquireBuffer, CountDrop
    <3> QED
      BY <2>2, <3>1, <3>2 DEF AcquireBuffer
  <2>3. CASE CopyUnits
    <3> DEFINE n == IF pending < Space THEN pending ELSE Space
               copied == current \o [i \in 1..n |-> fed + i]
    <3>1. /\ n \in Nat /\ n <= pending /\ copied \in Units
          /\ n # Space => Len(copied) < ChunkUnits
      BY CopyFits
    <3> HIDE DEF n, copied
    <3>2. /\ current' = IF n = Space THEN <<>> ELSE copied
          /\ fed' = fed + n /\ pending' = pending - n
          /\ filled' = filled \/ filled' = Append(filled, copied)
          /\ holds' \in BOOLEAN /\ overflow' \in BOOLEAN
          /\ monitorPc' \in {"run", "feed"}
          /\ UNCHANGED <<recycle, finished, abandoned, blocks, workerVars, ownerVars>>
      BY <2>3 DEF CopyUnits, CountDrop, n, copied
    <3>3. current' \in Units /\ Len(current') < ChunkUnits
      BY <3>1, <3>2, PipelineAssumption, UnitsFacts
    <3>4. filled' \in Seq(Units)
      BY <3>1, <3>2
    <3>5. fed' \in Nat /\ pending' \in Nat
      BY <3>1, <3>2
    <3> QED
      BY <3>2, <3>3, <3>4, <3>5
  <2>4. CASE SourceFaults
    BY <2>4 DEF SourceFaults
  <2>5. CASE SeeStop
    BY <2>5 DEF SeeStop
  <2>6. CASE ChooseTail
    BY <2>6 DEF ChooseTail
  <2>7. CASE FlushTail
    <3>1. current' \in Units /\ Len(current') < ChunkUnits
      BY <2>7, PipelineAssumption, UnitsFacts DEF FlushTail
    <3>2. filled' \in Seq(Units)
      BY <2>7 DEF FlushTail
    <3>3. overflow' \in BOOLEAN
      BY <2>7 DEF FlushTail, CountDrop
    <3>4. /\ monitorPc' = "mark" /\ holds' = FALSE
          /\ UNCHANGED <<recycle, finished, abandoned, blocks, pending, fed,
                         workerVars, ownerVars>>
      BY <2>7 DEF FlushTail
    <3> QED
      BY <3>1, <3>2, <3>3, <3>4, ZenonT(40)
  <2>8. CASE MarkFinished
    BY <2>8 DEF MarkFinished
  <2>9. CASE MarkAbandoned
    <3>1. current' \in Units /\ Len(current') < ChunkUnits
      BY <2>9, PipelineAssumption, UnitsFacts DEF MarkAbandoned
    <3>2. /\ monitorPc' = "mark" /\ abandoned' = TRUE /\ holds' = FALSE
          /\ UNCHANGED <<recycle, filled, finished, overflow, blocks, pending, fed,
                         workerVars, ownerVars>>
      BY <2>9 DEF MarkAbandoned
    <3> QED
      BY <3>1, <3>2, ZenonT(40)
  <2>10. CASE Receive
    <3>1. filled' \in Seq(Units) /\ hand' \in Units
      BY <2>10 DEF Receive
    <3>2. workerPc' \in {"recv", "busy", "look"} /\ drained' \in BOOLEAN
      BY <2>10 DEF Receive
    <3> QED
      BY <2>10, <3>1, <3>2 DEF Receive
  <2>11. CASE Decode
    <3>1. heard' \in Units /\ hand' \in Units
      BY <2>11, UnitsFacts DEF Decode
    <3> QED
      BY <2>11, <3>1 DEF Decode
  <2>12. CASE DecodeFails
    BY <2>12, UnitsFacts DEF DecodeFails
  <2>13. CASE LookFinished
    BY <2>13 DEF LookFinished
  <2>14. CASE End
    BY <2>14 DEF End
  <2>15. CASE OwnerStep
    <3>1. CASE RequestStop
      BY <3>1 DEF RequestStop
    <3>2. CASE RequestAbandon
      BY <3>2 DEF RequestAbandon
    <3>3. CASE StopAfterAbandon
      BY <3>3 DEF StopAfterAbandon
    <3> QED
      BY <2>15, <3>1, <3>2, <3>3 DEF OwnerStep
  <2>16. CASE UNCHANGED vars
    BY <2>16 DEF vars
  <2> QED
    BY <2>1, <2>2, <2>3, <2>4, <2>5, <2>6, <2>7, <2>8, <2>9, <2>10, <2>11,
       <2>12, <2>13, <2>14, <2>15, <2>16
    DEF Next, MonitorStep, WorkerStep
<1> QED
  BY <1>1, <1>2, PTL DEF Spec

-----------------------------------------------------------------------------
(* The pool: counted over the recycle queue, the filled queue, the         *)
(* feeder's chunk and the worker's, buffers are never duplicated and none  *)
(* leaks while both threads run; so the filled queue never refuses a       *)
(* chunk.  Whatever the sizes, every step moves one buffer from one place  *)
(* to another, except those that end a thread.                             *)
THEOREM BuffersAreConserved == Spec => []BuffersConserved
<1>1. Init => BuffersConserved
  BY PipelineAssumption, UnitsFacts
  DEF Init, BuffersConserved, Buffers, One, HasRoom
<1>2. TypeOK /\ TypeOK' /\ BuffersConserved /\ [Next]_vars => BuffersConserved'
  <2> SUFFICES ASSUME TypeOK, TypeOK', BuffersConserved, [Next]_vars
               PROVE  BuffersConserved'
    OBVIOUS
  <2> DEFINE Running == /\ monitorPc \in {"run", "feed", "tail", "flush"}
                        /\ workerPc \in {"recv", "busy", "look"}
  <2>1. /\ recycle \in Nat /\ Len(filled) \in Nat /\ PoolSize \in Nat
        /\ recycle' \in Nat /\ Len(filled') \in Nat
    BY PipelineAssumption, LenProperties DEF TypeOK
  <2>2. \A u \in Units : Len(Append(filled, u)) = Len(filled) + 1
    BY AppendProperties DEF TypeOK
  <2>3. filled # <<>> => Len(Tail(filled)) = Len(filled) - 1
    BY HeadTailProperties DEF TypeOK
  <2>4. Buffers' <= Buffers /\ (Running' => Running /\ Buffers' = Buffers)
    <3> USE DEF poolVars, feederVars, workerVars, ownerVars, Buffers, One
    <3>1. CASE TakeBlock
      BY <3>1, <2>1 DEF TakeBlock
    <3>2. CASE AcquireBuffer
      BY <3>2, <2>1 DEF AcquireBuffer
    <3>3. CASE CopyUnits
      <4> DEFINE n == IF pending < Space THEN pending ELSE Space
                 copied == current \o [i \in 1..n |-> fed + i]
      <4>1. copied \in Units /\ holds = TRUE
        BY <3>3, CopyFits DEF CopyUnits, TypeOK
      <4>2. \/ holds' = FALSE /\ filled' = Append(filled, copied)
            \/ UNCHANGED <<holds, filled>>
        BY <3>3 DEF CopyUnits
      <4>3. UNCHANGED <<recycle, workerPc>> /\ monitorPc = "feed" /\ monitorPc' \in {"run", "feed"}
        BY <3>3 DEF CopyUnits
      <4> HIDE DEF n, copied
      <4> QED
        <5>1. CASE holds' = FALSE /\ filled' = Append(filled, copied)
          BY <4>1, <4>3, <5>1, <2>1, <2>2
        <5>2. CASE UNCHANGED <<holds, filled>>
          BY <4>3, <5>2, <2>1
        <5> QED
          BY <4>2, <5>1, <5>2
    <3>4. CASE SourceFaults
      BY <3>4, <2>1 DEF SourceFaults
    <3>5. CASE SeeStop
      BY <3>5, <2>1 DEF SeeStop
    <3>6. CASE ChooseTail
      BY <3>6, <2>1 DEF ChooseTail
    <3>7. CASE FlushTail
      <4>1. /\ holds' = FALSE
            /\ \/ filled' = filled
               \/ holds /\ filled' = Append(filled, current)
        BY <3>7 DEF FlushTail
      <4>2. Len(Append(filled, current)) = Len(filled) + 1
        BY <2>2 DEF TypeOK
      <4> QED
        BY <3>7, <4>1, <4>2, <2>1 DEF FlushTail
    <3>8. CASE MarkFinished
      BY <3>8, <2>1 DEF MarkFinished
    <3>9. CASE MarkAbandoned
      BY <3>9, <2>1 DEF MarkAbandoned
    <3>10. CASE Receive
      <4>1. CASE filled # <<>>
        BY <3>10, <4>1, <2>1, <2>3 DEF Receive
      <4>2. CASE filled = <<>>
        BY <3>10, <4>2, <2>1 DEF Receive
      <4> QED
        BY <4>1, <4>2
    <3>11. CASE Decode
      BY <3>11, <2>1 DEF Decode
    <3>12. CASE DecodeFails
      BY <3>12, <2>1 DEF DecodeFails
    <3>13. CASE LookFinished
      BY <3>13, <2>1 DEF LookFinished
    <3>14. CASE End
      BY <3>14, <2>1 DEF End
    <3>15. CASE OwnerStep
      BY <3>15, <2>1 DEF OwnerStep, RequestStop, RequestAbandon, StopAfterAbandon
    <3>16. CASE UNCHANGED vars
      BY <3>16, <2>1 DEF vars
    <3> QED
      BY <3>1, <3>2, <3>3, <3>4, <3>5, <3>6, <3>7, <3>8, <3>9, <3>10, <3>11,
         <3>12, <3>13, <3>14, <3>15, <3>16
      DEF Next, MonitorStep, WorkerStep
  <2>5. Buffers' <= PoolSize /\ (Running' => Buffers' = PoolSize)
    BY <2>1, <2>4 DEF BuffersConserved, Buffers, One
  <2>6. holds' => HasRoom'
    BY <2>1, <2>5 DEF Buffers, One, HasRoom
  <2> QED
    BY <2>5, <2>6 DEF BuffersConserved
<1> QED
  BY <1>1, <1>2, TypeCorrect, PTL DEF Spec

-----------------------------------------------------------------------------
(* What makes AbandonedNotFinalized inductive: unless it fails, the worker *)
(* leaves its loop only after `finished`, which is the last thing the      *)
(* monitor thread sets, after `abandoned`.                                 *)
AbandonIsSeen ==
  /\ finished => monitorPc = "done"
  /\ workerPc \in {"end", "done"} => finished \/ failed
  /\ finalized => workerPc = "done"
  /\ AbandonedNotFinalized

(* A worker that ends by itself sees that its feeder was abandoned: the    *)
(* order of the two flags is enough, whatever is still queued.             *)
THEOREM AbandonedIsNotFinalized == Spec => []AbandonedNotFinalized
<1>1. Init => AbandonIsSeen
  BY DEF Init, AbandonIsSeen, AbandonedNotFinalized
<1>2. AbandonIsSeen /\ [Next]_vars => AbandonIsSeen'
  <2> SUFFICES ASSUME AbandonIsSeen, [Next]_vars
               PROVE  AbandonIsSeen'
    OBVIOUS
  <2> USE DEF AbandonIsSeen, AbandonedNotFinalized,
              poolVars, feederVars, workerVars, ownerVars
  <2>1. CASE MonitorStep
    BY <2>1 DEF MonitorStep, TakeBlock, AcquireBuffer, CopyUnits, SeeStop,
                ChooseTail, FlushTail, MarkFinished, MarkAbandoned
  <2>2. CASE Receive
    BY <2>2 DEF Receive
  <2>3. CASE Decode
    BY <2>3 DEF Decode
  <2>4. CASE LookFinished
    BY <2>4 DEF LookFinished
  <2>5. CASE End
    BY <2>5 DEF End
  <2>6. CASE OwnerStep
    BY <2>6 DEF OwnerStep, RequestStop, RequestAbandon, StopAfterAbandon
  <2>7. CASE SourceFaults
    BY <2>7 DEF SourceFaults
  <2>8. CASE DecodeFails
    BY <2>8 DEF DecodeFails
  <2>9. CASE UNCHANGED vars
    BY <2>9 DEF vars
  <2> QED
    BY <2>1, <2>2, <2>3, <2>4, <2>5, <2>6, <2>7, <2>8, <2>9
    DEF Next, WorkerStep
<1>3. AbandonIsSeen => AbandonedNotFinalized
  BY DEF AbandonIsSeen
<1> QED
  BY <1>1, <1>2, <1>3, PTL DEF Spec

-----------------------------------------------------------------------------
(* The order of the audio.  A unit is numbered by its place in what the    *)
(* source was offered, so order is a relation between the numbers in the   *)
(* recognizer, in the worker's hand, in each queued chunk, and in the      *)
(* feeder's chunk.                                                         *)
Rising(s) == \A i, j \in DOMAIN s : i < j => s[i] < s[j]
Before(s, t) == \A i \in DOMAIN s, j \in DOMAIN t : s[i] < t[j]
Upto(s, n) == \A i \in DOMAIN s : s[i] <= n

\* the last unit that was offered before the feeder's chunk began
Submitted == fed - Len(current)

(* Whatever was dropped: the places follow each other, and the feeder's    *)
(* chunk is contiguous and ends with the last unit offered.                *)
QueueOrdered ==
  /\ Rising(heard) /\ Rising(hand) /\ Before(heard, hand)
  /\ Upto(heard, Submitted) /\ Upto(hand, Submitted)
  /\ \A k \in DOMAIN filled :
       /\ filled[k] # <<>>
       /\ Rising(filled[k]) /\ Upto(filled[k], Submitted)
       /\ Before(heard, filled[k]) /\ Before(hand, filled[k])
  /\ \A k, l \in DOMAIN filled : k < l => Before(filled[k], filled[l])
  /\ \A i \in DOMAIN current : current[i] = Submitted + i
  /\ ~holds => current = <<>>
  /\ workerPc # "busy" => hand = <<>>

\* the last unit of the first k queued chunks and of all before them
Top(k) == IF k = 0 THEN Len(heard) + Len(hand) ELSE filled[k][Len(filled[k])]

(* While nothing was dropped, each place begins right after the one before *)
(* it.  (An abandoned feeder drops its chunk uncounted, but submits        *)
(* nothing after it.)                                                      *)
NothingSkipped ==
  workerPc \in {"recv", "busy", "look"} /\ ~overflow =>
    /\ \A i \in DOMAIN heard : heard[i] = i
    /\ \A i \in DOMAIN hand : hand[i] = Len(heard) + i
    /\ \A k \in DOMAIN filled : \A i \in DOMAIN filled[k] : filled[k][i] = Top(k - 1) + i
    /\ monitorPc \notin {"mark", "done"} => Submitted = Top(Len(filled))

InOrder == QueueOrdered /\ NothingSkipped

(* Indices into the sequences the steps build                              *)
LEMMA SeqFacts ==
  /\ \A s \in Units : /\ DOMAIN s = 1..Len(s) /\ Len(s) \in Nat
                      /\ \A i \in DOMAIN s : s[i] \in Nat
                      /\ s = <<>> <=> Len(s) = 0
  /\ \A q \in Seq(Units) : /\ DOMAIN q = 1..Len(q) /\ Len(q) \in Nat
                           /\ \A k \in DOMAIN q : q[k] \in Units
                           /\ q = <<>> <=> Len(q) = 0
  /\ DOMAIN <<>> = {}
  BY DEF Units

LEMMA ConcatAt ==
  ASSUME NEW s \in Units, NEW t \in Units
  PROVE  /\ s \o t \in Units
         /\ DOMAIN (s \o t) = 1..(Len(s) + Len(t))
         /\ \A i \in 1..(Len(s) + Len(t)) :
              (s \o t)[i] = IF i <= Len(s) THEN s[i] ELSE t[i - Len(s)]
  BY UnitsFacts, SeqFacts, ConcatProperties DEF Units

LEMMA AppendAt ==
  ASSUME NEW q \in Seq(Units), NEW u \in Units
  PROVE  /\ DOMAIN Append(q, u) = 1..(Len(q) + 1)
         /\ Len(Append(q, u)) = Len(q) + 1
         /\ \A k \in 1..Len(q) : Append(q, u)[k] = q[k]
         /\ Append(q, u)[Len(q) + 1] = u
  BY AppendProperties

LEMMA TailAt ==
  ASSUME NEW q \in Seq(Units), q # <<>>
  PROVE  /\ DOMAIN Tail(q) = 1..(Len(q) - 1)
         /\ Len(Tail(q)) = Len(q) - 1
         /\ \A k \in 1..(Len(q) - 1) : Tail(q)[k] = q[k + 1]
         /\ Head(q) = q[1]
         /\ 1 \in DOMAIN q
  BY HeadTailProperties, SeqFacts

(* The chunk CopyUnits leaves: contiguous, and it ends with the last unit  *)
(* offered.                                                                *)
LEMMA CopiedAt ==
  ASSUME TypeOK, QueueOrdered,
         NEW n, n = IF pending < Space THEN pending ELSE Space,
         NEW copied, copied = current \o [i \in 1..n |-> fed + i]
  PROVE  /\ copied \in Units
         /\ n \in Nat
         /\ Len(copied) = Len(current) + n
         /\ n = Space => Len(copied) = ChunkUnits
         /\ \A i \in DOMAIN copied : copied[i] = Submitted + i
<1>1. /\ n \in Nat /\ copied \in Units
  BY CopyFits
<1>2. /\ current \in Units /\ fed \in Nat /\ Len(current) \in Nat /\ ChunkUnits \in Nat
  BY UnitsFacts, PipelineAssumption DEF TypeOK
<1> DEFINE new == [i \in 1..n |-> fed + i]
<1>3. /\ new \in Units /\ Len(new) = n /\ \A i \in 1..n : new[i] = fed + i
      /\ copied = current \o new
  BY <1>1, <1>2 DEF Units
<1> HIDE DEF new
<1>4. Len(copied) = Len(current) + n
  BY <1>2, <1>3, UnitsFacts
<1>5. ASSUME NEW i \in DOMAIN copied
      PROVE  copied[i] = Submitted + i
  <2>1. i \in 1..(Len(current) + n)
    BY <1>1, <1>4, SeqFacts
  <2>2. copied[i] = IF i <= Len(current) THEN current[i] ELSE new[i - Len(current)]
    BY <2>1, <1>2, <1>3, ConcatAt
  <2>3. CASE i <= Len(current)
    BY <2>1, <2>2, <2>3, <1>2, SeqFacts DEF QueueOrdered
  <2>4. CASE i > Len(current)
    BY <2>1, <2>2, <2>4, <1>1, <1>2, <1>3 DEF Submitted
  <2> QED
    BY <2>1, <2>3, <2>4, <1>1, <1>2
<1>6. n = Space => Len(current) + n = ChunkUnits
  BY <1>2 DEF Space
<1> QED
  BY <1>1, <1>4, <1>5, <1>6

(* Steps that move no audio: the places stay, and dropping what was not    *)
(* yet submitted only moves the beginning of the next chunk.               *)
LEMMA DropKeepsOrder ==
  ASSUME TypeOK, TypeOK', InOrder,
         UNCHANGED <<filled, heard, hand>>,
         Submitted <= Submitted', current' = <<>> \/ UNCHANGED <<current, fed, holds>>,
         workerPc' # "busy" => hand = <<>>,
         workerPc' \in {"recv", "busy", "look"} /\ ~overflow' =>
           /\ workerPc \in {"recv", "busy", "look"} /\ ~overflow
           /\ monitorPc' \notin {"mark", "done"} =>
                monitorPc \notin {"mark", "done"} /\ Submitted' = Submitted
  PROVE  InOrder'
<1>1. /\ heard \in Units /\ hand \in Units /\ filled \in Seq(Units)
      /\ current \in Units /\ current' \in Units /\ fed \in Nat /\ fed' \in Nat
  BY DEF TypeOK
<1>2. Submitted \in Int /\ Submitted' \in Int
  BY <1>1, SeqFacts DEF Submitted
<1>3. \A s \in Units : Upto(s, Submitted) => Upto(s, Submitted')
  BY <1>2, SeqFacts DEF Upto
<1>4. QueueOrdered'
  <2>1. /\ Rising(heard)' /\ Rising(hand)' /\ Before(heard, hand)'
        /\ Upto(heard, Submitted)' /\ Upto(hand, Submitted)'
    BY <1>1, <1>3 DEF InOrder, QueueOrdered, Rising, Before, Upto
  <2>2. \A k \in DOMAIN filled' :
          /\ filled'[k] # <<>>
          /\ Rising(filled'[k]) /\ Upto(filled'[k], Submitted')
          /\ Before(heard', filled'[k]) /\ Before(hand', filled'[k])
    BY <1>1, <1>3, SeqFacts DEF InOrder, QueueOrdered
  <2>3. \A k, l \in DOMAIN filled' : k < l => Before(filled'[k], filled'[l])
    BY DEF InOrder, QueueOrdered
  <2>4. /\ \A i \in DOMAIN current' : current'[i] = Submitted' + i
        /\ ~holds' => current' = <<>>
    BY SeqFacts DEF InOrder, QueueOrdered, Submitted
  <2> QED
    BY <2>1, <2>2, <2>3, <2>4 DEF QueueOrdered
<1>5. NothingSkipped'
  BY DEF InOrder, NothingSkipped, Top
<1> QED
  BY <1>4, <1>5 DEF InOrder

(* Submitting a chunk that begins right after what was submitted before.   *)
LEMMA SubmitKeepsOrder ==
  ASSUME TypeOK, TypeOK', InOrder, NEW chunk \in Units, chunk # <<>>,
         filled' = Append(filled, chunk),
         \A i \in DOMAIN chunk : chunk[i] = Submitted + i,
         UNCHANGED <<heard, hand, workerPc, overflow>>,
         monitorPc \notin {"mark", "done"},
         current' = <<>>, fed' = Submitted + Len(chunk)
  PROVE  InOrder'
<1>1. /\ heard \in Units /\ hand \in Units /\ filled \in Seq(Units)
      /\ fed \in Nat /\ fed' \in Nat /\ current \in Units /\ Len(chunk) \in Nat
      /\ Len(filled) \in Nat
  BY SeqFacts DEF TypeOK
<1>2. /\ Submitted \in Int /\ Submitted' \in Int
      /\ Submitted' = Submitted + Len(chunk) /\ Submitted <= Submitted'
  BY <1>1, SeqFacts DEF Submitted
<1>3. \A s \in Units : Upto(s, Submitted) => Upto(s, Submitted') /\ Before(s, chunk)
  BY <1>2, SeqFacts DEF Upto, Before
<1>4. Rising(chunk) /\ Upto(chunk, Submitted')
  BY <1>2, SeqFacts DEF Rising, Upto
<1>5. /\ DOMAIN filled' = 1..(Len(filled) + 1)
      /\ Len(filled') = Len(filled) + 1
      /\ DOMAIN filled = 1..Len(filled)
      /\ \A k \in DOMAIN filled : filled'[k] = filled[k] /\ filled[k] \in Units
      /\ filled'[Len(filled) + 1] = chunk
  BY <1>1, AppendAt, SeqFacts
<1>6. QueueOrdered'
  <2>1. /\ Rising(heard)' /\ Rising(hand)' /\ Before(heard, hand)'
        /\ Upto(heard, Submitted)' /\ Upto(hand, Submitted)'
    BY <1>1, <1>3 DEF InOrder, QueueOrdered, Rising, Before, Upto
  <2>2. ASSUME NEW k \in DOMAIN filled'
        PROVE  /\ filled'[k] # <<>>
               /\ Rising(filled'[k]) /\ Upto(filled'[k], Submitted')
               /\ Before(heard', filled'[k]) /\ Before(hand', filled'[k])
    <3>1. CASE k \in DOMAIN filled
      BY <3>1, <1>3, <1>5 DEF InOrder, QueueOrdered
    <3>2. CASE k = Len(filled) + 1
      BY <3>2, <1>1, <1>3, <1>4, <1>5 DEF InOrder, QueueOrdered
    <3> QED
      BY <3>1, <3>2, <1>1, <1>5
  <2>3. ASSUME NEW k \in DOMAIN filled', NEW l \in DOMAIN filled', k < l
        PROVE  Before(filled'[k], filled'[l])
    <3>1. k \in DOMAIN filled
      BY <2>3, <1>1, <1>5
    <3>2. CASE l \in DOMAIN filled
      BY <3>1, <3>2, <2>3, <1>5 DEF InOrder, QueueOrdered
    <3>3. CASE l = Len(filled) + 1
      BY <3>1, <3>3, <1>3, <1>5 DEF InOrder, QueueOrdered
    <3> QED
      BY <3>2, <3>3, <1>1, <1>5
  <2>4. /\ \A i \in DOMAIN current' : current'[i] = Submitted' + i
        /\ ~holds' => current' = <<>>
    BY SeqFacts
  <2>5. workerPc' # "busy" => hand' = <<>>
    BY DEF InOrder, QueueOrdered
  <2> QED
    BY <2>1, <2>2, <2>3, <2>4, <2>5 DEF QueueOrdered
<1>7. NothingSkipped'
  <2> SUFFICES ASSUME workerPc \in {"recv", "busy", "look"}, ~overflow
               PROVE  /\ \A i \in DOMAIN heard : heard[i] = i
                      /\ \A i \in DOMAIN hand : hand[i] = Len(heard) + i
                      /\ \A k \in DOMAIN filled' : \A i \in DOMAIN filled'[k] :
                           filled'[k][i] = Top(k - 1)' + i
                      /\ Submitted' = Top(Len(filled))'
    BY DEF NothingSkipped
  <2>1. \A k \in 0..Len(filled) : Top(k)' = Top(k)
    BY <1>1, <1>5 DEF Top
  <2>2. Submitted = Top(Len(filled))
    BY DEF InOrder, NothingSkipped
  <2>3. ASSUME NEW k \in DOMAIN filled', NEW i \in DOMAIN filled'[k]
        PROVE  filled'[k][i] = Top(k - 1)' + i
    <3>1. CASE k \in DOMAIN filled
      BY <3>1, <2>1, <1>1, <1>5 DEF InOrder, NothingSkipped
    <3>2. CASE k = Len(filled) + 1
      BY <3>2, <2>1, <2>2, <1>1, <1>5
    <3> QED
      BY <3>1, <3>2, <1>1, <1>5
  <2>4. Submitted' = Top(Len(filled))'
    <3>1. Len(chunk) \in DOMAIN chunk
      BY <1>1, SeqFacts
    <3> QED
      BY <3>1, <1>1, <1>2, <1>5 DEF Top
  <2> QED
    BY <2>3, <2>4 DEF InOrder, NothingSkipped
<1> QED
  BY <1>6, <1>7 DEF InOrder

(* The worker takes the oldest chunk.                                      *)
LEMMA TakeKeepsOrder ==
  ASSUME TypeOK, TypeOK', InOrder, workerPc = "recv", filled # <<>>,
         hand' = Head(filled), filled' = Tail(filled), workerPc' = "busy",
         UNCHANGED <<heard, fed, current, holds, overflow, monitorPc>>
  PROVE  InOrder'
<1>1. /\ heard \in Units /\ hand \in Units /\ filled \in Seq(Units)
      /\ Len(filled) \in Nat /\ hand = <<>> /\ Len(hand) = 0
  BY SeqFacts DEF TypeOK, InOrder, QueueOrdered
<1>2. /\ DOMAIN filled = 1..Len(filled) /\ 1 \in DOMAIN filled
      /\ DOMAIN filled' = 1..(Len(filled) - 1) /\ Len(filled') = Len(filled) - 1
      /\ \A k \in DOMAIN filled' : k + 1 \in DOMAIN filled /\ filled'[k] = filled[k + 1]
      /\ hand' = filled[1]
  BY <1>1, TailAt, SeqFacts
<1>3. Submitted' = Submitted
  BY DEF Submitted
<1>4. QueueOrdered'
  <2>1. /\ Rising(heard)' /\ Rising(hand)' /\ Before(heard, hand)'
        /\ Upto(heard, Submitted)' /\ Upto(hand, Submitted)'
    BY <1>2, <1>3 DEF InOrder, QueueOrdered, Rising, Before, Upto
  <2>2. ASSUME NEW k \in DOMAIN filled'
        PROVE  /\ filled'[k] # <<>>
               /\ Rising(filled'[k]) /\ Upto(filled'[k], Submitted')
               /\ Before(heard', filled'[k]) /\ Before(hand', filled'[k])
    <3>1. k + 1 \in DOMAIN filled /\ filled'[k] = filled[k + 1] /\ 1 < k + 1
      BY <1>1, <1>2
    <3> QED
      BY <3>1, <1>2, <1>3 DEF InOrder, QueueOrdered
  <2>3. ASSUME NEW k \in DOMAIN filled', NEW l \in DOMAIN filled', k < l
        PROVE  Before(filled'[k], filled'[l])
    <3>1. k + 1 < l + 1
      BY <2>3, <1>1, <1>2
    <3> QED
      BY <3>1, <1>2 DEF InOrder, QueueOrdered
  <2>4. /\ \A i \in DOMAIN current' : current'[i] = Submitted' + i
        /\ ~holds' => current' = <<>>
    BY <1>3 DEF InOrder, QueueOrdered
  <2> QED
    BY <2>1, <2>2, <2>3, <2>4 DEF QueueOrdered
<1>5. NothingSkipped'
  <2> SUFFICES ASSUME ~overflow
               PROVE  /\ \A i \in DOMAIN heard : heard[i] = i
                      /\ \A i \in DOMAIN hand' : hand'[i] = Len(heard) + i
                      /\ \A k \in DOMAIN filled' : \A i \in DOMAIN filled'[k] :
                           filled'[k][i] = Top(k - 1)' + i
                      /\ monitorPc \notin {"mark", "done"} => Submitted' = Top(Len(filled))'
    BY DEF NothingSkipped
  <2>0. NothingSkipped
    BY DEF InOrder
  <2>1. Top(0) = Len(heard)
    BY <1>1, SeqFacts DEF Top
  <2>2. \A i \in DOMAIN hand' : hand'[i] = Len(heard) + i
    BY <2>1, <1>2 DEF InOrder, NothingSkipped
  <2>3. Top(0)' = Top(1)
    <3>1. Top(0)' = Len(heard) + Len(filled[1])
      BY <1>1, <1>2 DEF Top
    <3>2. Len(filled[1]) \in DOMAIN filled[1]
      <4>1. filled[1] \in Units /\ filled[1] # <<>>
        BY <1>1, <1>2, SeqFacts DEF InOrder, QueueOrdered
      <4> QED
        BY <4>1, SeqFacts
    <3>3. filled[1][Len(filled[1])] = Top(1 - 1) + Len(filled[1])
      BY <3>2, <2>0, <1>2 DEF NothingSkipped
    <3>4. Top(1) = filled[1][Len(filled[1])]
      BY DEF Top
    <3> QED
      BY <3>1, <3>3, <3>4, <2>1
  <2>4. \A k \in 0..(Len(filled) - 1) : Top(k)' = Top(k + 1)
    <3>1. ASSUME NEW k \in 1..(Len(filled) - 1)
          PROVE  Top(k)' = Top(k + 1)
      BY <1>1, <1>2 DEF Top
    <3> QED
      BY <3>1, <2>3, <1>1
  <2>5. ASSUME NEW k \in DOMAIN filled', NEW i \in DOMAIN filled'[k]
        PROVE  filled'[k][i] = Top(k - 1)' + i
    <3>1. /\ k + 1 \in DOMAIN filled /\ filled'[k] = filled[k + 1]
          /\ k - 1 \in 0..(Len(filled) - 1) /\ (k - 1) + 1 = (k + 1) - 1
      BY <1>1, <1>2
    <3>2. filled[k + 1][i] = Top((k + 1) - 1) + i
      BY <3>1, <2>0 DEF NothingSkipped
    <3>3. Top(k - 1)' = Top((k - 1) + 1)
      BY <3>1, <2>4
    <3> QED
      BY <3>1, <3>2, <3>3
  <2>6. monitorPc \notin {"mark", "done"} => Submitted' = Top(Len(filled))'
    BY <2>4, <1>1, <1>2, <1>3 DEF InOrder, NothingSkipped
  <2> QED
    BY <2>2, <2>5, <2>6 DEF InOrder, NothingSkipped
<1> QED
  BY <1>4, <1>5 DEF InOrder

(* The recognizer accepts the chunk in hand.                               *)
LEMMA DecodeKeepsOrder ==
  ASSUME TypeOK, TypeOK', InOrder, Decode
  PROVE  InOrder'
<1> USE DEF feederVars
<1>1. /\ heard \in Units /\ hand \in Units /\ filled \in Seq(Units) /\ heard' \in Units
      /\ Len(heard) \in Nat /\ Len(hand) \in Nat
  BY SeqFacts DEF TypeOK
<1>2. /\ heard' = heard \o hand /\ hand' = <<>> /\ workerPc = "busy"
      /\ UNCHANGED <<filled, fed, current, holds, overflow, monitorPc>>
  BY DEF Decode
<1>3. /\ DOMAIN heard' = 1..(Len(heard) + Len(hand))
      /\ Len(heard') = Len(heard) + Len(hand) /\ Len(hand') = 0
      /\ DOMAIN heard = 1..Len(heard) /\ DOMAIN hand = 1..Len(hand) /\ DOMAIN hand' = {}
      /\ \A i \in DOMAIN heard' :
           heard'[i] = IF i <= Len(heard) THEN heard[i] ELSE hand[i - Len(heard)]
  BY <1>1, <1>2, ConcatAt, SeqFacts, UnitsFacts
<1>4. \A i \in DOMAIN heard' :
        \/ i <= Len(heard) /\ i \in DOMAIN heard /\ heard'[i] = heard[i]
        \/ i > Len(heard) /\ i - Len(heard) \in DOMAIN hand /\ heard'[i] = hand[i - Len(heard)]
  BY <1>1, <1>3
<1>5. Submitted' = Submitted
  BY <1>2 DEF Submitted
<1>6. QueueOrdered'
  <2>1. Rising(heard)'
    <3> SUFFICES ASSUME NEW i \in DOMAIN heard', NEW j \in DOMAIN heard', i < j
                 PROVE  heard'[i] < heard'[j]
      BY DEF Rising
    <3>1. i \in Nat /\ j \in Nat
      BY <1>1, <1>3
    <3>2. CASE j <= Len(heard)
      BY <3>1, <3>2, <1>1, <1>4 DEF InOrder, QueueOrdered, Rising
    <3>3. CASE i > Len(heard)
      BY <3>1, <3>3, <1>1, <1>4 DEF InOrder, QueueOrdered, Rising
    <3>4. CASE i <= Len(heard) /\ j > Len(heard)
      BY <3>1, <3>4, <1>1, <1>4 DEF InOrder, QueueOrdered, Before
    <3> QED
      BY <3>1, <3>2, <3>3, <3>4, <1>1
  <2>2. Upto(heard, Submitted)'
    BY <1>4, <1>5 DEF InOrder, QueueOrdered, Upto
  <2>3. Rising(hand)' /\ Before(heard, hand)' /\ Upto(hand, Submitted)'
    BY <1>3 DEF Rising, Before, Upto
  <2>4. \A k \in DOMAIN filled' :
          /\ filled'[k] # <<>>
          /\ Rising(filled'[k]) /\ Upto(filled'[k], Submitted')
          /\ Before(heard', filled'[k]) /\ Before(hand', filled'[k])
    BY <1>2, <1>3, <1>4, <1>5 DEF InOrder, QueueOrdered, Before
  <2> QED
    BY <2>1, <2>2, <2>3, <2>4, <1>2, <1>5 DEF InOrder, QueueOrdered
<1>7. NothingSkipped'
  <2>1. \A k : Top(k)' = Top(k)
    BY <1>1, <1>2, <1>3 DEF Top
  <2>2. ~overflow => \A i \in DOMAIN heard' : heard'[i] = i
    BY <1>1, <1>2, <1>3, <1>4 DEF InOrder, NothingSkipped
  <2> QED
    BY <2>1, <2>2, <1>2, <1>3, <1>5 DEF InOrder, NothingSkipped
<1> QED
  BY <1>6, <1>7 DEF InOrder

(* The recognizer hears the audio in order and never twice, whatever was   *)
(* dropped; and all of it, in place, as long as no drop was counted.       *)
THEOREM HearsInOrder == Spec => []HeardInOrder
<1>1. Init => InOrder
  <2> SUFFICES ASSUME Init
               PROVE  InOrder
    OBVIOUS
  <2>1. /\ heard = <<>> /\ hand = <<>> /\ filled = <<>> /\ current = <<>> /\ fed = 0
        /\ DOMAIN <<>> = {} /\ Len(<<>>) = 0
    BY SeqFacts, UnitsFacts DEF Init
  <2>2. Submitted = Top(Len(filled))
    <3>1. Len(heard) = 0 /\ Len(hand) = 0 /\ Len(filled) = 0 /\ Len(current) = 0
      BY <2>1
    <3>2. Submitted = 0 /\ Top(0) = 0
      BY <3>1, <2>1 DEF Submitted, Top
    <3> QED
      BY <3>1, <3>2
  <2>3. QueueOrdered
    BY <2>1 DEF QueueOrdered, Rising, Before, Upto
  <2> QED
    BY <2>1, <2>2, <2>3 DEF InOrder, NothingSkipped
<1>2. TypeOK /\ TypeOK' /\ InOrder /\ [Next]_vars => InOrder'
  <2> SUFFICES ASSUME TypeOK, TypeOK', InOrder, [Next]_vars
               PROVE  InOrder'
    OBVIOUS
  <2> USE DEF poolVars, feederVars, workerVars, ownerVars
  <2>1. /\ current \in Units /\ Len(current) \in Nat /\ fed \in Nat /\ pending \in Nat
        /\ Len(<<>>) = 0
    BY SeqFacts, UnitsFacts DEF TypeOK
  <2>2. /\ ~holds => current = <<>>
        /\ workerPc # "busy" => hand = <<>>
        /\ \A i \in DOMAIN current : current[i] = Submitted + i
    BY DEF InOrder, QueueOrdered
  <2>3. CASE AcquireBuffer
    BY <2>1, <2>2, <2>3, DropKeepsOrder DEF AcquireBuffer, CountDrop, Submitted
  <2>4. CASE CopyUnits
    <3> DEFINE n == IF pending < Space THEN pending ELSE Space
               copied == current \o [i \in 1..n |-> fed + i]
    <3>1. /\ copied \in Units /\ n \in Nat /\ Len(copied) = Len(current) + n
          /\ n = Space => Len(copied) = ChunkUnits
          /\ \A i \in DOMAIN copied : copied[i] = Submitted + i
      BY CopiedAt DEF InOrder
    <3>2. /\ monitorPc = "feed" /\ monitorPc' \in {"run", "feed"} /\ holds
          /\ fed' = fed + n
          /\ current' = IF n = Space THEN <<>> ELSE copied
          /\ IF n = Space /\ HasRoom
             THEN holds' = FALSE /\ filled' = Append(filled, copied)
             ELSE UNCHANGED <<holds, filled>>
          /\ IF n = Space /\ ~HasRoom THEN overflow' = TRUE ELSE UNCHANGED overflow
          /\ UNCHANGED <<heard, hand, workerPc>>
      BY <2>4 DEF CopyUnits, CountDrop, n, copied
    <3> HIDE DEF n, copied
    <3>3. CASE n = Space /\ HasRoom
      <4>1. copied # <<>>
        BY <3>1, <3>3, PipelineAssumption, SeqFacts
      <4>2. fed' = Submitted + Len(copied)
        BY <3>1, <3>2, <2>1 DEF Submitted
      <4>3. /\ monitorPc \notin {"mark", "done"} /\ current' = <<>>
            /\ filled' = Append(filled, copied)
            /\ UNCHANGED <<heard, hand, workerPc, overflow>>
        BY <3>2, <3>3
      <4> QED
        BY <4>1, <4>2, <4>3, <3>1, SubmitKeepsOrder
    <3>4. CASE n = Space /\ ~HasRoom
      BY <3>1, <3>2, <3>4, <2>1, <2>2, DropKeepsOrder DEF Submitted
    <3>5. CASE n # Space
      <4>1. Submitted' = Submitted
        BY <3>1, <3>2, <3>5, <2>1 DEF Submitted
      <4>2. QueueOrdered'
        BY <4>1, <3>1, <3>2, <3>5, <2>1 DEF InOrder, QueueOrdered, Rising, Before, Upto
      <4>3. NothingSkipped'
        BY <4>1, <3>1, <3>2, <3>5 DEF InOrder, NothingSkipped, Top
      <4> QED
        BY <4>2, <4>3 DEF InOrder
    <3> QED
      BY <3>3, <3>4, <3>5
  <2>5. CASE FlushTail
    <3>1. CASE holds /\ current # <<>> /\ HasRoom
      BY <3>1, <2>1, <2>2, <2>5, SubmitKeepsOrder DEF FlushTail, Submitted, TypeOK
    <3>2. CASE ~(holds /\ current # <<>> /\ HasRoom)
      BY <3>2, <2>1, <2>2, <2>5, DropKeepsOrder DEF FlushTail, CountDrop, Submitted
    <3> QED
      BY <3>1, <3>2
  <2>6. CASE MarkAbandoned
    BY <2>1, <2>2, <2>6, DropKeepsOrder DEF MarkAbandoned, Submitted
  <2>7. CASE Receive
    <3>1. CASE filled # <<>>
      BY <3>1, <2>7, TakeKeepsOrder DEF Receive
    <3>2. CASE filled = <<>>
      BY <3>2, <2>1, <2>2, <2>7, DropKeepsOrder DEF Receive, Submitted
    <3> QED
      BY <3>1, <3>2
  <2>8. CASE Decode
    BY <2>8, DecodeKeepsOrder
  <2>9. CASE DecodeFails
    <3>1. /\ hand' = <<>> /\ workerPc' = "end"
          /\ UNCHANGED <<filled, heard, current, fed, holds>>
      BY <2>9 DEF DecodeFails
    <3>2. Submitted' = Submitted
      BY <3>1 DEF Submitted
    <3>3. QueueOrdered'
      BY <3>1, <3>2, SeqFacts DEF InOrder, QueueOrdered, Rising, Before, Upto
    <3>4. NothingSkipped'
      BY <3>1 DEF NothingSkipped
    <3> QED
      BY <3>3, <3>4 DEF InOrder
  <2>10. CASE \/ TakeBlock \/ SeeStop \/ ChooseTail \/ MarkFinished \/ SourceFaults
              \/ LookFinished \/ End \/ OwnerStep \/ UNCHANGED vars
    <3>1. /\ UNCHANGED <<filled, heard, hand, current, fed, holds, overflow>>
          /\ workerPc' # "busy" => workerPc # "busy"
          /\ workerPc' \in {"recv", "busy", "look"} => workerPc \in {"recv", "busy", "look"}
          /\ monitorPc' \notin {"mark", "done"} => monitorPc \notin {"mark", "done"}
      BY <2>10
      DEF TakeBlock, SeeStop, ChooseTail, MarkFinished, SourceFaults, LookFinished, End,
          OwnerStep, RequestStop, RequestAbandon, StopAfterAbandon, vars
    <3> QED
      BY <3>1, <2>1, <2>2, DropKeepsOrder DEF Submitted
  <2> QED
    BY <2>3, <2>4, <2>5, <2>6, <2>7, <2>8, <2>9, <2>10
    DEF Next, MonitorStep, WorkerStep
<1>3. InOrder => HeardInOrder
  BY DEF InOrder, QueueOrdered, NothingSkipped, Rising, HeardInOrder
<1> QED
  BY <1>1, <1>2, <1>3, TypeCorrect, PTL DEF Spec

=============================================================================
