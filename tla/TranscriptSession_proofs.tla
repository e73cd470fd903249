---------------------- MODULE TranscriptSession_proofs ----------------------
(***************************************************************************)
(* Theorems about TranscriptSession and the SegmentContinuity beneath it,  *)
(* for every set of scenes: any number of workers, any amount of audio,    *)
(* any length of the session and any number of copies.                     *)
(***************************************************************************)
EXTENDS TranscriptSession, SequenceTheorems, WellFoundedInduction, TLAPS

(* The smallest of a set of numbers                                        *)
LEMMA MinIsLeast ==
  ASSUME NEW S \in SUBSET Nat, S # {}
  PROVE  Min(S) \in S /\ \A y \in S : Min(S) <= y
<1>1. PICK x \in S : \A y \in S : ~ (<<y, x>> \in OpToRel(<, Nat))
  BY NatLessThanWellFounded, WFMin
<1>2. \A y \in S : ~ (y < x)
  BY <1>1, Zenon DEF OpToRel
<1>3. \A y \in S : x <= y
  BY <1>2
<1> QED
  BY <1>3 DEF Min

(* What the reducer finds under an id                                      *)
LEMMA KnownRow ==
  ASSUME NEW rows \in Seq(Row), NEW id,
         NEW known, known = SelectInSeq(rows, LAMBDA r : r.id = id)
  PROVE  \/ known = 0 /\ \A i \in 1..Len(rows) : rows[i].id # id
         \/ known \in 1..Len(rows) /\ rows[known].id = id
<1> DEFINE I == {i \in 1..Len(rows) : rows[i].id = id}
<1>1. known = IF I # {} THEN Min(I) ELSE 0
  BY DEF SelectInSeq
<1>2. I # {} => Min(I) \in I
  BY MinIsLeast
<1> QED
  BY <1>1, <1>2

(* What one segment does to the rows: at most one row changes, into the    *)
(* segment, and that row was interim, had its id and started when it did;  *)
(* a segment that is refused finds a row of its id that is final or        *)
(* started at another time.                                                *)
LEMMA ReceiveRow ==
  ASSUME transcript \in Seq(Row), NEW row \in Row
  PROVE  /\ Receive(row) \in Seq(Row)
         /\ Len(transcript) <= Len(Receive(row))
         /\ \A i \in 1..Len(transcript) :
              \/ Receive(row)[i] = transcript[i]
              \/ /\ Receive(row)[i] = row /\ ~IsFinal(transcript[i])
                 /\ transcript[i].id = row.id
         /\ \A i \in 1..Len(Receive(row)) :
              i \notin 1..Len(transcript) => Receive(row)[i] = row
         /\ \/ \E i \in 1..Len(Receive(row)) : Receive(row)[i] = row
            \/ \E i \in 1..Len(transcript) :
                 /\ transcript[i].id = row.id
                 /\ IsFinal(transcript[i]) \/ transcript[i].started # row.started
<1> DEFINE known == SelectInSeq(transcript, LAMBDA r : r.id = row.id)
<1>1. \/ known = 0
      \/ known \in 1..Len(transcript) /\ transcript[known].id = row.id
  BY KnownRow
<1>2. Receive(row) =
        IF known = 0 THEN Append(transcript, row)
        ELSE IF ~IsFinal(transcript[known]) /\ transcript[known].started = row.started
             THEN [transcript EXCEPT ![known] = row]
             ELSE transcript
  BY DEF Receive
<1> HIDE DEF known
<1>3. CASE known = 0
  BY <1>2, <1>3, AppendProperties
<1>4. CASE known # 0 /\ ~IsFinal(transcript[known]) /\ transcript[known].started = row.started
  <2>1. /\ Receive(row) = [transcript EXCEPT ![known] = row]
        /\ known \in 1..Len(transcript) /\ transcript[known].id = row.id
    BY <1>1, <1>2, <1>4
  <2>2. /\ Receive(row) \in Seq(Row) /\ Len(Receive(row)) = Len(transcript)
        /\ \A i \in 1..Len(transcript) :
             Receive(row)[i] = IF i = known THEN row ELSE transcript[i]
    BY <2>1, ExceptSeq
  <2> QED
    BY <1>4, <2>1, <2>2, LenProperties
<1>5. CASE known # 0 /\ ~(~IsFinal(transcript[known]) /\ transcript[known].started = row.started)
  BY <1>1, <1>2, <1>5, LenProperties
<1> QED
  BY <1>3, <1>4, <1>5

-----------------------------------------------------------------------------
(* Types.  An attempt has a worker left to open, and a worker in on_final  *)
(* still has its utterance.                                                *)
Typed ==
  /\ TypeOK
  /\ attempt # "none" => opened < scene.workers
  /\ \A w \in Workers : final[w] # "idle" => started[w] # Unset

Texts == {FinalizedText(rows) : rows \in Seq(Row)}
Writes == [id : Nat, text : Texts, result : {"none", "written", "failed"}]

UITyped ==
  /\ rendered \in Seq(Row)
  /\ confirming \in BOOLEAN
  /\ copyState \in {"idle", "pending", "success", "failure"}
  /\ requestId \in 0..scene.copies
  /\ writes \in Seq(Writes)
  /\ \A i \in DOMAIN writes : writes[i].id \in 1..requestId
  /\ cleared \in 0..Len(emitted)

LEMMA SceneFacts ==
  ASSUME scene \in Scenes
  PROVE  /\ scene.workers \in 1..MaxWorkers
         /\ scene.fed \in Nat /\ scene.now \in Nat /\ scene.copies \in Nat
         /\ MaxWorkers \in Nat \ {0} /\ Workers \subseteq Nat /\ 1 \in Workers
         /\ \A w \in Workers : w < scene.workers => w + 1 \in Workers
  BY ContinuityAssumption DEF Workers

(* The rows a worker sends are rows.                                       *)
LEMMA RowTyped ==
  ASSUME Typed, NEW w \in Workers
  PROVE  /\ CurrentTime(w) \in Nat
         /\ \A start \in Nat : [id |-> index[w], started |-> start, ended |-> Unset] \in Row
         /\ started[w] # Unset =>
              [id |-> index[w], started |-> started[w], ended |-> CurrentTime(w)] \in Row
<1>1. /\ index[w] \in Nat /\ offset[w] \in Nat /\ fed[w] \in Nat
      /\ started[w] \in Nat \cup {Unset}
  BY SceneFacts DEF Typed, TypeOK
<1>2. CurrentTime(w) \in Nat
  BY <1>1 DEF CurrentTime
<1> QED
  BY <1>1, <1>2 DEF Row

LEMMA WorkerTyped ==
  ASSUME Typed, NEW w \in Workers,
         \/ Feed(w) \/ Partial(w) \/ Final(w) \/ FinalRecord(w) \/ FinalEmit(w)
         \/ Exit(w) \/ Fault(w)
  PROVE  /\ Typed' /\ scene' = scene
         /\ emitted' = emitted \/ \E row \in Row : emitted' = Append(emitted, row)
<1> USE DEF Typed, TypeOK, workerVars
<1>0. /\ scene \in Scenes /\ scene.fed \in Nat /\ index[w] \in Nat /\ fed[w] \in 0..scene.fed
      /\ started[w] \in Nat \cup {Unset} /\ CurrentTime(w) \in Nat
  BY SceneFacts, RowTyped
<1>1. CASE Feed(w)
  BY <1>0, <1>1 DEF Feed
<1>2. CASE Partial(w)
  <2> DEFINE start == IF started[w] = Unset THEN CurrentTime(w) ELSE started[w]
             row == [id |-> index[w], started |-> start, ended |-> Unset]
  <2>1. start \in Nat
    BY <1>0
  <2>2. row \in Row
    BY <2>1, RowTyped
  <2>3. /\ started' = [started EXCEPT ![w] = start]
        /\ transcript' = IF current THEN Receive(row) ELSE transcript
        /\ UNCHANGED <<scene, current, open, nextIndex, lastEnded, attempt, context, now,
                       opened, life, index, offset, fed, final, emitted>>
    BY <1>2 DEF Partial
  <2> HIDE DEF start, row
  <2>4. transcript' \in Seq(Row)
    BY <2>2, <2>3, ReceiveRow
  <2>5. /\ started' \in [Workers -> Nat \cup {Unset}]
        /\ \A v \in Workers : final[v] # "idle" => started'[v] # Unset
    BY <2>1, <2>3 DEF Unset
  <2> QED
    BY <2>3, <2>4, <2>5
<1>3. CASE Final(w)
  <2>1. /\ started[w] # Unset /\ final[w] = "idle"
        /\ UNCHANGED <<scene, current, open, nextIndex, lastEnded, attempt, context, now,
                       opened, life, offset, fed, emitted, transcript>>
    BY <1>3 DEF Final
  <2>2. CASE final' = [final EXCEPT ![w] = "record"] /\ UNCHANGED <<index, started>>
    <3>1. \A v \in Workers : final'[v] # "idle" => started'[v] # Unset
      BY <2>1, <2>2
    <3>2. final' \in [Workers -> {"idle", "record", "emit"}]
      BY <2>2
    <3> QED
      BY <2>1, <2>2, <3>1, <3>2
  <2>3. CASE /\ index' = [index EXCEPT ![w] = @ + 1]
             /\ started' = [started EXCEPT ![w] = Unset]
             /\ UNCHANGED final
    <3>1. index' \in [Workers -> Nat] /\ started' \in [Workers -> Nat \cup {Unset}]
      BY <1>0, <2>3
    <3>2. \A v \in Workers : final'[v] # "idle" => started'[v] # Unset
      BY <2>1, <2>3
    <3> QED
      BY <2>1, <2>3, <3>1, <3>2
  <2> QED
    BY <1>3, <2>2, <2>3 DEF Final
<1>4. CASE FinalRecord(w)
  <2>1. /\ final[w] = "record" /\ final' = [final EXCEPT ![w] = "emit"]
        /\ UNCHANGED <<scene, current, open, attempt, context, now, opened, life, index,
                       offset, fed, started, emitted, transcript>>
    BY <1>4 DEF FinalRecord
  <2>2. nextIndex' \in Nat /\ lastEnded' \in Nat
    BY <1>0, <1>4 DEF FinalRecord, Later
  <2>3. /\ final' \in [Workers -> {"idle", "record", "emit"}]
        /\ \A v \in Workers : final'[v] # "idle" => started'[v] # Unset
    BY <2>1
  <2> QED
    BY <2>1, <2>2, <2>3
<1>5. CASE FinalEmit(w)
  <2> DEFINE row == [id |-> index[w], started |-> started[w], ended |-> CurrentTime(w)]
  <2>1. row \in Row
    BY <1>5, RowTyped DEF FinalEmit
  <2>2. /\ emitted' = Append(emitted, row) /\ transcript' = Receive(row)
        /\ index' = [index EXCEPT ![w] = @ + 1]
        /\ started' = [started EXCEPT ![w] = Unset]
        /\ final' = [final EXCEPT ![w] = "idle"]
        /\ UNCHANGED <<scene, current, open, nextIndex, lastEnded, attempt, context, now,
                       opened, life, offset, fed>>
    BY <1>5 DEF FinalEmit
  <2> HIDE DEF row
  <2>3. transcript' \in Seq(Row) /\ emitted' \in Seq(Row)
    <3>1. transcript \in Seq(Row) /\ emitted \in Seq(Row)
      BY <1>0
    <3>2. Append(emitted, row) \in Seq(Row)
      BY <2>1, <3>1, AppendProperties
    <3>3. Receive(row) \in Seq(Row)
      BY <2>1, <3>1, ReceiveRow
    <3> QED
      BY <2>2, <3>2, <3>3
  <2>4. /\ index' \in [Workers -> Nat] /\ started' \in [Workers -> Nat \cup {Unset}]
        /\ final' \in [Workers -> {"idle", "record", "emit"}]
        /\ \A v \in Workers : final'[v] # "idle" => started'[v] # Unset
    BY <1>0, <2>2
  <2> QED
    BY <2>1, <2>2, <2>3, <2>4
<1>6. CASE Exit(w)
  BY <1>6 DEF Exit
<1>7. CASE Fault(w)
  BY <1>7 DEF Fault, AttemptLeft
<1> QED
  BY <1>1, <1>2, <1>3, <1>4, <1>5, <1>6, <1>7

LEMMA SessionStepTyped ==
  ASSUME Typed, ReadContext \/ Restart \/ StopBegin \/ StopTake \/ Tick
  PROVE  Typed' /\ scene' = scene /\ UNCHANGED <<emitted, transcript>>
<1> USE DEF Typed, TypeOK, workerVars
<1>1. CASE ReadContext
  BY <1>1 DEF ReadContext
<1>2. CASE Restart
  <2>1. /\ opened + 1 \in Workers /\ opened \in Nat
    BY <1>2, SceneFacts DEF Restart
  <2>2. StartOffset \in Nat /\ FirstIndex \in Nat
    BY SceneFacts DEF StartOffset, FirstIndex, Later
  <2>3. /\ attempt' = "none"
        /\ UNCHANGED <<scene, current, open, nextIndex, lastEnded, context, now, fed,
                       started, final, emitted, transcript>>
    BY <1>2 DEF Restart
  <2>4. /\ opened' \in Workers
        /\ life' \in [Workers -> {"none", "running", "abandoned", "finishing", "done"}]
        /\ index' \in [Workers -> Nat] /\ offset' \in [Workers -> Nat]
    <3>1. CASE current
      <4>1. /\ opened' = opened + 1
            /\ life' = [life EXCEPT ![opened + 1] = "running"]
            /\ index' = [index EXCEPT ![opened + 1] = FirstIndex]
            /\ offset' = [offset EXCEPT ![opened + 1] = StartOffset]
        BY <1>2, <3>1 DEF Restart
      <4> QED
        BY <2>1, <2>2, <4>1
    <3>2. CASE ~current
      BY <1>2, <3>2 DEF Restart
    <3> QED
      BY <3>1, <3>2
  <2> QED
    BY <2>3, <2>4
<1>3. CASE StopBegin
  BY <1>3 DEF StopBegin
<1>4. CASE StopTake
  BY <1>4 DEF StopTake
<1>5. CASE Tick
  <2>1. scene.now \in Nat /\ now \in 0..scene.now /\ now < scene.now /\ now' = now + 1
    BY <1>5, SceneFacts DEF Tick
  <2>2. now' \in 0..scene.now
    BY <2>1
  <2>3. UNCHANGED <<scene, current, open, nextIndex, lastEnded, attempt, context, opened,
                    life, index, offset, fed, started, final, emitted, transcript>>
    BY <1>5 DEF Tick
  <2> QED
    BY <2>2, <2>3
<1> QED
  BY <1>1, <1>2, <1>3, <1>4, <1>5

(* What the user and the clipboard do leaves the session alone, but for    *)
(* the rows that are cleared.                                              *)
UserStep ==
  \/ Commit \/ ClearActivate \/ ClearCancel \/ ClearConfirm \/ Copy \/ FeedbackEnds
  \/ \E i \in DOMAIN writes : ClipboardAnswers(i) \/ CopySettles(i)

(* The writes that remain when one has been settled                        *)
LEMMA Settled ==
  ASSUME UITyped, NEW i \in DOMAIN writes, writes' = RemoveAt(writes, i)
  PROVE  /\ writes' \in Seq(Writes)
         /\ DOMAIN writes' = 1..(Len(writes) - 1) /\ DOMAIN writes = 1..Len(writes)
         /\ Len(writes) \in Nat
         /\ \A j \in DOMAIN writes' : writes'[j] = writes[IF j < i THEN j ELSE j + 1]
<1> DEFINE a == SubSeq(writes, 1, i - 1)
           b == SubSeq(writes, i + 1, Len(writes))
<1>1. /\ Len(writes) \in Nat /\ DOMAIN writes = 1..Len(writes) /\ i \in 1..Len(writes)
      /\ \A j \in 1..Len(writes) : writes[j] \in Writes
  BY LenProperties DEF UITyped
<1>2. /\ a \in Seq(Writes) /\ Len(a) = i - 1
      /\ \A j \in 1..(i - 1) : a[j] = writes[j]
  BY <1>1, SubSeqProperties
<1>3. /\ b \in Seq(Writes) /\ Len(b) = Len(writes) - i
      /\ \A j \in 1..(Len(writes) - i) : b[j] = writes[j + i]
  <2>1. /\ b \in Seq(Writes)
        /\ Len(b) = IF i + 1 <= Len(writes) THEN Len(writes) - (i + 1) + 1 ELSE 0
        /\ \A j \in 1..(Len(writes) - (i + 1) + 1) : b[j] = writes[(i + 1) + j - 1]
    BY <1>1, SubSeqProperties
  <2>2. /\ Len(writes) - (i + 1) + 1 = Len(writes) - i
        /\ \A j \in 1..(Len(writes) - i) : (i + 1) + j - 1 = j + i
    BY <1>1
  <2>3. Len(b) = Len(writes) - i
    BY <1>1, <2>1
  <2> QED
    BY <2>1, <2>2, <2>3
<1>4. writes' = a \o b
  BY DEF RemoveAt
<1> HIDE DEF a, b
<1>5. /\ writes' \in Seq(Writes) /\ Len(writes') = Len(writes) - 1
      /\ \A j \in 1..(Len(writes) - 1) :
           writes'[j] = IF j <= i - 1 THEN a[j] ELSE b[j - (i - 1)]
  <2>1. /\ a \o b \in Seq(Writes) /\ Len(a \o b) = Len(a) + Len(b)
        /\ \A j \in 1..(Len(a) + Len(b)) :
             (a \o b)[j] = IF j <= Len(a) THEN a[j] ELSE b[j - Len(a)]
    BY <1>2, <1>3, ConcatProperties
  <2>2. Len(a) + Len(b) = Len(writes) - 1 /\ Len(a) = i - 1
    BY <1>1, <1>2, <1>3
  <2> QED
    BY <1>4, <2>1, <2>2
<1>6. DOMAIN writes' = 1..(Len(writes) - 1)
  BY <1>5, LenProperties
<1>7. ASSUME NEW j \in 1..(Len(writes) - 1)
      PROVE  writes'[j] = writes[IF j < i THEN j ELSE j + 1]
  <2>1. CASE j < i
    <3>1. j \in 1..(i - 1) /\ j <= i - 1
      BY <2>1, <1>1
    <3> QED
      BY <2>1, <3>1, <1>2, <1>5
  <2>2. CASE ~(j < i)
    <3>1. j - (i - 1) \in 1..(Len(writes) - i) /\ (j - (i - 1)) + i = j + 1 /\ ~(j <= i - 1)
      BY <2>2, <1>1
    <3> QED
      BY <2>2, <3>1, <1>3, <1>5
  <2> QED
    BY <2>1, <2>2
<1> QED
  BY <1>1, <1>5, <1>6, <1>7

LEMMA UserTyped ==
  ASSUME Typed, UITyped, UserStep
  PROVE  Typed' /\ UITyped' /\ UNCHANGED <<scene, emitted, started, index>>
<1> USE DEF vars, workerVars
<1>0. /\ <<>> \in Seq(Row) /\ scene.copies \in Nat
      /\ transcript \in Seq(Row) /\ Len(emitted) \in Nat
  BY SceneFacts, EmptySeq, LenProperties DEF Typed, TypeOK
<1>1. ASSUME DispatchClear
      PROVE  Typed' /\ rendered' \in Seq(Row) /\ cleared' \in 0..Len(emitted')
             /\ UNCHANGED <<scene, emitted, started, index>>
  BY <1>0, <1>1 DEF DispatchClear, Typed, TypeOK
<1>2. CASE UNCHANGED vars
  <2>1. Typed' /\ UNCHANGED <<scene, emitted, started, index>>
    BY <1>2 DEF Typed, TypeOK
  <2>2. CASE Commit
    BY <2>1, <2>2, <1>0 DEF Commit, UITyped
  <2>3. CASE ClearActivate
    BY <2>1, <2>3, <1>1, <1>0 DEF ClearActivate, UITyped
  <2>4. CASE ClearCancel
    BY <2>1, <2>4 DEF ClearCancel, UITyped
  <2>5. CASE ClearConfirm
    BY <2>1, <2>5, <1>1 DEF ClearConfirm, UITyped
  <2>6. CASE Copy
    <3> DEFINE new == [id |-> requestId + 1, text |-> FinalizedText(rendered), result |-> "none"]
    <3>1. /\ requestId' = requestId + 1 /\ copyState' = "pending"
          /\ writes' = Append(writes, new)
          /\ requestId < scene.copies /\ requestId \in Nat
          /\ UNCHANGED <<rendered, confirming, cleared>>
      BY <2>6, <1>0 DEF Copy, UITyped
    <3>2. FinalizedText(rendered) \in Texts
      BY DEF Texts, UITyped
    <3>3. new \in Writes
      BY <3>1, <3>2 DEF Writes
    <3> HIDE DEF new
    <3>4. /\ writes' \in Seq(Writes) /\ DOMAIN writes' = 1..(Len(writes) + 1)
          /\ \A i \in 1..Len(writes) : writes'[i] = writes[i]
          /\ writes'[Len(writes) + 1] = new /\ Len(writes) \in Nat
          /\ DOMAIN writes = 1..Len(writes)
      BY <3>1, <3>3, AppendProperties, LenProperties DEF UITyped
    <3>5. new.id = requestId + 1
      BY DEF new
    <3>6. \A i \in DOMAIN writes' : writes'[i].id \in 1..requestId'
      BY <3>1, <3>4, <3>5 DEF UITyped
    <3> QED
      BY <2>1, <3>1, <3>4, <3>6, <1>0 DEF UITyped
  <2>7. CASE FeedbackEnds
    BY <2>1, <2>7 DEF FeedbackEnds, UITyped
  <2>8. ASSUME NEW i \in DOMAIN writes, ClipboardAnswers(i)
        PROVE  UITyped'
    <3>1. /\ i \in 1..Len(writes) /\ writes[i] \in Writes
          /\ DOMAIN writes = 1..Len(writes)
      BY LenProperties, ElementOfSeq DEF UITyped
    <3>2. PICK r \in {"written", "failed"} : writes' = [writes EXCEPT ![i].result = r]
      BY <2>8 DEF ClipboardAnswers
    <3>3. /\ [writes[i] EXCEPT !.result = r] \in Writes
          /\ [writes[i] EXCEPT !.result = r].id = writes[i].id
      BY <3>1 DEF Writes
    <3>4. writes' = [writes EXCEPT ![i] = [writes[i] EXCEPT !.result = r]]
      BY <3>2
    <3>5. /\ writes' \in Seq(Writes) /\ Len(writes') = Len(writes)
          /\ \A j \in 1..Len(writes) :
               writes'[j] = IF j = i THEN [writes[i] EXCEPT !.result = r] ELSE writes[j]
      BY <3>1, <3>3, <3>4, ExceptSeq DEF UITyped
    <3>6. \A j \in DOMAIN writes' : writes'[j].id \in 1..requestId
      BY <3>1, <3>3, <3>5, LenProperties DEF UITyped
    <3> QED
      BY <2>1, <2>8, <3>5, <3>6 DEF ClipboardAnswers, UITyped
  <2>9. ASSUME NEW i \in DOMAIN writes, CopySettles(i)
        PROVE  UITyped'
    <3>1. /\ writes' = RemoveAt(writes, i)
          /\ copyState' \in {"idle", "pending", "success", "failure"}
          /\ UNCHANGED <<rendered, confirming, requestId, cleared>>
      BY <2>9 DEF CopySettles, UITyped, Claim
    <3>2. /\ writes' \in Seq(Writes) /\ DOMAIN writes' = 1..(Len(writes) - 1)
          /\ \A j \in DOMAIN writes' : writes'[j] = writes[IF j < i THEN j ELSE j + 1]
          /\ DOMAIN writes = 1..Len(writes) /\ Len(writes) \in Nat
      BY <3>1, Settled
    <3>3. \A j \in DOMAIN writes' : (IF j < i THEN j ELSE j + 1) \in DOMAIN writes
      BY <3>2
    <3>4. \A j \in DOMAIN writes' : writes'[j].id \in 1..requestId
      BY <3>2, <3>3 DEF UITyped
    <3> QED
      BY <2>1, <3>1, <3>2, <3>4 DEF UITyped
  <2> QED
    BY <2>1, <2>2, <2>3, <2>4, <2>5, <2>6, <2>7, <2>8, <2>9 DEF UserStep
<1>3. CASE DispatchClear
  <2>1. CASE ClearActivate
    BY <2>1, <1>1, <1>3 DEF ClearActivate, UITyped
  <2>2. CASE ClearConfirm
    BY <2>2, <1>1, <1>3 DEF ClearConfirm, UITyped
  <2>3. ASSUME ~ClearActivate, ~ClearConfirm
        PROVE  UNCHANGED vars
    BY <2>3 DEF UserStep, Commit, ClearCancel, Copy, FeedbackEnds, ClipboardAnswers, CopySettles
  <2> QED
    BY <1>2, <2>1, <2>2, <2>3
<1> QED
  BY <1>2, <1>3
  DEF UserStep, Commit, ClearActivate, ClearCancel, ClearConfirm, Copy, FeedbackEnds,
      ClipboardAnswers, CopySettles

(* A step is of a worker, of the session or of the user.                   *)
WorkerStep(w) ==
  Feed(w) \/ Partial(w) \/ Final(w) \/ FinalRecord(w) \/ FinalEmit(w) \/ Exit(w) \/ Fault(w)
OtherStep == ReadContext \/ Restart \/ StopBegin \/ StopTake \/ Tick

LEMMA StepCases ==
  ASSUME SessionNext
  PROVE  \/ (\E w \in Workers : WorkerStep(w)) /\ UNCHANGED uiVars
         \/ OtherStep /\ UNCHANGED uiVars
         \/ UserStep
  BY DEF SessionNext, WorkerStep, OtherStep, UserStep

LEMMA StepTyped ==
  ASSUME Typed, UITyped, [SessionNext]_sessionVars
  PROVE  Typed' /\ UITyped' /\ scene' = scene
<1>1. ASSUME NEW w \in Workers, WorkerStep(w), UNCHANGED uiVars
      PROVE  Typed' /\ UITyped' /\ scene' = scene
  <2>1. /\ Typed' /\ scene' = scene
        /\ emitted' = emitted \/ \E row \in Row : emitted' = Append(emitted, row)
    BY <1>1, WorkerTyped DEF WorkerStep
  <2>2. Len(emitted') \in Nat /\ Len(emitted) <= Len(emitted')
    <3>1. emitted \in Seq(Row) /\ Len(emitted) \in Nat
      BY LenProperties DEF Typed, TypeOK
    <3>2. CASE emitted' = emitted
      BY <3>1, <3>2
    <3>3. ASSUME NEW row \in Row, emitted' = Append(emitted, row)
          PROVE  Len(emitted') = Len(emitted) + 1
      BY <3>1, <3>3, AppendProperties
    <3> QED
      BY <2>1, <3>1, <3>2, <3>3
  <2> QED
    BY <1>1, <2>1, <2>2 DEF UITyped, uiVars
<1>2. ASSUME OtherStep, UNCHANGED uiVars
      PROVE  Typed' /\ UITyped' /\ scene' = scene
  BY <1>2, SessionStepTyped DEF OtherStep, UITyped, uiVars
<1>3. ASSUME UserStep
      PROVE  Typed' /\ UITyped' /\ scene' = scene
  BY <1>3, UserTyped
<1>4. CASE UNCHANGED sessionVars
  BY <1>4 DEF sessionVars, vars, uiVars, workerVars, Typed, TypeOK, UITyped
<1> QED
  BY <1>1, <1>2, <1>3, <1>4, StepCases

LEMMA InitTyped ==
  ASSUME SessionInit
  PROVE  Typed /\ UITyped
<1>1. /\ scene \in Scenes /\ 0 \in 0..scene.now /\ 0 \in 0..scene.fed /\ 0 \in 0..scene.copies
      /\ 1 \in Workers
  BY SceneFacts DEF SessionInit, Init
<1>2. /\ <<>> \in Seq(Row) /\ <<>> \in Seq(Writes) /\ Len(<<>>) = 0
      /\ \A i : i \notin DOMAIN <<>>
  OBVIOUS
<1>3. Typed
  BY <1>1, <1>2 DEF SessionInit, Init, Typed, TypeOK
<1>4. UITyped
  <2>1. /\ rendered = <<>> /\ writes = <<>> /\ emitted = <<>> /\ confirming = FALSE
        /\ copyState = "idle" /\ requestId = 0 /\ cleared = 0
    BY DEF SessionInit, Init
  <2>2. cleared \in 0..Len(emitted) /\ rendered \in Seq(Row) /\ writes \in Seq(Writes)
    BY <1>2, <2>1
  <2>3. \A i \in DOMAIN writes : writes[i].id \in 1..requestId
    BY <1>2, <2>1
  <2> QED
    BY <1>1, <2>1, <2>2, <2>3 DEF UITyped
<1> QED
  BY <1>3, <1>4

(* Every variable keeps its type.                                          *)
THEOREM SessionTypes == SessionSpec => []SessionTypeOK
<1>1. SessionInit => Typed /\ UITyped
  BY InitTyped
<1>2. Typed /\ UITyped /\ [SessionNext]_sessionVars => (Typed /\ UITyped)'
  BY StepTyped
<1>3. Typed /\ UITyped => SessionTypeOK
  <2>1. ASSUME UITyped, NEW i \in DOMAIN writes
        PROVE  writes[i].id \in 1..requestId /\ writes[i].result \in {"none", "written", "failed"}
    <3>1. writes[i].id \in 1..requestId /\ writes \in Seq(Writes)
      BY <2>1 DEF UITyped
    <3>2. writes[i] \in Writes
      BY <2>1, <3>1, LenProperties, ElementOfSeq
    <3> QED
      BY <3>1, <3>2 DEF Writes
  <2> QED
    BY <2>1 DEF Typed, UITyped, SessionTypeOK
<1> QED
  BY <1>1, <1>2, <1>3, PTL DEF SessionSpec

-----------------------------------------------------------------------------
(* Copying.  The writes under way are answered in the order they were      *)
(* asked for, the newest of them, once written, is what the clipboard      *)
(* holds, and a copy that is pending has its write among them.             *)
WritesInOrder ==
  /\ \A i, j \in DOMAIN writes : i < j =>
       /\ writes[i].id < writes[j].id
       /\ writes[j].result # "none" => writes[i].result # "none"
  /\ \A i \in DOMAIN writes :
       writes[i].id = requestId /\ writes[i].result = "written" => clipboard = writes[i].text
  /\ PendingIsAnswered

CopyInv == Typed /\ UITyped /\ WritesInOrder

LEMMA CopyKeepsOrder ==
  ASSUME CopyInv, Copy
  PROVE  WritesInOrder'
<1> DEFINE new == [id |-> requestId + 1, text |-> FinalizedText(rendered), result |-> "none"]
<1>1. /\ requestId' = requestId + 1 /\ requestId \in Nat /\ writes \in Seq(Writes)
      /\ writes' = Append(writes, new)
      /\ copyState' = "pending" /\ clipboard' = clipboard
  BY SceneFacts DEF CopyInv, Typed, TypeOK, UITyped, Copy
<1>2. new.id = requestId + 1 /\ new.result = "none"
  OBVIOUS
<1>3. new \in Writes
  BY <1>1 DEF Writes, Texts, CopyInv, UITyped
<1> HIDE DEF new
<1>4. /\ Len(writes) \in Nat /\ DOMAIN writes = 1..Len(writes)
      /\ DOMAIN writes' = 1..(Len(writes) + 1)
      /\ \A i \in 1..Len(writes) : writes'[i] = writes[i] /\ writes[i].id \in 1..requestId
      /\ writes'[Len(writes) + 1] = new
  BY <1>1, <1>3, AppendProperties, LenProperties DEF CopyInv, UITyped
<1>5. ASSUME NEW i \in DOMAIN writes', NEW j \in DOMAIN writes', i < j
      PROVE  /\ writes'[i].id < writes'[j].id
             /\ writes'[j].result # "none" => writes'[i].result # "none"
  <2>1. i \in 1..Len(writes) /\ writes'[i] = writes[i]
    BY <1>4, <1>5
  <2>2. CASE j \in 1..Len(writes)
    BY <1>4, <1>5, <2>1, <2>2 DEF CopyInv, WritesInOrder
  <2>3. CASE j = Len(writes) + 1
    BY <1>1, <1>2, <1>4, <2>1, <2>3
  <2> QED
    BY <1>4, <2>2, <2>3
<1>6. ASSUME NEW i \in DOMAIN writes', writes'[i].id = requestId', writes'[i].result = "written"
      PROVE  FALSE
  <2>1. CASE i \in 1..Len(writes)
    BY <1>1, <1>4, <1>6, <2>1
  <2>2. CASE i = Len(writes) + 1
    BY <1>2, <1>4, <1>6, <2>2
  <2> QED
    BY <1>4, <2>1, <2>2
<1>7. PendingIsAnswered'
  <2>1. Len(writes) + 1 \in DOMAIN writes' /\ writes'[Len(writes) + 1].id = requestId'
    BY <1>1, <1>2, <1>4
  <2> QED
    BY <2>1 DEF PendingIsAnswered
<1> QED
  BY <1>5, <1>6, <1>7 DEF WritesInOrder

LEMMA AnswerKeepsOrder ==
  ASSUME CopyInv, NEW i \in DOMAIN writes, ClipboardAnswers(i)
  PROVE  WritesInOrder'
<1>1. /\ writes \in Seq(Writes) /\ Len(writes) \in Nat /\ DOMAIN writes = 1..Len(writes)
      /\ requestId \in Nat
      /\ \A j \in DOMAIN writes : writes[j] \in Writes /\ writes[j].id \in 1..requestId
  BY SceneFacts, LenProperties, ElementOfSeq DEF CopyInv, Typed, TypeOK, UITyped
<1>2. /\ writes[i].result = "none" /\ \A j \in 1..(i - 1) : writes[j].result # "none"
      /\ UNCHANGED <<copyState, requestId>>
  BY DEF ClipboardAnswers
<1>3. PICK r \in {"written", "failed"} :
        /\ writes' = [writes EXCEPT ![i].result = r]
        /\ clipboard' = IF r = "written" THEN writes[i].text ELSE clipboard
  BY DEF ClipboardAnswers
<1>4. /\ DOMAIN writes' = DOMAIN writes
      /\ \A j \in DOMAIN writes :
           /\ writes'[j].id = writes[j].id /\ writes'[j].text = writes[j].text
           /\ writes'[j].result = IF j = i THEN r ELSE writes[j].result
  BY <1>1, <1>3 DEF Writes
<1>5. \A j, k \in DOMAIN writes : j < k =>
        /\ writes[j].id < writes[k].id
        /\ writes[k].result # "none" => writes[j].result # "none"
  BY DEF CopyInv, WritesInOrder
<1>6. \A j \in DOMAIN writes : j < i => writes[j].result # "none" /\ writes[j].id < writes[i].id
  BY <1>1, <1>2, <1>5
<1>7. \A j \in DOMAIN writes : i < j => writes[j].result = "none" /\ writes[i].id < writes[j].id
  BY <1>2, <1>5
<1>8. \A j, k \in DOMAIN writes' : j < k =>
        /\ writes'[j].id < writes'[k].id
        /\ writes'[k].result # "none" => writes'[j].result # "none"
  BY <1>3, <1>4, <1>5, <1>6
<1>9. ASSUME NEW j \in DOMAIN writes', writes'[j].id = requestId', writes'[j].result = "written"
      PROVE  clipboard' = writes'[j].text
  <2>1. CASE j = i
    BY <1>3, <1>4, <1>9, <2>1
  <2>2. CASE j # i
    <3>1. writes[j].result = "written" /\ writes[j].id = requestId /\ j \in DOMAIN writes
      BY <1>2, <1>4, <1>9, <2>2
    <3>2. j < i
      BY <1>1, <1>7, <2>2, <3>1
    <3> QED
      BY <1>1, <1>6, <3>1, <3>2
  <2> QED
    BY <2>1, <2>2
<1>10. PendingIsAnswered'
  BY <1>2, <1>4 DEF PendingIsAnswered, CopyInv, WritesInOrder
<1> QED
  BY <1>8, <1>9, <1>10 DEF WritesInOrder

LEMMA SettleKeepsOrder ==
  ASSUME CopyInv, NEW i \in DOMAIN writes, CopySettles(i)
  PROVE  /\ WritesInOrder'
         /\ copyState' = "success" =>
              copyState = "success" \/ clipboard' = FinalizedText(rendered')
<1> DEFINE old(j) == IF j < i THEN j ELSE j + 1
<1>1. /\ writes' = RemoveAt(writes, i) /\ UNCHANGED <<requestId, clipboard, rendered>>
      /\ copyState' = IF Superseded(writes[i]) THEN copyState
                      ELSE IF SameText(writes[i]) THEN Claim(writes[i]) ELSE "idle"
  BY DEF CopySettles
<1>2. /\ DOMAIN writes = 1..Len(writes) /\ Len(writes) \in Nat
      /\ DOMAIN writes' = 1..(Len(writes) - 1)
      /\ \A j \in DOMAIN writes' : writes'[j] = writes[old(j)]
  BY <1>1, Settled DEF CopyInv
<1>3. /\ \A j \in DOMAIN writes' : old(j) \in DOMAIN writes
      /\ \A j, k \in DOMAIN writes' : j < k => old(j) < old(k)
      /\ \A j \in DOMAIN writes : j # i => \E k \in DOMAIN writes' : old(k) = j
  <2>1. ASSUME NEW j \in DOMAIN writes, j # i
        PROVE  \E k \in DOMAIN writes' : old(k) = j
    <3>1. CASE j < i
      BY <1>2, <2>1, <3>1
    <3>2. CASE i < j
      <4>1. j - 1 \in DOMAIN writes' /\ old(j - 1) = j
        BY <1>2, <3>2
      <4> QED
        BY <4>1
    <3> QED
      BY <1>2, <2>1, <3>1, <3>2
  <2>2. \A j \in DOMAIN writes' : old(j) \in DOMAIN writes
    BY <1>2
  <2>3. \A j, k \in DOMAIN writes' : j < k => old(j) < old(k)
    BY <1>2
  <2> QED
    BY <2>1, <2>2, <2>3
<1> HIDE DEF old
<1>4. PendingIsAnswered'
  <2> SUFFICES ASSUME copyState' = "pending"
               PROVE  \E k \in DOMAIN writes' : writes'[k].id = requestId'
    BY DEF PendingIsAnswered
  <2>1. writes[i].id # requestId /\ copyState = "pending"
    BY <1>1 DEF Superseded, Claim
  <2>2. PICK j \in DOMAIN writes : writes[j].id = requestId
    BY <2>1 DEF CopyInv, WritesInOrder, PendingIsAnswered
  <2>3. PICK k \in DOMAIN writes' : old(k) = j
    BY <1>3, <2>1, <2>2
  <2> QED
    BY <1>1, <1>2, <2>2, <2>3
<1>5. WritesInOrder'
  BY <1>1, <1>2, <1>3, <1>4 DEF CopyInv, WritesInOrder
<1>6. ASSUME copyState' = "success", copyState # "success"
      PROVE  clipboard' = FinalizedText(rendered')
  <2>1. writes[i].id = requestId /\ writes[i].result = "written"
        /\ FinalizedText(rendered) = writes[i].text
    BY <1>1, <1>6 DEF Superseded, SameText, Claim
  <2> QED
    BY <1>1, <2>1 DEF CopyInv, WritesInOrder
<1> QED
  BY <1>5, <1>6

(* What every other step does to the copies: nothing, or it forgets them   *)
LEMMA StepKeepsCopies ==
  ASSUME CopyInv, [SessionNext]_sessionVars
  PROVE  /\ WritesInOrder'
         /\ copyState' = "success" =>
              copyState = "success" \/ clipboard' = FinalizedText(rendered')
<1>1. CASE /\ UNCHANGED <<requestId, writes, clipboard>>
           /\ copyState' = copyState \/ copyState' = "idle"
  BY <1>1 DEF CopyInv, WritesInOrder, PendingIsAnswered
<1>2. CASE Copy
  BY <1>2, CopyKeepsOrder DEF Copy
<1>3. ASSUME NEW i \in DOMAIN writes, ClipboardAnswers(i) \/ CopySettles(i)
      PROVE  /\ WritesInOrder'
             /\ copyState' = "success" =>
                  copyState = "success" \/ clipboard' = FinalizedText(rendered')
  BY <1>3, AnswerKeepsOrder, SettleKeepsOrder DEF ClipboardAnswers
<1>4. CASE UNCHANGED sessionVars
  BY <1>1, <1>4 DEF sessionVars, uiVars
<1>5. CASE UNCHANGED uiVars
  BY <1>1, <1>5 DEF uiVars
<1>6. CASE UserStep
  BY <1>1, <1>2, <1>3, <1>6
  DEF UserStep, Commit, ClearActivate, DispatchClear, ClearCancel, ClearConfirm, FeedbackEnds
<1> QED
  BY <1>4, <1>5, <1>6, StepCases

LEMMA InitCopies ==
  ASSUME SessionInit
  PROVE  CopyInv
<1>1. writes = <<>> /\ copyState = "idle" /\ \A i : i \notin DOMAIN <<>>
  BY DEF SessionInit
<1>2. WritesInOrder
  BY <1>1 DEF WritesInOrder, PendingIsAnswered
<1> QED
  BY <1>2, InitTyped DEF CopyInv

(* A pending copy always has the answer that ends it on its way, so the    *)
(* button cannot stay disabled for good.                                   *)
THEOREM PendingCopiesAreAnswered == SessionSpec => []PendingIsAnswered
<1>1. SessionInit => CopyInv
  BY InitCopies
<1>2. CopyInv /\ [SessionNext]_sessionVars => CopyInv'
  BY StepTyped, StepKeepsCopies DEF CopyInv
<1>3. CopyInv => PendingIsAnswered
  BY DEF CopyInv, WritesInOrder
<1> QED
  BY <1>1, <1>2, <1>3, PTL DEF SessionSpec

(* "Copied" is never claimed of a text the clipboard does not hold.        *)
THEOREM CopiedIsHeld == SessionSpec => CopiedIsTrue
<1>1. SessionInit => CopyInv
  BY InitCopies
<1>2. CopyInv /\ [SessionNext]_sessionVars => CopyInv'
  BY StepTyped, StepKeepsCopies DEF CopyInv
<1>3. CopyInv /\ [SessionNext]_sessionVars =>
        [copyState # "success" /\ copyState' = "success" =>
           clipboard' = FinalizedText(rendered')]_sessionVars
  BY StepKeepsCopies
<1> QED
  BY <1>1, <1>2, <1>3, PTL DEF SessionSpec, CopiedIsTrue

-----------------------------------------------------------------------------
(* What is final stays: of every step only a clear can disturb a final row *)
LEMMA FinalsStay ==
  ASSUME Typed, [SessionNext]_sessionVars
  PROVE  \/ transcript' = <<>>
         \/ \A i \in DOMAIN transcript :
              IsFinal(transcript[i]) => i \in DOMAIN transcript' /\ transcript'[i] = transcript[i]
<1>1. CASE UNCHANGED transcript
  BY <1>1
<1>2. ASSUME NEW row \in Row, transcript' = Receive(row)
      PROVE  \A i \in DOMAIN transcript :
               IsFinal(transcript[i]) => i \in DOMAIN transcript' /\ transcript'[i] = transcript[i]
  <2>1. /\ transcript' \in Seq(Row) /\ Len(transcript) <= Len(transcript')
        /\ \A i \in 1..Len(transcript) :
             transcript'[i] = transcript[i] \/ ~IsFinal(transcript[i])
    BY <1>2, ReceiveRow DEF Typed, TypeOK
  <2>2. /\ DOMAIN transcript = 1..Len(transcript) /\ Len(transcript) \in Nat
        /\ DOMAIN transcript' = 1..Len(transcript') /\ Len(transcript') \in Nat
    BY <2>1, LenProperties DEF Typed, TypeOK
  <2> QED
    BY <2>1, <2>2
<1>3. ASSUME NEW w \in Workers, WorkerStep(w)
      PROVE  UNCHANGED transcript \/ \E row \in Row : transcript' = Receive(row)
  <2>1. CASE Partial(w)
    <3> DEFINE start == IF started[w] = Unset THEN CurrentTime(w) ELSE started[w]
               row == [id |-> index[w], started |-> start, ended |-> Unset]
    <3>1. start \in Nat
      BY RowTyped DEF Typed, TypeOK
    <3>2. row \in Row
      BY <3>1, RowTyped
    <3>3. UNCHANGED transcript \/ transcript' = Receive(row)
      BY <2>1 DEF Partial
    <3> QED
      BY <3>2, <3>3
  <2>2. CASE FinalEmit(w)
    <3> DEFINE row == [id |-> index[w], started |-> started[w], ended |-> CurrentTime(w)]
    <3>1. row \in Row
      BY <2>2, RowTyped DEF FinalEmit, Typed
    <3>2. transcript' = Receive(row)
      BY <2>2 DEF FinalEmit
    <3> QED
      BY <3>1, <3>2
  <2> QED
    BY <1>3, <2>1, <2>2 DEF WorkerStep, Feed, Final, FinalRecord, Exit, Fault
<1>4. ASSUME OtherStep
      PROVE  UNCHANGED transcript
  BY <1>4 DEF OtherStep, ReadContext, Restart, StopBegin, StopTake, Tick
<1>5. ASSUME UserStep
      PROVE  UNCHANGED transcript \/ transcript' = <<>>
  BY <1>5 DEF UserStep, Commit, ClearActivate, DispatchClear, ClearCancel, ClearConfirm,
              Copy, ClipboardAnswers, CopySettles, FeedbackEnds, vars
<1>6. ASSUME UNCHANGED sessionVars
      PROVE  UNCHANGED transcript
  BY <1>6 DEF sessionVars, vars
<1> QED
  BY <1>1, <1>2, <1>3, <1>4, <1>5, <1>6, StepCases

(* A finalized row never changes and never moves, whatever arrives.        *)
THEOREM FinalsAreStable == SessionSpec => FinalsNeverChange
<1>1. SessionInit => Typed /\ UITyped
  BY InitTyped
<1>2. Typed /\ UITyped /\ [SessionNext]_sessionVars => (Typed /\ UITyped)'
  BY StepTyped
<1>3. Typed /\ UITyped /\ [SessionNext]_sessionVars =>
        [\/ transcript' = <<>>
         \/ \A i \in DOMAIN transcript :
              IsFinal(transcript[i]) =>
                i \in DOMAIN transcript' /\ transcript'[i] = transcript[i]]_sessionVars
  BY FinalsStay
<1> QED
  BY <1>1, <1>2, <1>3, PTL DEF SessionSpec, FinalsNeverChange

-----------------------------------------------------------------------------
(* Continuity.  When every abandoned worker has ended before its successor *)
(* reads where to continue, one worker at a time is active: those before   *)
(* it are done, those after it untouched.                                  *)
OneActive ==
  /\ \A w \in Workers :
       /\ w < opened => life[w] = "done"
       /\ w > opened => life[w] = "none" /\ started[w] = Unset /\ fed[w] = 0
       /\ life[w] \in {"none", "done"} => final[w] = "idle"
  /\ life[opened] # "none"
  /\ attempt # "none" => life[opened] \in {"abandoned", "done"}
  /\ attempt = "restart" => life[opened] = "done"

(* RecoveryState is where the active worker is, one further while the      *)
(* worker is in on_final, and an attempt has read it unchanged.            *)
Emitting(w) == IF final[w] = "emit" THEN 1 ELSE 0

Continued ==
  current =>
    /\ open
    /\ nextIndex = index[opened] + Emitting(opened)
    /\ attempt = "restart" => context = [index |-> nextIndex, floor |-> lastEnded]

(* A worker ended with this utterance unfinished.                          *)
LeftBehind(id) ==
  \E w \in Workers : life[w] = "done" /\ started[w] # Unset /\ index[w] = id

(* No row has an id the active worker has not come to yet, and a row with  *)
(* its current id is the interim of its current utterance, unless an       *)
(* earlier worker left that id behind.                                     *)
RowsAccounted ==
  \A i \in 1..Len(transcript) :
     /\ transcript[i].id <= index[opened]
     /\ transcript[i].id = index[opened] =>
          \/ ~IsFinal(transcript[i]) /\ transcript[i].started = started[opened]
          \/ LeftBehind(index[opened])

FinalsAccounted ==
  /\ \A i \in 1..Len(emitted) : IsFinal(emitted[i])
  /\ \A i \in (cleared + 1)..Len(emitted) :
       Contains(transcript, emitted[i]) \/ LeftBehind(emitted[i].id)

(* What has been emitted ended before the active worker's current time and *)
(* before its current utterance started, and RecoveryState knows it.       *)
Timeline ==
  /\ started[opened] # Unset => started[opened] <= CurrentTime(opened)
  /\ \A i \in 1..Len(emitted) :
       /\ emitted[i].ended <= CurrentTime(opened)
       /\ started[opened] # Unset => emitted[i].ended <= started[opened]
       /\ current => emitted[i].ended <= lastEnded
  /\ current /\ final[opened] = "emit" => CurrentTime(opened) <= lastEnded
  /\ \A i, j \in 1..Len(emitted) : i < j => emitted[i].ended <= emitted[j].started

Accounted == OneActive /\ Continued /\ RowsAccounted /\ FinalsAccounted /\ Timeline

Sound == Typed /\ UITyped /\ Orderly /\ Accounted

(* The numbers the arguments below are about                               *)
LEMMA SoundFacts ==
  ASSUME Sound
  PROVE  /\ opened \in Workers /\ opened \in Nat
         /\ Workers \subseteq Nat
         /\ \A w \in Workers :
              /\ index[w] \in Nat /\ offset[w] \in Nat /\ fed[w] \in Nat
              /\ started[w] \in Nat \cup {Unset} /\ CurrentTime(w) \in Nat
         /\ nextIndex \in Nat /\ lastEnded \in Nat /\ now \in Nat
         /\ Len(emitted) \in Nat /\ Len(transcript) \in Nat /\ cleared \in 0..Len(emitted)
         /\ \A i \in 1..Len(emitted) :
              /\ emitted[i] \in Row /\ emitted[i].ended \in Nat /\ emitted[i].started \in Nat
              /\ emitted[i].id \in Nat
         /\ \A i \in 1..Len(transcript) :
              /\ transcript[i] \in Row /\ transcript[i].id \in Nat
              /\ transcript[i].started \in Nat
<1>1. /\ opened \in Workers /\ Workers \subseteq Nat /\ nextIndex \in Nat /\ lastEnded \in Nat
      /\ now \in Nat
  BY SceneFacts DEF Sound, Typed, TypeOK
<1>2. \A w \in Workers :
        /\ index[w] \in Nat /\ offset[w] \in Nat /\ fed[w] \in Nat
        /\ started[w] \in Nat \cup {Unset} /\ CurrentTime(w) \in Nat
  <2>1. Typed /\ scene.fed \in Nat
    BY SceneFacts DEF Sound, Typed, TypeOK
  <2>2. \A w \in Workers :
          /\ index[w] \in Nat /\ offset[w] \in Nat /\ fed[w] \in Nat
          /\ started[w] \in Nat \cup {Unset}
    BY <2>1 DEF Typed, TypeOK
  <2>3. \A w \in Workers : CurrentTime(w) \in Nat
    BY <2>1, RowTyped
  <2> QED
    BY <2>2, <2>3
<1>3. /\ Len(emitted) \in Nat /\ Len(transcript) \in Nat /\ cleared \in 0..Len(emitted)
      /\ \A i \in 1..Len(emitted) : emitted[i] \in Row
      /\ \A i \in 1..Len(transcript) : transcript[i] \in Row
  BY LenProperties, ElementOfSeq DEF Sound, Typed, TypeOK, UITyped
<1>4. \A i \in 1..Len(emitted) : IsFinal(emitted[i])
  BY DEF Sound, Accounted, FinalsAccounted
<1> QED
  BY <1>1, <1>2, <1>3, <1>4 DEF Row, IsFinal

(* Only the active worker takes steps.                                     *)
LEMMA ActiveOnly ==
  ASSUME Sound, NEW w \in Workers, WorkerStep(w)
  PROVE  w = opened /\ life[w] \notin {"none", "done"}
<1>1. \A v \in Workers : life[v] \notin {"none", "done"} => v = opened
  BY SoundFacts DEF Sound, Accounted, OneActive
<1>2. life[w] \notin {"none", "done"}
  BY DEF Sound, Orderly, Accounted, OneActive, WorkerStep, Works, Feed, Partial, Final,
         FinalRecord, FinalEmit, Exit, Fault
<1> QED
  BY <1>1, <1>2

(* Rows that are final survive what one segment does.                      *)
LEMMA ReceiveKeeps ==
  ASSUME Sound, NEW row \in Row, transcript' = Receive(row),
         NEW i \in 1..Len(emitted), Contains(transcript, emitted[i])
  PROVE  Contains(transcript', emitted[i])
<1>1. PICK k \in 1..Len(transcript) : transcript[k] = emitted[i]
  BY DEF Contains
<1>2. /\ Len(transcript) <= Len(transcript') /\ Len(transcript') \in Nat
      /\ transcript'[k] = transcript[k] \/ ~IsFinal(transcript[k])
  BY ReceiveRow, LenProperties DEF Sound, Typed, TypeOK
<1>3. k \in 1..Len(transcript') /\ transcript'[k] = emitted[i]
  BY <1>1, <1>2, SoundFacts DEF Sound, Accounted, FinalsAccounted
<1> QED
  BY <1>3 DEF Contains

(* What a step that leaves their variables alone does to the accounts      *)
LEMMA RowsFrame ==
  ASSUME RowsAccounted, UNCHANGED <<opened, life, index, started, transcript>>
  PROVE  RowsAccounted'
  BY DEF RowsAccounted, LeftBehind

LEMMA FinalsFrame ==
  ASSUME FinalsAccounted, UNCHANGED <<life, index, started, transcript, emitted, cleared>>
  PROVE  FinalsAccounted'
  BY DEF FinalsAccounted, LeftBehind

LEMMA TimelineFrame ==
  ASSUME Timeline,
         UNCHANGED <<current, opened, offset, fed, started, final, emitted, lastEnded>>
  PROVE  Timeline'
  BY DEF Timeline, CurrentTime

LEMMA ContinuedFrame ==
  ASSUME Continued,
         UNCHANGED <<current, open, opened, index, final, nextIndex, lastEnded, attempt, context>>
  PROVE  Continued'
  BY DEF Continued, Emitting

(* An id once left behind stays so: a worker that is done is not touched.  *)
LEMMA LeftBehindStays ==
  ASSUME \A w \in Workers : life[w] = "done" =>
           life'[w] = "done" /\ started'[w] = started[w] /\ index'[w] = index[w]
  PROVE  \A id : LeftBehind(id) => LeftBehind(id)'
  BY DEF LeftBehind

LEMMA FeedKeeps ==
  ASSUME Sound, UNCHANGED uiVars, Feed(opened)
  PROVE  Accounted'
<1> DEFINE o == opened
<1>1. /\ fed' = [fed EXCEPT ![o] = @ + 1] /\ final[o] = "idle"
      /\ UNCHANGED <<scene, current, open, nextIndex, lastEnded, attempt, context, now, opened,
                     life, index, offset, started, final, emitted, transcript, cleared>>
  BY DEF Feed, Works, uiVars
<1>2. /\ o \in Workers /\ o \in Nat /\ fed'[o] = fed[o] + 1
      /\ \A w \in Workers : w # o => fed'[w] = fed[w]
  BY <1>1, SoundFacts DEF Sound, Typed, TypeOK
<1>3. CurrentTime(o)' = CurrentTime(o) + 1
  BY <1>1, <1>2, SoundFacts DEF CurrentTime
<1>4. OneActive'
  BY <1>1, <1>2, SoundFacts DEF Sound, Accounted, OneActive
<1>5. Timeline'
  BY <1>1, <1>2, <1>3, SoundFacts DEF Sound, Accounted, Timeline
<1> QED
  BY <1>1, <1>4, <1>5, RowsFrame, FinalsFrame, ContinuedFrame DEF Sound, Accounted

LEMMA PartialKeeps ==
  ASSUME Sound, UNCHANGED uiVars, Partial(opened)
  PROVE  Accounted'
<1> DEFINE o == opened
           start == IF started[o] = Unset THEN CurrentTime(o) ELSE started[o]
           row == [id |-> index[o], started |-> start, ended |-> Unset]
<1>1. /\ started' = [started EXCEPT ![o] = start] /\ final[o] = "idle"
      /\ life[o] \notin {"none", "done"}
      /\ transcript' = IF current THEN Receive(row) ELSE transcript
      /\ UNCHANGED <<scene, current, open, nextIndex, lastEnded, attempt, context, now, opened,
                     life, index, offset, fed, final, emitted, cleared>>
  BY DEF Partial, Works, uiVars
<1>2. /\ o \in Workers /\ o \in Nat /\ start \in Nat /\ index[o] \in Nat
      /\ started'[o] = start
      /\ \A w \in Workers : w # o => started'[w] = started[w]
      /\ \A w \in Workers : CurrentTime(w)' = CurrentTime(w)
  BY <1>1, SoundFacts DEF Sound, Typed, TypeOK, CurrentTime
<1>3. started[o] # Unset => start = started[o]
  OBVIOUS
<1>4. start = CurrentTime(o) \/ (start = started[o] /\ started[o] # Unset)
  OBVIOUS
<1>5. row \in Row /\ row.id = index[o] /\ row.started = start /\ ~IsFinal(row)
  BY <1>2 DEF Row, IsFinal
<1>6. OneActive'
  BY <1>1, <1>2, SoundFacts DEF Sound, Accounted, OneActive
<1>7. Continued'
  BY <1>1, ContinuedFrame DEF Sound, Accounted
<1> HIDE DEF start, row
<1>8. \A id : LeftBehind(id) => LeftBehind(id)'
  BY <1>1, <1>2, LeftBehindStays
<1>9. /\ Len(transcript') \in Nat
      /\ \A i \in 1..Len(transcript') :
           transcript'[i] = row \/ (i \in 1..Len(transcript) /\ transcript'[i] = transcript[i])
  <2>1. transcript \in Seq(Row) /\ Len(transcript) \in Nat
    BY SoundFacts DEF Sound, Typed, TypeOK
  <2>2. CASE ~current
    BY <1>1, <2>1, <2>2
  <2>3. CASE current
    BY <1>1, <1>5, <2>1, <2>3, ReceiveRow, LenProperties
  <2> QED
    BY <2>2, <2>3
<1>10. RowsAccounted'
  <2> SUFFICES ASSUME NEW i \in 1..Len(transcript')
               PROVE  /\ transcript'[i].id <= index[o]
                      /\ transcript'[i].id = index[o] =>
                           \/ ~IsFinal(transcript'[i]) /\ transcript'[i].started = start
                           \/ LeftBehind(index[o])'
    BY <1>1, <1>2 DEF RowsAccounted
  <2>1. CASE transcript'[i] = row
    BY <2>1, <1>2, <1>5
  <2>2. CASE i \in 1..Len(transcript) /\ transcript'[i] = transcript[i]
    <3>1. /\ transcript[i].id <= index[o] /\ transcript[i].started \in Nat
          /\ transcript[i].id = index[o] =>
                \/ ~IsFinal(transcript[i]) /\ transcript[i].started = started[o]
                \/ LeftBehind(index[o])
      BY <2>2, SoundFacts DEF Sound, Accounted, RowsAccounted
    <3>2. transcript[i].started = started[o] => started[o] = start
      BY <1>3, <3>1 DEF Unset
    <3>3. LeftBehind(index[o]) => LeftBehind(index[o])'
      BY <1>1, <1>8
    <3> QED
      BY <2>2, <3>1, <3>2, <3>3
  <2> QED
    BY <1>9, <2>1, <2>2
<1>11. FinalsAccounted'
  <2> SUFFICES ASSUME NEW i \in (cleared + 1)..Len(emitted)
               PROVE  Contains(transcript', emitted[i]) \/ LeftBehind(emitted[i].id)'
    BY <1>1 DEF FinalsAccounted, Sound, Accounted
  <2>1. i \in 1..Len(emitted)
    BY SoundFacts
  <2>2. CASE Contains(transcript, emitted[i])
    <3>1. CASE current
      BY <2>1, <2>2, <3>1, <1>1, <1>5, ReceiveKeeps
    <3>2. CASE ~current
      BY <2>2, <3>2, <1>1
    <3> QED
      BY <3>1, <3>2
  <2>3. CASE LeftBehind(emitted[i].id)
    BY <2>3, <1>1, <1>8
  <2> QED
    BY <2>2, <2>3 DEF Sound, Accounted, FinalsAccounted
<1>12. Timeline'
  <2>1. started'[o] <= CurrentTime(o)
    BY <1>2, <1>4, SoundFacts DEF Sound, Accounted, Timeline
  <2>2. \A i \in 1..Len(emitted) : emitted[i].ended <= started'[o]
    <3>1. \A i \in 1..Len(emitted) :
            /\ emitted[i].ended <= CurrentTime(o)
            /\ started[o] # Unset => emitted[i].ended <= started[o]
      BY DEF Sound, Accounted, Timeline
    <3> QED
      BY <1>2, <1>4, <3>1
  <2>3. CurrentTime(o)' = CurrentTime(o)
    BY <1>1, <1>2
  <2> QED
    BY <1>1, <2>1, <2>2, <2>3 DEF Sound, Accounted, Timeline
<1> QED
  BY <1>6, <1>7, <1>10, <1>11, <1>12 DEF Accounted

LEMMA FinalKeeps ==
  ASSUME Sound, UNCHANGED uiVars, Final(opened)
  PROVE  Accounted'
<1> DEFINE o == opened
<1>0. o \in Workers /\ o \in Nat /\ index[o] \in Nat
  BY SoundFacts
<1>1. /\ final[o] = "idle" /\ started[o] # Unset /\ life[o] \notin {"none", "done"}
      /\ UNCHANGED <<scene, current, open, nextIndex, lastEnded, attempt, context, now,
                     opened, life, offset, fed, emitted, transcript, cleared>>
  BY DEF Final, Works, uiVars
<1>2. CASE current /\ final' = [final EXCEPT ![o] = "record"] /\ UNCHANGED <<index, started>>
  <2>1. final'[o] = "record" /\ \A w \in Workers : w # o => final'[w] = final[w]
    BY <1>0, <1>2 DEF Sound, Typed, TypeOK
  <2>2. OneActive'
    BY <1>1, <1>2, <2>1, SoundFacts DEF Sound, Accounted, OneActive
  <2>3. Continued'
    BY <1>1, <1>2, <2>1 DEF Sound, Accounted, Continued, Emitting
  <2>4. Timeline'
    BY <1>1, <1>2, <2>1 DEF Sound, Accounted, Timeline, CurrentTime
  <2> QED
    BY <1>1, <1>2, <2>2, <2>3, <2>4, RowsFrame, FinalsFrame DEF Sound, Accounted
<1>3. CASE /\ ~current /\ UNCHANGED final
           /\ index' = [index EXCEPT ![o] = @ + 1]
           /\ started' = [started EXCEPT ![o] = Unset]
  <2>1. /\ index'[o] = index[o] + 1 /\ started'[o] = Unset
        /\ \A w \in Workers : w # o => index'[w] = index[w] /\ started'[w] = started[w]
    BY <1>0, <1>3 DEF Sound, Typed, TypeOK
  <2>2. \A id : LeftBehind(id) => LeftBehind(id)'
    BY <1>1, <2>1, LeftBehindStays
  <2>3. OneActive'
    BY <1>1, <1>3, <2>1, SoundFacts DEF Sound, Accounted, OneActive
  <2>4. Continued'
    BY <1>1, <1>3 DEF Continued
  <2>5. Timeline'
    BY <1>1, <1>3, <2>1 DEF Sound, Accounted, Timeline, CurrentTime
  <2>6. RowsAccounted'
    <3>1. \A i \in 1..Len(transcript) : transcript[i].id < index[o] + 1
      BY <1>0, SoundFacts DEF Sound, Accounted, RowsAccounted
    <3>2. \A i \in 1..Len(transcript) :
            transcript[i].id <= index[o] + 1 /\ transcript[i].id # index[o] + 1
      BY <1>0, <3>1, SoundFacts
    <3> QED
      BY <1>1, <2>1, <3>2 DEF RowsAccounted
  <2>7. FinalsAccounted'
    BY <1>1, <2>2 DEF Sound, Accounted, FinalsAccounted
  <2> QED
    BY <2>3, <2>4, <2>5, <2>6, <2>7 DEF Accounted
<1> QED
  BY <1>2, <1>3 DEF Final

LEMMA FinalRecordKeeps ==
  ASSUME Sound, UNCHANGED uiVars, FinalRecord(opened)
  PROVE  Accounted'
<1> DEFINE o == opened
<1>0. /\ o \in Workers /\ o \in Nat /\ nextIndex \in Nat /\ lastEnded \in Nat
      /\ CurrentTime(o) \in Nat /\ index[o] \in Nat
  BY SoundFacts
<1>1. /\ final[o] = "record" /\ final' = [final EXCEPT ![o] = "emit"]
      /\ UNCHANGED <<scene, current, open, attempt, context, now, opened, life, index, offset,
                     fed, started, emitted, transcript, cleared>>
  BY DEF FinalRecord, uiVars
<1>2. final'[o] = "emit" /\ \A w \in Workers : w # o => final'[w] = final[w]
  BY <1>0, <1>1 DEF Sound, Typed, TypeOK
<1>3. life[o] \notin {"none", "done"} /\ attempt # "restart"
  BY <1>0, <1>1 DEF Sound, Accounted, OneActive
<1>4. OneActive'
  BY <1>1, <1>2, <1>3, SoundFacts DEF Sound, Accounted, OneActive
<1>5. Continued'
  <2> SUFFICES ASSUME current PROVE open /\ nextIndex' = index[o] + 1
    BY <1>1, <1>2, <1>3 DEF Continued, Emitting
  <2>1. open /\ nextIndex = index[o] + 0
    BY <1>1 DEF Sound, Accounted, Continued, Emitting
  <2> QED
    BY <1>0, <2>1 DEF FinalRecord
<1>6. /\ lastEnded <= lastEnded' /\ lastEnded' \in Nat
      /\ current => CurrentTime(o) <= lastEnded'
  BY <1>0 DEF FinalRecord, Later, Sound, Accounted, Continued
<1>7. Timeline'
  <2>1. \A i \in 1..Len(emitted) : current => emitted[i].ended <= lastEnded'
    BY <1>0, <1>6, SoundFacts DEF Sound, Accounted, Timeline
  <2>2. CurrentTime(o)' = CurrentTime(o)
    BY <1>1 DEF CurrentTime
  <2> QED
    BY <1>1, <1>6, <2>1, <2>2 DEF Sound, Accounted, Timeline
<1> QED
  BY <1>1, <1>4, <1>5, <1>7, RowsFrame, FinalsFrame DEF Sound, Accounted

LEMMA FinalEmitKeeps ==
  ASSUME Sound, UNCHANGED uiVars, FinalEmit(opened)
  PROVE  Accounted'
<1> DEFINE o == opened
           row == [id |-> index[o], started |-> started[o], ended |-> CurrentTime(o)]
<1>0. /\ o \in Workers /\ o \in Nat /\ CurrentTime(o) \in Nat /\ index[o] \in Nat
      /\ Len(emitted) \in Nat /\ emitted \in Seq(Row) /\ cleared \in 0..Len(emitted)
  BY SoundFacts DEF Sound, Typed, TypeOK
<1>1. /\ final[o] = "emit" /\ emitted' = Append(emitted, row) /\ transcript' = Receive(row)
      /\ index' = [index EXCEPT ![o] = @ + 1]
      /\ started' = [started EXCEPT ![o] = Unset]
      /\ final' = [final EXCEPT ![o] = "idle"]
      /\ UNCHANGED <<scene, current, open, nextIndex, lastEnded, attempt, context, now,
                     opened, life, offset, fed, cleared>>
  BY DEF FinalEmit, uiVars
<1>2. /\ index'[o] = index[o] + 1 /\ started'[o] = Unset /\ final'[o] = "idle"
      /\ \A w \in Workers : w # o =>
           index'[w] = index[w] /\ started'[w] = started[w] /\ final'[w] = final[w]
  BY <1>0, <1>1 DEF Sound, Typed, TypeOK
<1>3. life[o] \notin {"none", "done"} /\ attempt # "restart" /\ started[o] \in Nat
  BY <1>0, <1>1, SoundFacts DEF Sound, Typed, Accounted, OneActive
<1>4. /\ row \in Row /\ row.id = index[o] /\ row.started = started[o]
      /\ row.ended = CurrentTime(o) /\ IsFinal(row)
  BY <1>0, <1>3 DEF Row, IsFinal, Unset
<1> HIDE DEF row
<1>5. /\ Len(emitted') = Len(emitted) + 1
      /\ \A i \in 1..Len(emitted) : emitted'[i] = emitted[i]
      /\ emitted'[Len(emitted) + 1] = row
  BY <1>0, <1>1, <1>4, AppendProperties
<1>6. \A id : LeftBehind(id) => LeftBehind(id)'
  BY <1>1, <1>2, <1>3, LeftBehindStays
<1>7. OneActive'
  BY <1>1, <1>2, <1>3, SoundFacts DEF Sound, Accounted, OneActive
<1>8. Continued'
  <2> SUFFICES ASSUME current PROVE open /\ nextIndex = (index[o] + 1) + 0
    BY <1>1, <1>2, <1>3 DEF Continued, Emitting
  <2>1. open /\ nextIndex = index[o] + 1
    BY <1>1 DEF Sound, Accounted, Continued, Emitting
  <2> QED
    BY <1>0, <2>1
<1>9. RowsAccounted'
  <2>1. /\ Len(transcript') \in Nat
        /\ \A i \in 1..Len(transcript') :
             transcript'[i] = row \/ (i \in 1..Len(transcript) /\ transcript'[i] = transcript[i])
    BY <1>1, <1>4, ReceiveRow, LenProperties, SoundFacts DEF Sound, Typed, TypeOK
  <2>2. \A i \in 1..Len(transcript) : transcript[i].id <= index[o]
    BY DEF Sound, Accounted, RowsAccounted
  <2>3. \A i \in 1..Len(transcript') : transcript'[i].id <= index[o] /\ transcript'[i].id \in Nat
    <3>1. /\ row.id = index[o] /\ index[o] \in Nat
          /\ \A i \in 1..Len(transcript) :
               transcript[i].id \in Nat /\ transcript[i].id <= index[o]
      BY <1>0, <1>4, <2>2, SoundFacts
    <3>2. TAKE i \in 1..Len(transcript')
    <3>3. CASE transcript'[i] = row
      BY <3>1, <3>3
    <3>4. CASE i \in 1..Len(transcript) /\ transcript'[i] = transcript[i]
      BY <3>1, <3>4
    <3> QED
      BY <2>1, <3>3, <3>4
  <2>4. \A i \in 1..Len(transcript') :
          transcript'[i].id <= index[o] + 1 /\ transcript'[i].id # index[o] + 1
    BY <1>0, <2>3
  <2> QED
    BY <1>1, <1>2, <2>4, SMTT(30) DEF RowsAccounted
<1>10. FinalsAccounted'
  <2>1. \A i \in 1..Len(emitted') : IsFinal(emitted'[i])
    BY <1>0, <1>4, <1>5 DEF Sound, Accounted, FinalsAccounted
  <2>2. ASSUME NEW i \in (cleared' + 1)..Len(emitted')
        PROVE  Contains(transcript', emitted'[i]) \/ LeftBehind(emitted[i].id)'
    <3>1. CASE i = Len(emitted) + 1
      <4>1. CASE \E k \in 1..Len(Receive(row)) : Receive(row)[k] = row
        BY <1>1, <1>5, <3>1, <4>1 DEF Contains
      <4>2. ASSUME NEW k \in 1..Len(transcript), transcript[k].id = row.id,
                   IsFinal(transcript[k]) \/ transcript[k].started # row.started
            PROVE  LeftBehind(emitted[i].id)'
        <5>1. LeftBehind(index[o])
          BY <1>4, <4>2 DEF Sound, Accounted, RowsAccounted
        <5>2. emitted'[i].id = index[o]
          BY <1>4, <1>5, <3>1
        <5> QED
          BY <1>6, <5>1, <5>2 DEF LeftBehind
      <4> QED
        BY <1>4, <4>1, <4>2, ReceiveRow DEF Sound, Typed, TypeOK
    <3>2. CASE i \in (cleared + 1)..Len(emitted)
      <4>1. i \in 1..Len(emitted) /\ emitted'[i] = emitted[i]
        BY <1>0, <1>5, <3>2
      <4>2. CASE Contains(transcript, emitted[i])
        BY <1>1, <1>4, <4>1, <4>2, ReceiveKeeps
      <4>3. CASE LeftBehind(emitted[i].id)
        BY <1>6, <4>1, <4>3 DEF LeftBehind
      <4> QED
        BY <3>2, <4>2, <4>3 DEF Sound, Accounted, FinalsAccounted
    <3> QED
      BY <1>0, <1>1, <1>5, <3>1, <3>2
  <2> QED
    BY <2>1, <2>2 DEF FinalsAccounted
<1>11. Timeline'
  <2>1. CurrentTime(o)' = CurrentTime(o)
    BY <1>1 DEF CurrentTime
  <2>2. ASSUME NEW i \in 1..Len(emitted')
        PROVE  /\ emitted'[i].ended <= CurrentTime(o)
               /\ current => emitted'[i].ended <= lastEnded
    <3>1. CASE i \in 1..Len(emitted)
      BY <1>5, <3>1 DEF Sound, Accounted, Timeline
    <3>2. CASE i = Len(emitted) + 1
      BY <1>0, <1>1, <1>4, <1>5, <3>2 DEF Sound, Accounted, Timeline
    <3> QED
      BY <1>0, <1>5, <3>1, <3>2
  <2>3. ASSUME NEW i \in 1..Len(emitted'), NEW j \in 1..Len(emitted'), i < j
        PROVE  emitted'[i].ended <= emitted'[j].started
    <3>1. i \in 1..Len(emitted) /\ emitted'[i] = emitted[i]
      BY <1>0, <1>5, <2>3
    <3>2. CASE j \in 1..Len(emitted)
      BY <1>5, <2>3, <3>1, <3>2 DEF Sound, Accounted, Timeline
    <3>3. CASE j = Len(emitted) + 1
      <4>1. emitted[i].ended <= started[o]
        BY <1>3, <3>1 DEF Sound, Accounted, Timeline, Unset
      <4> QED
        BY <1>4, <1>5, <3>1, <3>3, <4>1
    <3> QED
      BY <1>0, <1>5, <3>2, <3>3
  <2> QED
    BY <1>1, <1>2, <2>1, <2>2, <2>3 DEF Timeline
<1> QED
  BY <1>7, <1>8, <1>9, <1>10, <1>11 DEF Accounted

LEMMA ExitKeeps ==
  ASSUME Sound, UNCHANGED uiVars, Exit(opened)
  PROVE  Accounted'
<1> DEFINE o == opened
<1>0. o \in Workers /\ o \in Nat
  BY SoundFacts
<1>1. /\ final[o] = "idle" /\ life' = [life EXCEPT ![o] = "done"]
      /\ UNCHANGED <<scene, current, open, nextIndex, lastEnded, attempt, context, now, opened,
                     index, offset, fed, started, final, emitted, transcript, cleared>>
  BY DEF Exit, uiVars
<1>2. life'[o] = "done" /\ \A w \in Workers : w # o => life'[w] = life[w]
  BY <1>0, <1>1 DEF Sound, Typed, TypeOK
<1>3. \A id : LeftBehind(id) => LeftBehind(id)'
  BY <1>1, <1>2, LeftBehindStays
<1>4. OneActive'
  BY <1>0, <1>1, <1>2, SoundFacts DEF Sound, Accounted, OneActive
<1>5. RowsAccounted'
  <2>1. LeftBehind(index[o]) => LeftBehind(index[o])'
    BY <1>1, <1>3
  <2> QED
    BY <1>1, <2>1 DEF Sound, Accounted, RowsAccounted
<1>6. FinalsAccounted'
  <2>1. \A i \in 1..Len(emitted) : LeftBehind(emitted[i].id) => LeftBehind(emitted[i].id)'
    BY <1>1, <1>3
  <2>2. \A i \in (cleared + 1)..Len(emitted) : i \in 1..Len(emitted)
    BY SoundFacts
  <2> QED
    BY <1>1, <2>1, <2>2 DEF Sound, Accounted, FinalsAccounted
<1> QED
  BY <1>1, <1>4, <1>5, <1>6, TimelineFrame, ContinuedFrame DEF Sound, Accounted

LEMMA FaultKeeps ==
  ASSUME Sound, UNCHANGED uiVars, Fault(opened)
  PROVE  Accounted'
<1> DEFINE o == opened
<1>0. o \in Workers /\ o \in Nat
  BY SoundFacts
<1>1. /\ life[o] = "running" /\ life' = [life EXCEPT ![o] = "abandoned"]
      /\ attempt' = "backoff"
      /\ UNCHANGED <<scene, current, open, nextIndex, lastEnded, context, now, opened, index,
                     offset, fed, started, final, emitted, transcript, cleared>>
  BY DEF Fault, uiVars
<1>2. life'[o] = "abandoned" /\ \A w \in Workers : w # o => life'[w] = life[w]
  BY <1>0, <1>1 DEF Sound, Typed, TypeOK
<1>3. OneActive'
  BY <1>0, <1>1, <1>2, SoundFacts DEF Sound, Accounted, OneActive
<1>4. Continued'
  BY <1>1 DEF Sound, Accounted, Continued, Emitting
<1>5. \A id : LeftBehind(id) <=> LeftBehind(id)'
  BY <1>1, <1>2 DEF LeftBehind
<1>6. RowsAccounted'
  <2>1. LeftBehind(index[o]) => LeftBehind(index[o])'
    BY <1>1, <1>5
  <2> QED
    BY <1>1, <2>1 DEF Sound, Accounted, RowsAccounted
<1>7. FinalsAccounted'
  <2>1. \A i \in 1..Len(emitted) : LeftBehind(emitted[i].id) => LeftBehind(emitted[i].id)'
    BY <1>1, <1>5
  <2>2. \A i \in (cleared + 1)..Len(emitted) : i \in 1..Len(emitted)
    BY SoundFacts
  <2> QED
    BY <1>1, <2>1, <2>2 DEF Sound, Accounted, FinalsAccounted
<1> QED
  BY <1>1, <1>3, <1>4, <1>6, <1>7, TimelineFrame DEF Sound, Accounted

LEMMA ReadContextKeeps ==
  ASSUME Sound, UNCHANGED uiVars, ReadContext
  PROVE  Accounted'
<1> DEFINE o == opened
<1>0. o \in Workers
  BY SoundFacts
<1>1. /\ attempt = "backoff" /\ life[o] # "abandoned"
      /\ attempt' = IF current /\ open THEN "restart" ELSE "none"
      /\ context' = IF current /\ open THEN [index |-> nextIndex, floor |-> lastEnded]
                    ELSE context
      /\ UNCHANGED <<scene, current, open, nextIndex, lastEnded, now, opened, life, index,
                     offset, fed, started, final, emitted, transcript, cleared>>
  BY <1>0 DEF ReadContext, workerVars, uiVars, Sound, Orderly
<1>2. life[o] = "done"
  BY <1>1 DEF Sound, Accounted, OneActive
<1>3. OneActive'
  BY <1>1, <1>2 DEF Sound, Accounted, OneActive
<1>4. Continued'
  BY <1>1 DEF Sound, Accounted, Continued, Emitting
<1> QED
  BY <1>1, <1>3, <1>4, RowsFrame, FinalsFrame, TimelineFrame DEF Sound, Accounted

(* The next worker continues where the last one was.                       *)
LEMMA RestartKeeps ==
  ASSUME Sound, UNCHANGED uiVars, Restart
  PROVE  Accounted'
<1> DEFINE o == opened
           n == opened + 1
<1>0. /\ o \in Workers /\ o \in Nat /\ n \in Workers /\ n \in Nat
      /\ nextIndex \in Nat /\ lastEnded \in Nat /\ now \in Nat /\ index[o] \in Nat
  BY SoundFacts, SceneFacts DEF Sound, Typed, TypeOK, Restart
<1>1. /\ attempt = "restart" /\ attempt' = "none"
      /\ UNCHANGED <<scene, current, open, nextIndex, lastEnded, context, now, fed, started,
                     final, emitted, transcript, cleared>>
  BY DEF Restart, uiVars
<1>2. /\ life[o] = "done" /\ final[o] = "idle"
      /\ life[n] = "none" /\ final[n] = "idle" /\ started[n] = Unset /\ fed[n] = 0
  BY <1>0, <1>1 DEF Sound, Accounted, OneActive
<1>3. CASE ~current
  <2>1. UNCHANGED <<opened, life, index, offset>>
    BY <1>3 DEF Restart
  <2>2. OneActive'
    BY <1>1, <2>1 DEF Sound, Accounted, OneActive
  <2>3. Continued'
    BY <1>1, <1>3 DEF Continued
  <2> QED
    BY <1>1, <2>1, <2>2, <2>3, RowsFrame, FinalsFrame, TimelineFrame DEF Sound, Accounted
<1>4. CASE current
  <2>1. /\ open /\ nextIndex = index[o] + 0
        /\ context.index = nextIndex /\ context.floor = lastEnded
    BY <1>1, <1>2, <1>4 DEF Sound, Accounted, Continued, Emitting
  <2>2. /\ opened' = n
        /\ life' = [life EXCEPT ![n] = "running"]
        /\ index' = [index EXCEPT ![n] = FirstIndex]
        /\ offset' = [offset EXCEPT ![n] = StartOffset]
    BY <1>4 DEF Restart
  <2>3. FirstIndex = index[o] /\ StartOffset \in Nat /\ lastEnded <= StartOffset
    BY <1>0, <2>1 DEF FirstIndex, StartOffset, Later
  <2>4. /\ life'[n] = "running" /\ index'[n] = index[o] /\ offset'[n] = StartOffset
        /\ \A w \in Workers : w # n =>
             life'[w] = life[w] /\ index'[w] = index[w] /\ offset'[w] = offset[w]
    BY <1>0, <2>2, <2>3 DEF Sound, Typed, TypeOK
  <2>5. \A id : LeftBehind(id) => LeftBehind(id)'
    BY <1>1, <1>2, <2>4, LeftBehindStays
  <2>6. OneActive'
    <3>1. ASSUME NEW w \in Workers, w < n
          PROVE  life[w] = "done" /\ w # n
      BY <1>0, <1>2, <3>1, SoundFacts DEF Sound, Accounted, OneActive
    <3>2. ASSUME NEW w \in Workers, w > n
          PROVE  life[w] = "none" /\ started[w] = Unset /\ fed[w] = 0 /\ w # n
      BY <1>0, <3>2, SoundFacts DEF Sound, Accounted, OneActive
    <3>3. \A w \in Workers : life[w] \in {"none", "done"} => final[w] = "idle"
      BY DEF Sound, Accounted, OneActive
    <3> QED
      BY <1>0, <1>1, <1>2, <2>2, <2>4, <3>1, <3>2, <3>3 DEF OneActive
  <2>7. Continued'
    BY <1>0, <1>1, <1>2, <2>1, <2>2, <2>4 DEF Continued, Emitting
  <2>8. RowsAccounted'
    <3> SUFFICES ASSUME NEW i \in 1..Len(transcript)
                 PROVE  /\ transcript[i].id <= index[o]
                        /\ transcript[i].id = index[o] => LeftBehind(index[opened])'
      BY <1>1, <2>2, <2>4 DEF RowsAccounted
    <3>1. /\ transcript[i].id <= index[o]
          /\ transcript[i].id = index[o] =>
               \/ transcript[i].started = started[o]
               \/ LeftBehind(index[o])
      BY DEF Sound, Accounted, RowsAccounted
    <3>2. ASSUME transcript[i].started = started[o]
          PROVE  LeftBehind(index[o])
      <4>1. started[o] # Unset
        BY <3>2, SoundFacts DEF Unset
      <4> QED
        BY <1>0, <1>2, <4>1 DEF LeftBehind
    <3>3. LeftBehind(index[o]) => LeftBehind(index[opened])'
      BY <1>1, <2>2, <2>4, <2>5 DEF LeftBehind
    <3> QED
      BY <3>1, <3>2, <3>3
  <2>9. FinalsAccounted'
    <3>1. \A i \in 1..Len(emitted) : LeftBehind(emitted[i].id) => LeftBehind(emitted[i].id)'
      BY <1>1, <2>5
    <3>2. \A i \in (cleared + 1)..Len(emitted) : i \in 1..Len(emitted)
      BY SoundFacts
    <3> QED
      BY <1>1, <3>1, <3>2 DEF Sound, Accounted, FinalsAccounted
  <2>10. Timeline'
    <3>1. CurrentTime(opened)' = StartOffset
      BY <1>1, <1>2, <2>2, <2>3, <2>4 DEF CurrentTime
    <3>2. \A i \in 1..Len(emitted) : emitted[i].ended <= lastEnded /\ emitted[i].ended <= StartOffset
      BY <1>0, <1>4, <2>3, SoundFacts DEF Sound, Accounted, Timeline
    <3>3. \A i, j \in 1..Len(emitted) : i < j => emitted[i].ended <= emitted[j].started
      BY DEF Sound, Accounted, Timeline
    <3> QED
      BY <1>1, <1>2, <2>2, <3>1, <3>2, <3>3 DEF Timeline
  <2> QED
    BY <2>6, <2>7, <2>8, <2>9, <2>10 DEF Accounted
<1> QED
  BY <1>3, <1>4

LEMMA StopKeeps ==
  ASSUME Sound, UNCHANGED uiVars, StopBegin \/ StopTake \/ Tick
  PROVE  Accounted'
<1>0. opened \in Workers
  BY SoundFacts
<1>1. CASE StopBegin
  <2>1. /\ ~current'
        /\ UNCHANGED <<scene, open, nextIndex, lastEnded, attempt, context, now, opened, life,
                       index, offset, fed, started, final, emitted, transcript, cleared>>
    BY <1>1 DEF StopBegin, workerVars, uiVars
  <2>2. OneActive' /\ Continued'
    BY <2>1 DEF Sound, Accounted, OneActive, Continued
  <2>3. Timeline'
    BY <2>1 DEF Sound, Accounted, Timeline, CurrentTime
  <2> QED
    BY <2>1, <2>2, <2>3, RowsFrame, FinalsFrame DEF Sound, Accounted
<1>2. CASE StopTake
  <2>1. /\ ~current
        /\ life' = [w \in Workers |-> IF life[w] = "running" THEN "finishing" ELSE life[w]]
        /\ UNCHANGED <<scene, current, nextIndex, lastEnded, attempt, context, now, opened, index,
                       offset, fed, started, final, emitted, transcript, cleared>>
    BY <1>2 DEF StopTake, uiVars
  <2>2. \A w \in Workers : life'[w] = life[w] \/ (life[w] = "running" /\ life'[w] = "finishing")
    BY <2>1
  <2>3. OneActive'
    BY <1>0, <2>1, <2>2 DEF Sound, Accounted, OneActive
  <2>4. Continued'
    BY <2>1 DEF Continued
  <2>5. \A id : LeftBehind(id) => LeftBehind(id)'
    BY <2>1, <2>2, LeftBehindStays
  <2>6. RowsAccounted'
    <3>1. LeftBehind(index[opened]) => LeftBehind(index[opened])'
      BY <2>1, <2>5
    <3> QED
      BY <2>1, <3>1 DEF Sound, Accounted, RowsAccounted
  <2>7. FinalsAccounted'
    <3>1. \A i \in 1..Len(emitted) : LeftBehind(emitted[i].id) => LeftBehind(emitted[i].id)'
      BY <2>1, <2>5
    <3>2. \A i \in (cleared + 1)..Len(emitted) : i \in 1..Len(emitted)
      BY SoundFacts
    <3> QED
      BY <2>1, <3>1, <3>2 DEF Sound, Accounted, FinalsAccounted
  <2> QED
    BY <2>1, <2>3, <2>4, <2>6, <2>7, TimelineFrame DEF Sound, Accounted
<1>3. CASE Tick
  <2>1. UNCHANGED <<scene, current, open, nextIndex, lastEnded, attempt, context, opened, life,
                    index, offset, fed, started, final, emitted, transcript, cleared>>
    BY <1>3 DEF Tick, workerVars, uiVars
  <2>2. OneActive'
    BY <2>1 DEF Sound, Accounted, OneActive
  <2> QED
    BY <2>1, <2>2, RowsFrame, FinalsFrame, TimelineFrame, ContinuedFrame DEF Sound, Accounted
<1> QED
  BY <1>1, <1>2, <1>3

(* The user can only take rows away, and then starts a new account.        *)
LEMMA UserKeeps ==
  ASSUME Sound, UserStep
  PROVE  Accounted'
<1>1. CASE UNCHANGED vars /\ UNCHANGED cleared
  <2>1. UNCHANGED <<scene, current, open, nextIndex, lastEnded, attempt, context, now, opened,
                    life, index, offset, fed, started, final, emitted, transcript, cleared>>
    BY <1>1 DEF vars, workerVars
  <2>2. OneActive'
    BY <2>1 DEF Sound, Accounted, OneActive
  <2> QED
    BY <2>1, <2>2, RowsFrame, FinalsFrame, TimelineFrame, ContinuedFrame DEF Sound, Accounted
<1>2. CASE DispatchClear
  <2>1. /\ transcript' = <<>> /\ cleared' = Len(emitted)
        /\ UNCHANGED <<scene, current, open, nextIndex, lastEnded, attempt, context, now, opened,
                       life, index, offset, fed, started, final, emitted>>
    BY <1>2 DEF DispatchClear, workerVars
  <2>2. OneActive'
    BY <2>1 DEF Sound, Accounted, OneActive
  <2>3. RowsAccounted'
    BY <2>1 DEF RowsAccounted
  <2>4. FinalsAccounted'
    <3>1. \A i \in (Len(emitted) + 1)..Len(emitted) : FALSE
      BY SoundFacts
    <3> QED
      BY <2>1, <3>1 DEF Sound, Accounted, FinalsAccounted
  <2> QED
    BY <2>1, <2>2, <2>3, <2>4, TimelineFrame, ContinuedFrame DEF Sound, Accounted
<1> QED
  BY <1>1, <1>2
  DEF UserStep, Commit, ClearActivate, ClearCancel, ClearConfirm, Copy, FeedbackEnds,
      ClipboardAnswers, CopySettles

LEMMA StepSound ==
  ASSUME Sound, [SessionNext]_sessionVars
  PROVE  Sound'
<1>1. /\ Typed' /\ UITyped' /\ Orderly'
  BY StepTyped DEF Sound, Orderly
<1>2. ASSUME NEW w \in Workers, WorkerStep(w), UNCHANGED uiVars
      PROVE  Accounted'
  <2>1. w = opened
    BY <1>2, ActiveOnly
  <2> QED
    BY <1>2, <2>1, FeedKeeps, PartialKeeps, FinalKeeps, FinalRecordKeeps, FinalEmitKeeps,
       ExitKeeps, FaultKeeps
    DEF WorkerStep
<1>3. ASSUME OtherStep, UNCHANGED uiVars
      PROVE  Accounted'
  BY <1>3, ReadContextKeeps, RestartKeeps, StopKeeps DEF OtherStep
<1>4. ASSUME UNCHANGED sessionVars
      PROVE  Accounted'
  <2>1. UNCHANGED <<scene, current, open, nextIndex, lastEnded, attempt, context, now, opened,
                    life, index, offset, fed, started, final, emitted, transcript, cleared>>
    BY <1>4 DEF sessionVars, vars, workerVars, uiVars
  <2>2. OneActive'
    BY <2>1 DEF Sound, Accounted, OneActive
  <2> QED
    BY <2>1, <2>2, RowsFrame, FinalsFrame, TimelineFrame, ContinuedFrame DEF Sound, Accounted
<1> QED
  BY <1>1, <1>2, <1>3, <1>4, UserKeeps, StepCases DEF Sound

LEMMA InitSound ==
  ASSUME SessionInit, Orderly
  PROVE  Sound
<1>1. Typed /\ UITyped
  BY InitTyped
<1>2. /\ current /\ open /\ nextIndex = 0 /\ attempt = "none" /\ opened = 1
      /\ life = [w \in Workers |-> IF w = 1 THEN "running" ELSE "none"]
      /\ index = [w \in Workers |-> 0] /\ fed = [w \in Workers |-> 0]
      /\ started = [w \in Workers |-> Unset] /\ final = [w \in Workers |-> "idle"]
      /\ emitted = <<>> /\ transcript = <<>>
  BY DEF SessionInit, Init
<1>3. 1 \in Workers /\ Workers \subseteq Nat /\ \A w \in Workers : 1 <= w
  BY SceneFacts DEF SessionInit, Init, Workers
<1>4. Len(<<>>) = 0 /\ \A k \in Nat : \A i \in (k + 1)..0 : FALSE
  OBVIOUS
<1>5. OneActive
  BY <1>2, <1>3 DEF OneActive
<1>6. Continued
  BY <1>2, <1>3 DEF Continued, Emitting
<1>7. RowsAccounted /\ FinalsAccounted
  <2>1. cleared = 0
    BY DEF SessionInit
  <2> QED
    BY <1>2, <1>4, <2>1 DEF RowsAccounted, FinalsAccounted
<1>8. Timeline
  BY <1>2, <1>3, <1>4 DEF Timeline
<1> QED
  BY <1>1, <1>5, <1>6, <1>7, <1>8 DEF Sound, Accounted

(* The scene of a behaviour is the same throughout: either slow workers    *)
(* are in it, and nothing is promised, or every state is sound.            *)
Promise == Typed /\ UITyped /\ (Orderly => Sound)

LEMMA PromiseStep ==
  ASSUME Promise, [SessionNext]_sessionVars
  PROVE  Promise'
<1>1. Typed' /\ UITyped' /\ scene' = scene
  BY StepTyped DEF Promise
<1>2. Orderly' => Orderly
  BY <1>1 DEF Orderly
<1> QED
  BY <1>1, <1>2, StepSound DEF Promise

(* Across any number of recoveries every final emitted since the last      *)
(* clear is a row, unless a worker left its id behind as an interim.       *)
THEOREM FinalsAreKept == SessionSpec => []EveryFinalKept
<1>1. SessionInit => Promise
  BY InitTyped, InitSound DEF Promise
<1>2. Promise /\ [SessionNext]_sessionVars => Promise'
  BY PromiseStep
<1>3. Promise => EveryFinalKept
  BY DEF Promise, Sound, Accounted, FinalsAccounted, LeftBehind, EveryFinalKept, BrokenOff
<1> QED
  BY <1>1, <1>2, <1>3, PTL DEF SessionSpec

(* The segments of a source never overlap, whatever the clocks of the      *)
(* devices and of the session show.                                        *)
THEOREM TimelineIsMonotone == SessionSpec => []TimelineMonotone
<1>1. SessionInit => Promise
  BY InitTyped, InitSound DEF Promise
<1>2. Promise /\ [SessionNext]_sessionVars => Promise'
  BY PromiseStep
<1>3. Promise => TimelineMonotone
  <2>1. ASSUME Typed PROVE DOMAIN emitted = 1..Len(emitted)
    BY <2>1, LenProperties DEF Typed, TypeOK
  <2> QED
    BY <2>1 DEF Promise, Sound, Accounted, Timeline, TimelineMonotone, EmittedInOrder
<1> QED
  BY <1>1, <1>2, <1>3, PTL DEF SessionSpec
=============================================================================
