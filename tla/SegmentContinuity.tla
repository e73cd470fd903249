-------------------------- MODULE SegmentContinuity --------------------------
(***************************************************************************)
(* One source of one session, from its ASR workers to the transcript: the  *)
(* segment ids and times a worker gives (SegmentTracker in asr/worker.rs), *)
(* what on_final and the recovery attempt keep in RecoveryState            *)
(* (state/manager.rs) so that the next worker can continue them, and the   *)
(* reducer of the webview that holds ids to be unique                      *)
(* (features/transcript/transcript-domain.ts).                             *)
(*                                                                         *)
(* Workers are numbered in the order they are opened; the first belongs to *)
(* the start, each later one to a recovery attempt.  An id is its segment  *)
(* index: session and source are fixed.                                    *)
(***************************************************************************)
EXTENDS Integers, Sequences, SequencesExt

CONSTANTS
  MaxWorkers,   \* 1 + recovery attempts, the most in any scene
  Scenes        \* the behaviours of this instance, each bounded on its own

ContinuityEvents ==
  {"idle fault",     \* the source breaks between two utterances
   "interim fault",  \* the source breaks in the middle of an utterance
   "slow worker",    \* a broken worker may outlive the backoff
   "stop",           \* the session is stopped
   "clear"}          \* the user clears the transcript

(* A behaviour plays one scene: how many workers it opens, how many        *)
(* segments they begin, how much audio each is fed and how long it lasts   *)
(* (in ticks), how often the user copies the transcript, and what happens. *)
ASSUME ContinuityAssumption ==
  /\ MaxWorkers \in Nat \ {0}
  /\ \A s \in Scenes :
       /\ s.workers \in 1..MaxWorkers
       /\ s.segments \in Nat /\ s.fed \in Nat /\ s.now \in Nat /\ s.copies \in Nat
       /\ s.events \subseteq ContinuityEvents

Workers == 1..MaxWorkers
Unset == -1

VARIABLES
  scene,        \* the scene of this behaviour
  current,      \* is the generation still that of this session?
  open,         \* does `session` still hold this session?
  nextIndex,    \* RecoveryState.next_segment_index
  lastEnded,    \* RecoveryState.last_ended_at_ms
  attempt,      \* the recovery attempt: "none", "backoff" or "restart"
  context,      \* what the attempt read: segment index and minimal offset
  now,          \* time since session_clock_origin
  opened,       \* how many workers have been opened
  life,         \* of each worker: none, running, abandoned, finishing, done
  index, offset, fed, started,   \* SegmentTracker of each worker
  final,        \* progress of a worker's on_final: idle, record, emit
  emitted,      \* history: the finals emitted, in order
  transcript    \* the rows of the webview

workerVars == <<life, index, offset, fed, started, final>>
vars == <<scene, current, open, nextIndex, lastEnded, attempt, context, now, opened,
          workerVars, emitted, transcript>>

Row == [id : Nat, started : Nat, ended : Nat \cup {Unset}]
IsFinal(row) == row.ended # Unset

TypeOK ==
  /\ scene \in Scenes
  /\ current \in BOOLEAN /\ open \in BOOLEAN
  /\ nextIndex \in Nat /\ lastEnded \in Nat
  /\ attempt \in {"none", "backoff", "restart"}
  /\ context \in [index : Nat, floor : Nat]
  /\ now \in 0..scene.now
  /\ opened \in Workers
  /\ life \in [Workers -> {"none", "running", "abandoned", "finishing", "done"}]
  /\ index \in [Workers -> Nat]
  /\ offset \in [Workers -> Nat]
  /\ fed \in [Workers -> 0..scene.fed]
  /\ started \in [Workers -> Nat \cup {Unset}]
  /\ final \in [Workers -> {"idle", "record", "emit"}]
  /\ emitted \in Seq(Row)
  /\ transcript \in Seq(Row)

Init ==
  /\ scene \in Scenes
  /\ current = TRUE /\ open = TRUE
  /\ nextIndex = 0 /\ lastEnded = 0
  /\ attempt = "none"
  /\ context = [index |-> 0, floor |-> 0]
  /\ now = 0
  /\ opened = 1
  /\ life = [w \in Workers |-> IF w = 1 THEN "running" ELSE "none"]
  /\ index = [w \in Workers |-> 0]
  /\ offset = [w \in Workers |-> 0]
  /\ fed = [w \in Workers |-> 0]
  /\ started = [w \in Workers |-> Unset]
  /\ final = [w \in Workers |-> "idle"]
  /\ emitted = <<>>
  /\ transcript = <<>>

-----------------------------------------------------------------------------
(* The reducer: the first row of an id is appended, an interim row is      *)
(* replaced by an update that started at the same time, a final row by     *)
(* nothing; any other update is refused.                                   *)

\* mutant of Receive: a final row can be replaced
ReceiveOverFinal(row) ==
  LET known == SelectInSeq(transcript, LAMBDA r : r.id = row.id)
  IN  IF known = 0 THEN Append(transcript, row)
      ELSE IF transcript[known].started = row.started
           THEN [transcript EXCEPT ![known] = row]
           ELSE transcript

Receive(row) ==
  LET known == SelectInSeq(transcript, LAMBDA r : r.id = row.id)
  IN  IF known = 0 THEN Append(transcript, row)
      ELSE IF ~IsFinal(transcript[known]) /\ transcript[known].started = row.started
           THEN [transcript EXCEPT ![known] = row]
           ELSE transcript

-----------------------------------------------------------------------------
(* The worker *)

CurrentTime(w) == offset[w] + fed[w]

(* An abandoned worker works off what is queued for it.                    *)
Works(w) == final[w] = "idle" /\ life[w] \in {"running", "abandoned"}

(* The device clock and the host clock are not the same.                   *)
Feed(w) ==
  /\ Works(w)
  /\ fed[w] < scene.fed
  /\ fed' = [fed EXCEPT ![w] = @ + 1]
  /\ UNCHANGED <<scene, current, open, nextIndex, lastEnded, attempt, context, now, opened,
                 life, index, offset, started, final, emitted, transcript>>

(* A hypothesis that is not empty; on_partial drops it when superseded.    *)
Partial(w) ==
  LET start == IF started[w] = Unset THEN CurrentTime(w) ELSE started[w]
  IN  /\ Works(w)
      /\ fed[w] > 0 /\ index[w] < scene.segments
      /\ started' = [started EXCEPT ![w] = start]
      /\ transcript' = IF current
                       THEN Receive([id |-> index[w], started |-> start, ended |-> Unset])
                       ELSE transcript
      /\ UNCHANGED <<scene, current, open, nextIndex, lastEnded, attempt, context, now,
                     opened, life, index, offset, fed, final, emitted>>

(* The utterance ends, by an endpoint or by finish, perhaps with no audio  *)
(* since it began: on_final looks at the generation, and the tracker moves *)
(* on to the next segment whether or not on_final reported this one.       *)
Final(w) ==
  /\ final[w] = "idle"
  /\ started[w] # Unset
  /\ Works(w) \/ life[w] = "finishing"
  /\ \/ /\ current
        /\ final' = [final EXCEPT ![w] = "record"]
        /\ UNCHANGED <<index, started>>
     \/ /\ ~current
        /\ index' = [index EXCEPT ![w] = @ + 1]
        /\ started' = [started EXCEPT ![w] = Unset]
        /\ UNCHANGED final
  /\ UNCHANGED <<scene, current, open, nextIndex, lastEnded, attempt, context, now, opened,
                 life, offset, fed, emitted, transcript>>

Later(a, b) == IF a < b THEN b ELSE a

(* on_final, session section *)
FinalRecord(w) ==
  /\ final[w] = "record"
  /\ final' = [final EXCEPT ![w] = "emit"]
  /\ IF open
     THEN /\ nextIndex' = nextIndex + 1
          /\ lastEnded' = Later(lastEnded, CurrentTime(w))
     ELSE UNCHANGED <<nextIndex, lastEnded>>
  /\ UNCHANGED <<scene, current, open, attempt, context, now, opened, life, index, offset,
                 fed, started, emitted, transcript>>

FinalEmit(w) ==
  LET row == [id |-> index[w], started |-> started[w], ended |-> CurrentTime(w)]
  IN  /\ final[w] = "emit"
      /\ emitted' = Append(emitted, row)
      /\ transcript' = Receive(row)
      /\ index' = [index EXCEPT ![w] = @ + 1]
      /\ started' = [started EXCEPT ![w] = Unset]
      /\ final' = [final EXCEPT ![w] = "idle"]
      /\ UNCHANGED <<scene, current, open, nextIndex, lastEnded, attempt, context, now,
                     opened, life, offset, fed>>

(* The queue is empty and finished: an abandoned worker leaves its interim, *)
(* a stopped one has finalized it.                                         *)
Exit(w) ==
  /\ final[w] = "idle"
  /\ \/ life[w] = "abandoned"
     \/ life[w] = "finishing" /\ started[w] = Unset
  /\ life' = [life EXCEPT ![w] = "done"]
  /\ UNCHANGED <<scene, current, open, nextIndex, lastEnded, attempt, context, now, opened,
                 index, offset, fed, started, final, emitted, transcript>>

-----------------------------------------------------------------------------
(* Faults, recovery and stop, reduced to what they do to the workers       *)

AttemptLeft == opened < scene.workers

Fault(w) ==
  /\ life[w] = "running"
  /\ open
  /\ attempt = "none"
  /\ AttemptLeft
  /\ IF started[w] = Unset THEN "idle fault" \in scene.events ELSE "interim fault" \in scene.events
  /\ life' = [life EXCEPT ![w] = "abandoned"]
  /\ attempt' = "backoff"
  /\ UNCHANGED <<scene, current, open, nextIndex, lastEnded, context, now, opened, index,
                 offset, fed, started, final, emitted, transcript>>

(* The attempt ends here if the session was stopped in the meantime.  The  *)
(* old worker is joined on a thread of its own: nobody waits for it.       *)
ReadContext ==
  /\ attempt = "backoff"
  /\ "slow worker" \notin scene.events => \A w \in Workers : life[w] # "abandoned"
  /\ attempt' = IF current /\ open THEN "restart" ELSE "none"
  /\ context' = IF current /\ open THEN [index |-> nextIndex, floor |-> lastEnded]
                ELSE context
  /\ UNCHANGED <<scene, current, open, nextIndex, lastEnded, now, opened, workerVars,
                 emitted, transcript>>

FirstIndexAgain == 0             \* mutant of FirstIndex: every worker starts at 0
FirstIndex == context.index
ElapsedOffset == now             \* mutant of StartOffset: not clamped
StartOffset == Later(now, context.floor)

Restart ==
  LET w == opened + 1
  IN  /\ attempt = "restart"
      /\ attempt' = "none"
      /\ IF current
         THEN /\ opened' = w
              /\ life' = [life EXCEPT ![w] = "running"]
              /\ index' = [index EXCEPT ![w] = FirstIndex]
              /\ offset' = [offset EXCEPT ![w] = StartOffset]
         ELSE UNCHANGED <<opened, life, index, offset>>
      /\ UNCHANGED <<scene, current, open, nextIndex, lastEnded, context, now, fed, started,
                     final, emitted, transcript>>

StopBegin ==
  /\ "stop" \in scene.events
  /\ current
  /\ current' = FALSE
  /\ UNCHANGED <<scene, open, nextIndex, lastEnded, attempt, context, now, opened,
                 workerVars, emitted, transcript>>

StopTake ==
  /\ ~current
  /\ open
  /\ open' = FALSE
  /\ life' = [w \in Workers |-> IF life[w] = "running" THEN "finishing" ELSE life[w]]
  /\ UNCHANGED <<scene, current, nextIndex, lastEnded, attempt, context, now, opened, index,
                 offset, fed, started, final, emitted, transcript>>

Tick ==
  /\ now < scene.now
  /\ now' = now + 1
  /\ UNCHANGED <<scene, current, open, nextIndex, lastEnded, attempt, context, opened,
                 workerVars, emitted, transcript>>

Next ==
  \/ \E w \in Workers :
       \/ Feed(w) \/ Partial(w) \/ Final(w) \/ FinalRecord(w) \/ FinalEmit(w)
       \/ Exit(w) \/ Fault(w)
  \/ ReadContext \/ Restart \/ StopBegin \/ StopTake \/ Tick

Spec == Init /\ [][Next]_vars

-----------------------------------------------------------------------------
(* Properties.  Those that hold are stated in TranscriptSession, which adds *)
(* the user's side; these are violated by the code.                         *)

(* Every final a worker emits becomes a row: a recovery never triggers an   *)
(* identity conflict (spec 10).  Violated (interim_id_reused.cfg): a        *)
(* recovered worker reuses the id of the interim its predecessor left, and  *)
(* the reducer refuses the final.                                           *)
NoFinalRefused == \A i \in DOMAIN emitted : Contains(transcript, emitted[i])

(* Finals are emitted in the order of their times.  Violated                *)
(* (late_final_after_restart.cfg): an abandoned worker works off its queue  *)
(* after its successor was opened.                                          *)
EmittedInOrder ==
  \A i, j \in DOMAIN emitted : i < j => emitted[i].ended <= emitted[j].started

(* A stopped worker has finalized its interim normally (comment of          *)
(* ActiveSession::stop).  Violated (stop_drops_last_final.cfg): on_final    *)
(* drops every final of a superseded generation, and stop_capture moves the *)
(* generation on before anything else.                                      *)
StopFinalizesInterim ==
  \A w \in Workers :
    life[w] = "done" /\ attempt = "none" /\ opened = 1 =>
      \A i \in DOMAIN transcript : IsFinal(transcript[i])
=============================================================================
