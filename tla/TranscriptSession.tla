-------------------------- MODULE TranscriptSession --------------------------
(***************************************************************************)
(* The transcript workspace over one source: what the user sees, clears    *)
(* and copies (features/transcript/TranscriptWorkspace.tsx) while workers  *)
(* keep sending segments.                                                  *)
(*                                                                         *)
(* `transcript` (of SegmentContinuity) is the reducer's state with every   *)
(* dispatched action applied; `rendered` is what React last committed.     *)
(* The buttons and the finalized text they use belong to that commit, and  *)
(* so does currentFinalizedTextRef, which a layout effect sets.  The       *)
(* workspace stays mounted: App renders it unconditionally.                *)
(***************************************************************************)
EXTENDS SegmentContinuity

VARIABLES
  rendered,     \* the rows of the last commit
  confirming,   \* clearConfirming
  copyState,    \* idle, pending, success or failure
  requestId,    \* requestIdRef: how many copies were requested
  writes,       \* clipboard writes whose promise has not been handled
  clipboard,    \* external: the system clipboard
  cleared       \* history: how many finals had been emitted at the last Clear

uiVars == <<rendered, confirming, copyState, requestId, writes, clipboard, cleared>>
sessionVars == <<vars, uiVars>>

(* serializeFinalTranscript: the finals in row order.  Two texts are the   *)
(* same here when their rows are.                                          *)
FinalizedText(rows) == SelectSeq(rows, IsFinal)

SessionTypeOK ==
  /\ TypeOK
  /\ rendered \in Seq(Row)
  /\ confirming \in BOOLEAN
  /\ copyState \in {"idle", "pending", "success", "failure"}
  /\ requestId \in 0..scene.copies
  /\ \A i \in DOMAIN writes :
       /\ writes[i].id \in 1..requestId
       /\ writes[i].result \in {"none", "written", "failed"}
  /\ cleared \in 0..Len(emitted)

SessionInit ==
  /\ Init
  /\ rendered = <<>>
  /\ confirming = FALSE
  /\ copyState = "idle"
  /\ requestId = 0
  /\ writes = <<>>
  /\ clipboard = <<>>
  /\ cleared = 0

-----------------------------------------------------------------------------
(* Clear *)

(* React commits segments some time after they were dispatched.            *)
Commit ==
  /\ rendered # transcript
  /\ rendered' = transcript
  /\ UNCHANGED <<vars, confirming, copyState, requestId, writes, clipboard, cleared>>

(* session/cleared.  A click renders at once, and what was dispatched      *)
(* before it and not yet rendered is replayed before it.                   *)
DispatchClear ==
  /\ transcript' = <<>>
  /\ rendered' = <<>>
  /\ cleared' = Len(emitted)
  /\ UNCHANGED <<scene, current, open, nextIndex, lastEnded, attempt, context, now,
                 opened, workerVars, emitted>>

HasFinalContent == FinalizedText(rendered) # <<>>

ClearActivate ==
  /\ "clear" \in scene.events
  /\ ~confirming
  /\ rendered # <<>>
  /\ \/ /\ ~HasFinalContent
        /\ DispatchClear
        /\ UNCHANGED confirming
     \/ /\ HasFinalContent
        /\ confirming' = TRUE
        /\ UNCHANGED <<vars, rendered, cleared>>
  /\ UNCHANGED <<copyState, requestId, writes, clipboard>>

ClearCancel ==
  /\ confirming
  /\ confirming' = FALSE
  /\ UNCHANGED <<vars, rendered, copyState, requestId, writes, clipboard, cleared>>

ClearConfirm ==
  /\ confirming
  /\ confirming' = FALSE
  /\ copyState' = "idle"
  /\ DispatchClear
  /\ UNCHANGED <<requestId, writes, clipboard>>

-----------------------------------------------------------------------------
(* Copy All *)

Copy ==
  /\ copyState # "pending"
  /\ HasFinalContent
  /\ requestId < scene.copies
  /\ requestId' = requestId + 1
  /\ copyState' = "pending"
  /\ writes' = Append(writes, [id |-> requestId + 1, text |-> FinalizedText(rendered),
                               result |-> "none"])
  /\ UNCHANGED <<vars, rendered, confirming, clipboard, cleared>>

(* External: the clipboard plugin carries the writes out in the order they *)
(* were requested; each succeeds or fails.                                 *)
ClipboardAnswers(i) ==
  /\ writes[i].result = "none"
  /\ \A j \in 1..(i - 1) : writes[j].result # "none"
  /\ \/ /\ writes' = [writes EXCEPT ![i].result = "written"]
        /\ clipboard' = writes[i].text
     \/ /\ writes' = [writes EXCEPT ![i].result = "failed"]
        /\ UNCHANGED clipboard
  /\ UNCHANGED <<vars, rendered, confirming, copyState, requestId, cleared>>

Superseded(write) == write.id # requestId

\* mutant of SameText: success is claimed whatever happened to the text
AnyText(write) == TRUE
SameText(write) == FinalizedText(rendered) = write.text

\* mutant of Claim: a failed write has no callback
ClaimsOnlySuccess(write) == IF write.result = "written" THEN "success" ELSE copyState
Claim(write) == IF write.result = "written" THEN "success" ELSE "failure"

(* The promise's callback, then or catch.                                  *)
CopySettles(i) ==
  /\ writes[i].result # "none"
  /\ writes' = RemoveAt(writes, i)
  /\ copyState' = IF Superseded(writes[i]) THEN copyState
                  ELSE IF SameText(writes[i]) THEN Claim(writes[i])
                  ELSE "idle"
  /\ UNCHANGED <<vars, rendered, confirming, requestId, clipboard, cleared>>

(* The feedback timeout; a new copy and a confirmed clear cancel it.       *)
FeedbackEnds ==
  /\ copyState = "success"
  /\ copyState' = "idle"
  /\ UNCHANGED <<vars, rendered, confirming, requestId, writes, clipboard, cleared>>

-----------------------------------------------------------------------------
SessionNext ==
  \/ \E w \in Workers :
       \/ Feed(w) /\ UNCHANGED uiVars
       \/ Partial(w) /\ UNCHANGED uiVars
       \/ Final(w) /\ UNCHANGED uiVars
       \/ FinalRecord(w) /\ UNCHANGED uiVars
       \/ FinalEmit(w) /\ UNCHANGED uiVars
       \/ Exit(w) /\ UNCHANGED uiVars
       \/ Fault(w) /\ UNCHANGED uiVars
  \/ ReadContext /\ UNCHANGED uiVars
  \/ Restart /\ UNCHANGED uiVars
  \/ StopBegin /\ UNCHANGED uiVars
  \/ StopTake /\ UNCHANGED uiVars
  \/ Tick /\ UNCHANGED uiVars
  \/ Commit
  \/ ClearActivate
  \/ ClearCancel
  \/ ClearConfirm
  \/ Copy
  \/ \E i \in DOMAIN writes : ClipboardAnswers(i) \/ CopySettles(i)
  \/ FeedbackEnds

SessionSpec == SessionInit /\ [][SessionNext]_sessionVars

-----------------------------------------------------------------------------
(* Properties *)

(* Every abandoned worker has ended before its successor reads where to    *)
(* continue: what the recovery backoff is for.                             *)
Orderly == "slow worker" \notin scene.events

(* A fault broke off this utterance: its interim row stays.                *)
BrokenOff(id) ==
  \E w \in Workers :
    life[w] \in {"abandoned", "done"} /\ started[w] # Unset /\ index[w] = id

(* Across recoveries, every final emitted since the last clear is a row,   *)
(* in place of its interim: ids continue, and only the id of an utterance  *)
(* that a fault broke off is ever used twice.                              *)
EveryFinalKept ==
  Orderly =>
    \A i \in (cleared + 1)..Len(emitted) :
      Contains(transcript, emitted[i]) \/ BrokenOff(emitted[i].id)

(* The segments of a source do not overlap, across recoveries and drifting *)
(* clocks either: a final starts at or after the end of the one before it. *)
TimelineMonotone == Orderly => EmittedInOrder

(* A finalized row never changes and never moves, whatever late, duplicate *)
(* or conflicting segments arrive; only a clear, which removes all rows,   *)
(* removes it.                                                             *)
FinalsNeverChange ==
  [][\/ transcript' = <<>>
     \/ \A i \in DOMAIN transcript :
          IsFinal(transcript[i]) =>
            i \in DOMAIN transcript' /\ transcript'[i] = transcript[i]]_sessionVars

(* "Copied" is shown only when the clipboard holds the finalized text on   *)
(* the screen: not an older one, and not after the text has moved on.      *)
CopiedIsTrue ==
  [][copyState # "success" /\ copyState' = "success" =>
       clipboard' = FinalizedText(rendered')]_sessionVars

(* Copy All is disabled while a copy is pending, so the answer that ends   *)
(* it must still be on its way, whatever was cleared in between.           *)
PendingIsAnswered ==
  copyState = "pending" => \E i \in DOMAIN writes : writes[i].id = requestId

(* Finalized content is cleared only after a confirmation (spec 02).       *)
(* Violated (clear_drops_final.cfg): the button decides by the rows of the *)
(* last commit, and a final dispatched since goes without being asked for. *)
ClearOnlyConfirmed ==
  [][FinalizedText(transcript) # <<>> /\ transcript' = <<>> => confirming]_sessionVars
=============================================================================
