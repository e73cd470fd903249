------------------------- MODULE StatusBridge_proofs -------------------------
(***************************************************************************)
(* The status bridge, for any set of events and threads and any number of  *)
(* changes: no listener is released twice, the webview never goes back to  *)
(* an older status, and a bridge that is ready shows the manager's once    *)
(* nothing is on its way.                                                  *)
(*                                                                         *)
(* The second needs the first snapshot and the events to be filtered by    *)
(* one reference that both mounts share, and what is shown never to be     *)
(* ahead of it: ShownIsApplied.  The third needs more: from the fetch on,  *)
(* the mount that lives has all its listeners, and the status of the       *)
(* moment is fetched, shown, or on its way to it: Bridged.                 *)
(***************************************************************************)
EXTENDS StatusBridge, SequenceTheorems, TLAPS

USE BridgeAssumption

-----------------------------------------------------------------------------
(* Types *)

(* Releasing keeps the types of the listeners. *)
LEMMA UnlistenTyped ==
  ASSUME TypeOK, NEW es \in SUBSET Ears, Unlisten(es)
  PROVE  /\ listener' \in [Ears -> {"none", "asked", "live", "held", "failed", "released"}]
         /\ unlistens' \in [Ears -> Nat]
  BY DEF TypeOK, Unlisten

(* The state the filter works on: the reference and what is shown. *)
Views == [applied : Maybe, shown : Maybe]

(* The filter yields a state of the same kind. *)
LEMMA FilterTyped ==
  ASSUME NEW m \in Mounts, NEW r \in Maybe, NEW s \in Views
  PROVE  ApplyIfNewer(m, r, s) \in Views
  BY DEF ApplyIfNewer, Views

(* A message is heard by the filter of the mounts it is addressed to. *)
Hearing(m, event) == \E e \in event.to : e[1] = m /\ listener[e] \in {"live", "held"}
AtFirst(event) ==
  IF Hearing(1, event) THEN ApplyIfNewer(1, event.revision, [applied |-> applied, shown |-> shown])
  ELSE [applied |-> applied, shown |-> shown]
AtBoth(event) ==
  IF Hearing(2, event) THEN ApplyIfNewer(2, event.revision, AtFirst(event)) ELSE AtFirst(event)

(* An event moves the state on by what its hearers filter. *)
LEMMA DeliverIsFiltered ==
  ASSUME Deliver
  PROVE  /\ applied' = AtBoth(Head(inbox)).applied
         /\ shown' = AtBoth(Head(inbox)).shown
<1>1. \A m : Hearing(m, Head(inbox))
              <=> \E e \in Head(inbox).to : e[1] = m /\ listener[e] \in {"live", "held"}
  BY Zenon DEF Hearing
<1> QED
  BY Zenon DEF Deliver, AtBoth, AtFirst, Hearing

(* What is delivered is a message of a revision. *)
LEMMA InboxHead ==
  ASSUME TypeOK, inbox # <<>>
  PROVE  Head(inbox).revision \in Maybe /\ Tail(inbox) \in Seq([revision : Revisions, to : SUBSET Ears])
<1> DEFINE Messages == [revision : Revisions, to : SUBSET Ears]
<1>1. inbox \in Seq(Messages)
  BY DEF TypeOK
<1>2. Head(inbox) \in Messages /\ Tail(inbox) \in Seq(Messages)
  <2> HIDE DEF Messages
  <2> QED
    BY <1>1, HeadTailProperties
<1>3. Head(inbox).revision \in Revisions
  BY <1>2
<1> QED
  BY <1>2, <1>3 DEF Maybe

(* The filters yield states of the same kind. *)
LEMMA FilteredTyped ==
  ASSUME TypeOK, NEW event, event.revision \in Maybe
  PROVE  AtFirst(event) \in Views /\ AtBoth(event) \in Views
<1>1. [applied |-> applied, shown |-> shown] \in Views
  BY DEF TypeOK, Views
<1>2. AtFirst(event) \in Views
  BY <1>1, FilterTyped DEF AtFirst, Mounts
<1> QED
  BY <1>2, FilterTyped DEF AtBoth, Mounts

(* Every step keeps the types. *)
LEMMA TypePreserved ==
  ASSUME TypeOK, [Next]_vars
  PROVE  TypeOK'
<1> USE DEF TypeOK, nativeVars, listenVars, stateVars
<1>1. ASSUME NEW t \in Threads, Apply(t) PROVE TypeOK'
  BY <1>1 DEF Apply, Revisions, Maybe
<1>2. ASSUME NEW t \in Threads, TakeSnapshot(t) PROVE TypeOK'
  BY <1>2 DEF TakeSnapshot, Maybe
<1>3. ASSUME NEW t \in Threads, NEW k \in Kinds, Emit(t, k) PROVE TypeOK'
  <2>1. Registered(k) \in SUBSET Ears
    BY DEF Registered, Ears
  <2>2. snap[t] \in Revisions
    BY <1>3 DEF Emit, Maybe
  <2>3. [revision |-> snap[t], to |-> Registered(k)] \in [revision : Revisions, to : SUBSET Ears]
    BY <2>1, <2>2
  <2>4. inbox' \in Seq([revision : Revisions, to : SUBSET Ears])
    BY <1>3, <2>3, AppendProperties DEF Emit
  <2>5. owes' \in [Threads -> SUBSET Kinds] /\ snap' \in [Threads -> Maybe]
    BY <1>3 DEF Emit, Maybe
  <2> QED
    BY <1>3, <2>4, <2>5 DEF Emit
<1>4. ASSUME NEW ms \in SUBSET Mounts, NEW gone, Mounted(ms, gone) PROVE TypeOK'
  BY <1>4 DEF Mounted
<1>5. ASSUME NEW m \in Mounts, Unmount(m) PROVE TypeOK'
  <2>1. Held(m) \in SUBSET Ears
    BY DEF Held, EarsOf, Ears
  <2> QED
    BY <1>5, <2>1, UnlistenTyped DEF Unmount
<1>6. ASSUME NEW e \in Ears, Listens(e) \/ ListenFails(e) PROVE TypeOK'
  BY <1>6 DEF Listens, ListenFails
<1>7. ASSUME NEW e \in Ears, Acquire(e) PROVE TypeOK'
  <2>1. /\ listener' \in [Ears -> {"none", "asked", "live", "held", "failed", "released"}]
        /\ unlistens' \in [Ears -> Nat]
    <3>1. CASE cancelled[e[1]]
      BY <1>7, <3>1, UnlistenTyped DEF Acquire
    <3>2. CASE ~cancelled[e[1]]
      BY <1>7, <3>2 DEF Acquire
    <3> QED
      BY <3>1, <3>2
  <2> QED
    BY <1>7, <2>1 DEF Acquire
<1>8. ASSUME NEW m \in Mounts, GoOn(m) PROVE TypeOK'
  <2>1. Held(m) \in SUBSET Ears
    BY DEF Held, EarsOf, Ears
  <2>2. Unlisten(Held(m)) \/ UNCHANGED listenVars
    BY <1>8 DEF GoOn
  <2>3. /\ listener' \in [Ears -> {"none", "asked", "live", "held", "failed", "released"}]
        /\ unlistens' \in [Ears -> Nat]
    BY <2>1, <2>2, UnlistenTyped
  <2> QED
    BY <1>8, <2>3 DEF GoOn
<1>9. ASSUME NEW m \in Mounts, ShowFailure(m) PROVE TypeOK'
  BY <1>9 DEF ShowFailure, Maybe
<1>10. CASE Deliver
  <2>1. inbox # <<>>
    BY <1>10 DEF Deliver
  <2>2. AtBoth(Head(inbox)) \in Views
    BY <2>1, InboxHead, FilteredTyped
  <2>3. applied' \in Maybe /\ shown' \in Maybe
    BY <1>10, <2>2, DeliverIsFiltered DEF Views
  <2> QED
    BY <1>10, <2>1, <2>3, InboxHead DEF Deliver
<1>11. ASSUME NEW m \in Mounts, Fetch(m) PROVE TypeOK'
  BY <1>11 DEF Fetch, Maybe
<1>12. ASSUME NEW m \in Mounts, Answered(m) PROVE TypeOK'
  <2>1. [applied |-> applied, shown |-> shown] \in Views
    BY DEF Views
  <2>2. ApplyIfNewer(m, answer[m], [applied |-> applied, shown |-> shown]) \in Views
    BY <2>1, FilterTyped
  <2>3. applied' \in Maybe /\ shown' \in Maybe
    BY <1>12, <2>2 DEF Answered, Views
  <2>4. ready' \in BOOLEAN /\ error' \in BOOLEAN
    BY <1>12 DEF Answered
  <2> QED
    BY <1>12, <2>3, <2>4 DEF Answered
<1>13. ASSUME NEW m \in Mounts, FetchFails(m) PROVE TypeOK'
  BY <1>13 DEF FetchFails
<1>14. CASE UNCHANGED vars
  BY <1>14 DEF vars
<1>15. {1} \in SUBSET Mounts /\ Mounts \in SUBSET Mounts
  BY DEF Mounts
<1> QED
  BY <1>1, <1>2, <1>3, <1>4, <1>5, <1>6, <1>7, <1>8, <1>9, <1>10, <1>11, <1>12, <1>13,
     <1>14, <1>15
     DEF Next, Native, Webview, Runtime, Mount, MountStrict

(* Type correctness. *)
THEOREM TypeCorrect == Spec => []TypeOK
<1>1. Init => TypeOK
  <2> SUFFICES ASSUME Init
               PROVE  TypeOK
    OBVIOUS
  <2>1. inbox \in Seq([revision : Revisions, to : SUBSET Ears])
    BY EmptySeq DEF Init
  <2>2. 0 \in Revisions /\ NoRevision \in Maybe
    BY DEF Revisions, Maybe
  <2> QED
    BY <2>1, <2>2 DEF Init, TypeOK
<1> QED
  BY <1>1, TypePreserved, PTL DEF Spec

-----------------------------------------------------------------------------
(* A listener that has been released was released once *)

(* Before a mount no listener is asked for. *)
ReleaseInv ==
  /\ ReleasedOnce
  /\ (phase = [m \in Mounts |-> "none"]) => \A e \in Ears : listener[e] = "none"

(* What teardown releases is held, hence not yet released. *)
LEMMA UnlistenOnce ==
  ASSUME TypeOK, ReleasedOnce, NEW es \in SUBSET Ears,
         \A e \in es : listener[e] # "released", Unlisten(es)
  PROVE  ReleasedOnce'
  BY DEF TypeOK, ReleasedOnce, Unlisten

(* Every step keeps the count of releases. *)
LEMMA ReleasePreserved ==
  ASSUME TypeOK, ReleaseInv, [Next]_vars
  PROVE  ReleaseInv'
<1> USE DEF ReleaseInv, nativeVars, listenVars, stateVars
<1>0. ASSUME phase' = phase,
             \A e \in Ears : listener'[e] = listener[e] \/ listener[e] # "none",
             ReleasedOnce'
      PROVE  ReleaseInv'
  BY <1>0
<1>1. ASSUME UNCHANGED <<phase, listener, unlistens>> PROVE ReleaseInv'
  BY <1>1 DEF ReleasedOnce
<1>2. ASSUME NEW ms \in SUBSET Mounts, ms # {}, NEW gone, Mounted(ms, gone) PROVE ReleaseInv'
  <2>1. \A e \in Ears : unlistens'[e] = 0 /\ listener'[e] \in {"none", "asked"}
    BY <1>2 DEF Mounted, ReleasedOnce
  <2>2. phase' # [m \in Mounts |-> "none"]
    BY <1>2 DEF Mounted
  <2> QED
    BY <2>1, <2>2 DEF ReleasedOnce
<1>3. ASSUME NEW m \in Mounts, Unmount(m) PROVE ReleaseInv'
  <2>1. Held(m) \in SUBSET Ears /\ \A e \in Held(m) : listener[e] = "held"
    BY DEF Held, EarsOf, Ears
  <2>2. ReleasedOnce'
    BY <1>3, <2>1, UnlistenOnce DEF Unmount
  <2>3. \A e \in Ears : listener'[e] = listener[e] \/ listener[e] # "none"
    BY <1>3, <2>1 DEF Unmount, Unlisten
  <2> QED
    BY <1>0, <1>3, <2>2, <2>3 DEF Unmount
<1>4. ASSUME NEW e \in Ears, Listens(e) \/ ListenFails(e) PROVE ReleaseInv'
  <2>1. ReleasedOnce'
    BY <1>4 DEF Listens, ListenFails, ReleasedOnce, TypeOK
  <2>2. \A f \in Ears : listener'[f] = listener[f] \/ listener[f] # "none"
    BY <1>4 DEF Listens, ListenFails, TypeOK
  <2> QED
    BY <1>0, <1>4, <2>1, <2>2 DEF Listens, ListenFails
<1>5. ASSUME NEW e \in Ears, Acquire(e) PROVE ReleaseInv'
  <2>1. CASE cancelled[e[1]]
    <3>1. ReleasedOnce'
      BY <1>5, <2>1, UnlistenOnce DEF Acquire
    <3>2. \A f \in Ears : listener'[f] = listener[f] \/ listener[f] # "none"
      BY <1>5, <2>1 DEF Acquire, Unlisten
    <3> QED
      BY <1>0, <1>5, <3>1, <3>2 DEF Acquire
  <2>2. CASE ~cancelled[e[1]]
    <3>1. ReleasedOnce'
      BY <1>5, <2>2 DEF Acquire, ReleasedOnce, TypeOK
    <3>2. \A f \in Ears : listener'[f] = listener[f] \/ listener[f] # "none"
      BY <1>5, <2>2 DEF Acquire, TypeOK
    <3> QED
      BY <1>0, <1>5, <3>1, <3>2 DEF Acquire
  <2> QED
    BY <2>1, <2>2
<1>6. ASSUME NEW m \in Mounts, GoOn(m) PROVE ReleaseInv'
  <2>1. Held(m) \in SUBSET Ears /\ \A e \in Held(m) : listener[e] = "held"
    BY DEF Held, EarsOf, Ears
  <2>2. Unlisten(Held(m)) \/ UNCHANGED listenVars
    BY <1>6 DEF GoOn
  <2>3. ReleasedOnce'
    BY <2>1, <2>2, UnlistenOnce DEF ReleasedOnce
  <2>4. phase'[m] # "none"
    BY <1>6 DEF GoOn, TypeOK
  <2> QED
    BY <2>3, <2>4
<1>7. ASSUME NEW m \in Mounts, ShowFailure(m) \/ Answered(m) \/ FetchFails(m) \/ Fetch(m)
      PROVE  ReleaseInv'
  <2>1. phase'[m] # "none" /\ UNCHANGED listenVars
    BY <1>7 DEF ShowFailure, Answered, FetchFails, Fetch, TypeOK
  <2> QED
    BY <2>1 DEF ReleasedOnce
<1>8. ASSUME NEW t \in Threads, Apply(t) \/ TakeSnapshot(t) PROVE ReleaseInv'
  BY <1>1, <1>8 DEF Apply, TakeSnapshot
<1>9. ASSUME NEW t \in Threads, NEW k \in Kinds, Emit(t, k) PROVE ReleaseInv'
  BY <1>1, <1>9 DEF Emit
<1>10. CASE Deliver
  BY <1>1, <1>10 DEF Deliver
<1>11. CASE UNCHANGED vars
  BY <1>1, <1>11 DEF vars
<1>12. /\ {1} \in SUBSET Mounts /\ {1} # {}
       /\ Mounts \in SUBSET Mounts /\ Mounts # {}
  BY DEF Mounts
<1> QED
  BY <1>2, <1>3, <1>4, <1>5, <1>6, <1>7, <1>8, <1>9, <1>10, <1>11, <1>12
     DEF Next, Native, Webview, Runtime, Mount, MountStrict

(* Every unlisten function is called at most once, whenever the unmount    *)
(* meets its answer (use-runtime-bridge.ts:7-10).                          *)
THEOREM ListenersReleasedOnce == Spec => []ReleasedOnce
<1>1. Init => ReleaseInv
  BY DEF Init, ReleaseInv, ReleasedOnce
<1>2. ReleaseInv => ReleasedOnce
  BY DEF ReleaseInv
<1> QED
  BY <1>1, <1>2, TypeCorrect, ReleasePreserved, PTL DEF Spec

-----------------------------------------------------------------------------
(* What is shown never goes back *)

ShownIsApplied == shown <= applied

(* Revisions, and the absence of one, are numbers. *)
LEMMA NumbersOfRevisions == Maybe \subseteq Int /\ NoRevision \in Int
  BY DEF Maybe, Revisions, NoRevision

(* The filter moves on what it has seen and what is shown, and keeps the   *)
(* second behind the first.                                                *)
LEMMA FilterMovesOn ==
  ASSUME NEW m \in Mounts, NEW r \in Maybe, NEW s \in Views, s.shown <= s.applied
  PROVE  /\ ApplyIfNewer(m, r, s).shown <= ApplyIfNewer(m, r, s).applied
         /\ s.shown <= ApplyIfNewer(m, r, s).shown
<1>1. s.applied \in Int /\ s.shown \in Int /\ r \in Int
  BY NumbersOfRevisions DEF Views
<1>2. CASE ~Fresh(r, s.applied)
  BY <1>1, <1>2 DEF ApplyIfNewer
<1>3. CASE Fresh(r, s.applied)
  <2>1. s.applied <= r
    BY <1>1, <1>3 DEF Fresh
  <2>2. ApplyIfNewer(m, r, s).applied = r
    BY <1>3 DEF ApplyIfNewer
  <2>3. ApplyIfNewer(m, r, s).shown \in {r, s.shown}
    BY <1>3 DEF ApplyIfNewer
  <2> QED
    BY <1>1, <2>1, <2>2, <2>3
<1> QED
  BY <1>2, <1>3

(* An event never takes what is shown back. *)
LEMMA DeliverMovesOn ==
  ASSUME TypeOK, ShownIsApplied, Deliver
  PROVE  ShownIsApplied' /\ shown <= shown'
<1> DEFINE event  == Head(inbox)
           before == [applied |-> applied, shown |-> shown]
           first  == AtFirst(event)
           both   == AtBoth(event)
<1>1. event.revision \in Maybe
  BY InboxHead DEF Deliver
<1>2. before \in Views /\ before.shown <= before.applied /\ before.shown = shown
  BY DEF TypeOK, Views, ShownIsApplied
<1>3. first \in Views /\ both \in Views
  BY <1>1, FilteredTyped DEF first, both
<1> HIDE DEF first, both
<1>4. /\ shown \in Int /\ first.shown \in Int
      /\ both.shown \in Int /\ both.applied \in Int
  <2>1. first.shown \in Maybe /\ both.shown \in Maybe /\ both.applied \in Maybe
    BY <1>3 DEF Views
  <2> QED
    BY <2>1, NumbersOfRevisions DEF TypeOK
<1>5. first.shown <= first.applied /\ shown <= first.shown
  <2>1. CASE Hearing(1, event)
    BY <1>1, <1>2, <2>1, FilterMovesOn DEF first, AtFirst, Mounts
  <2>2. CASE ~Hearing(1, event)
    BY <1>2, <1>4, <2>2 DEF first, AtFirst
  <2> QED
    BY <2>1, <2>2
<1>6. both.shown <= both.applied /\ first.shown <= both.shown
  <2>1. CASE Hearing(2, event)
    <3>1. both = ApplyIfNewer(2, event.revision, first)
      BY <2>1 DEF both, first, AtBoth
    <3> QED
      BY <1>1, <1>3, <1>5, <3>1, FilterMovesOn DEF Mounts
  <2>2. CASE ~Hearing(2, event)
    <3>1. both = first
      BY <2>2 DEF both, first, AtBoth
    <3> QED
      BY <1>5, <1>4, <3>1
  <2> QED
    BY <2>1, <2>2
<1>7. applied' = both.applied /\ shown' = both.shown
  BY DeliverIsFiltered DEF both
<1> QED
  BY <1>5, <1>6, <1>7, <1>4 DEF ShownIsApplied

(* Neither does the first snapshot. *)
LEMMA AnsweredMovesOn ==
  ASSUME TypeOK, ShownIsApplied, NEW m \in Mounts, Answered(m)
  PROVE  ShownIsApplied' /\ shown <= shown'
<1> DEFINE before == [applied |-> applied, shown |-> shown]
           after  == ApplyIfNewer(m, answer[m], before)
<1>1. before \in Views /\ before.shown <= before.applied /\ before.shown = shown
  BY DEF TypeOK, Views, ShownIsApplied
<1>2. answer[m] \in Maybe
  BY DEF TypeOK
<1>3. after.shown <= after.applied /\ shown <= after.shown
  BY <1>1, <1>2, FilterMovesOn
<1>4. \/ applied' = after.applied /\ shown' = after.shown
      \/ UNCHANGED <<applied, shown>>
  BY DEF Answered, stateVars
<1> QED
  BY <1>3, <1>4, NumbersOfRevisions DEF ShownIsApplied, TypeOK

(* Whichever way a status takes, an older one never replaces it; a failed  *)
(* registration takes the snapshot off.                                    *)
LEMMA StepMovesOn ==
  ASSUME TypeOK, ShownIsApplied, [Next]_vars
  PROVE  ShownIsApplied' /\ (shown' >= shown \/ (error' /\ shown' = NoRevision))
<1> USE DEF nativeVars, listenVars, stateVars
<1>0. shown \in Int /\ applied \in Int
  BY NumbersOfRevisions DEF TypeOK
<1>1. ASSUME UNCHANGED <<applied, shown>>
      PROVE  ShownIsApplied' /\ shown' >= shown
  BY <1>0, <1>1 DEF ShownIsApplied
<1>2. CASE Deliver
  BY <1>0, <1>2, DeliverMovesOn, TypePreserved, NumbersOfRevisions DEF TypeOK
<1>3. ASSUME NEW m \in Mounts, Answered(m)
      PROVE  ShownIsApplied' /\ shown' >= shown
  BY <1>0, <1>3, AnsweredMovesOn, TypePreserved, NumbersOfRevisions DEF TypeOK
<1>4. ASSUME NEW m \in Mounts, ShowFailure(m)
      PROVE  ShownIsApplied' /\ (shown' >= shown \/ (error' /\ shown' = NoRevision))
  <2>1. CASE cancelled[m]
    BY <1>1, <1>4, <2>1 DEF ShowFailure
  <2>2. CASE ~cancelled[m]
    <3>1. error' /\ shown' = NoRevision /\ applied' = applied
      BY <1>4, <2>2 DEF ShowFailure
    <3>2. NoRevision <= applied
      <4>1. applied \in Nat \/ applied = NoRevision
        BY DEF TypeOK, Maybe, Revisions
      <4> QED
        BY <4>1 DEF NoRevision
    <3> QED
      BY <3>1, <3>2 DEF ShownIsApplied
  <2> QED
    BY <2>1, <2>2
<1>5. ASSUME NEW t \in Threads, Apply(t) \/ TakeSnapshot(t)
      PROVE  ShownIsApplied' /\ shown' >= shown
  BY <1>1, <1>5 DEF Apply, TakeSnapshot
<1>6. ASSUME NEW t \in Threads, NEW k \in Kinds, Emit(t, k)
      PROVE  ShownIsApplied' /\ shown' >= shown
  BY <1>1, <1>6 DEF Emit
<1>7. ASSUME NEW e \in Ears, Listens(e) \/ ListenFails(e) \/ Acquire(e)
      PROVE  ShownIsApplied' /\ shown' >= shown
  BY <1>1, <1>7 DEF Listens, ListenFails, Acquire
<1>8. ASSUME NEW m \in Mounts, Unmount(m) \/ GoOn(m) \/ Fetch(m) \/ FetchFails(m)
      PROVE  ShownIsApplied' /\ shown' >= shown
  BY <1>1, <1>8 DEF Unmount, GoOn, Fetch, FetchFails
<1>9. CASE Mount \/ MountStrict
  BY <1>1, <1>9 DEF Mount, MountStrict, Mounted
<1>10. CASE UNCHANGED vars
  BY <1>1, <1>10 DEF vars
<1> QED
  BY <1>2, <1>3, <1>4, <1>5, <1>6, <1>7, <1>8, <1>9, <1>10
     DEF Next, Native, Webview, Runtime

(* The webview never shows an older status after a newer one               *)
(* (use-runtime-bridge.ts, applySnapshotIfNewer).                          *)
THEOREM WebviewNeverBackwards == Spec => NeverBackwards
<1>1. Init => ShownIsApplied
  BY DEF Init, ShownIsApplied, NoRevision
<1>2. TypeOK /\ ShownIsApplied /\ [Next]_vars
      => [shown' >= shown \/ (error' /\ shown' = NoRevision)]_shown
  BY StepMovesOn
<1> QED
  BY <1>1, <1>2, TypeCorrect, StepMovesOn, PTL DEF Spec, NeverBackwards

-----------------------------------------------------------------------------
(* A bridge that is ready and has nothing on its way shows the status      *)

Messages == [revision : Revisions, to : SUBSET Ears]
(* The events on their way, and whether one is addressed to a mount. *)
Waiting == {inbox[i] : i \in 1 .. Len(inbox)}
To(m, message) == \E e \in message.to : e[1] = m

(* Nothing is ahead of the manager's status, and what is shown is not      *)
(* ahead of the reference.  A thread without an event to emit holds no     *)
(* snapshot.                                                               *)
Behind ==
  /\ shown <= applied /\ applied <= revision
  /\ \A t \in Threads : snap[t] <= revision /\ (owes[t] = {} => snap[t] = NoRevision)
  /\ \A message \in Waiting : message.revision <= revision

Lives(m) == phase[m] # "none" /\ ~cancelled[m]

(* The second mount is one of StrictMode, whose first is cancelled; a      *)
(* bridge that is ready belongs to a mount that has run to its end.        *)
OneLives ==
  /\ phase[2] # "none" => phase[1] # "none" /\ cancelled[1]
  /\ phase[2] = "none" => \A e \in EarsOf({2}) : listener[e] = "none"
  /\ ready => /\ \E m \in Mounts : phase[m] # "none"
              /\ \A m \in Mounts : Lives(m) => phase[m] = "over"

(* From the fetch on all listeners of a mount that lives are registered.   *)
Follows(m) ==
  /\ Lives(m)
  /\ phase[m] \in {"fetching", "answered"} \/ (phase[m] = "over" /\ ready)
Listening ==
  \A m \in Mounts : \A e \in EarsOf({m}) :
    /\ Lives(m) /\ phase[m] = "registering" => listener[e] \in {"asked", "live", "held", "failed"}
    /\ Follows(m) => listener[e] = "held"

(* The status of this moment will reach a mount: by an event addressed to  *)
(* it, or by a thread that will read no older status.                      *)
OnItsWay(m) ==
  \/ \E message \in Waiting : To(m, message) /\ message.revision = revision
  \/ \E t \in Threads : owes[t] # {} /\ snap[t] \in {NoRevision, revision}

(* A fetched snapshot covers what was emitted before the listeners of its  *)
(* mount were there: the events it does not hear are no newer.             *)
AnswerCovers(m) ==
  Lives(m) /\ phase[m] = "answered" =>
    /\ answer[m] <= revision
    /\ applied <= answer[m] \/ shown = applied
    /\ \A message \in Waiting : To(m, message) \/ message.revision <= answer[m]
    /\ answer[m] = revision \/ shown = revision \/ OnItsWay(m)

(* So does what is shown, once the snapshot has been taken over. *)
ShownCovers(m) ==
  Lives(m) /\ phase[m] = "over" /\ ready =>
    /\ shown = applied
    /\ \A message \in Waiting : To(m, message) \/ message.revision <= shown
    /\ shown = revision \/ OnItsWay(m)

Covered == \A m \in Mounts : AnswerCovers(m) /\ ShownCovers(m)

(* Everything above is an integer. *)
LEMMA Numbers ==
  ASSUME TypeOK
  PROVE  /\ revision \in Int /\ applied \in Int /\ shown \in Int
         /\ \A t \in Threads : snap[t] \in Int
         /\ \A m \in Mounts : answer[m] \in Int
  BY NumbersOfRevisions DEF TypeOK, Maybe

(* What waits is a message. *)
LEMMA WaitingTyped ==
  ASSUME TypeOK
  PROVE  Waiting \subseteq Messages /\ \A message \in Waiting : message.revision \in Int
<1>1. inbox \in Seq(Messages)
  BY DEF TypeOK, Messages
<1>2. Waiting \subseteq Messages
  <2> HIDE DEF Messages
  <2> QED
    BY <1>1, ElementOfSeq DEF Waiting
<1>3. \A message \in Messages : message.revision \in Int
  BY DEF Messages, Revisions
<1> QED
  BY <1>2, <1>3

(* A delivery takes the first message off. *)
LEMMA WaitingDelivered ==
  ASSUME TypeOK, inbox # <<>>, inbox' = Tail(inbox)
  PROVE  /\ Head(inbox) \in Waiting
         /\ Waiting' \subseteq Waiting
         /\ Waiting \subseteq Waiting' \union {Head(inbox)}
<1>1. inbox \in Seq(Messages)
  BY DEF TypeOK, Messages
<1>2. /\ Len(inbox) \in Nat /\ Len(inbox) # 0
      /\ Head(inbox) = inbox[1] /\ Len(inbox') = Len(inbox) - 1
      /\ \A i \in 1 .. Len(inbox') : inbox'[i] = inbox[i + 1]
  <2> HIDE DEF Messages
  <2> QED
    BY <1>1, LenProperties, HeadTailProperties, EmptySeq
<1>3. Head(inbox) \in Waiting
  BY <1>2 DEF Waiting
<1>4. Waiting' \subseteq Waiting
  BY <1>2 DEF Waiting
<1>5. ASSUME NEW i \in 1 .. Len(inbox), i # 1 PROVE inbox[i] \in Waiting'
  <2>1. i - 1 \in 1 .. Len(inbox') /\ inbox'[i - 1] = inbox[i]
    BY <1>2, <1>5
  <2> QED
    BY <2>1 DEF Waiting
<1> QED
  BY <1>2, <1>3, <1>4, <1>5 DEF Waiting

(* An emission adds a message when somebody is registered for it. *)
LEMMA WaitingEmitted ==
  ASSUME TypeOK, NEW t \in Threads, NEW k \in Kinds, Emit(t, k)
  PROVE  Waiting' = Waiting \union
           (IF Registered(k) = {} THEN {} ELSE {[revision |-> snap[t], to |-> Registered(k)]})
<1>1. CASE Registered(k) = {}
  BY <1>1 DEF Emit, Waiting
<1>2. CASE Registered(k) # {}
  <2> DEFINE new == [revision |-> snap[t], to |-> Registered(k)]
  <2>1. inbox' = Append(inbox, new)
    BY <1>2 DEF Emit
  <2>2. inbox \in Seq(Messages)
    BY DEF TypeOK, Messages
  <2>3. new \in Messages
    BY DEF Emit, TypeOK, Maybe, Messages, Registered, Ears
  <2> HIDE DEF new, Messages
  <2>4. /\ Len(inbox) \in Nat /\ Len(inbox') = Len(inbox) + 1
        /\ \A i \in 1 .. Len(inbox) : inbox'[i] = inbox[i]
        /\ inbox'[Len(inbox) + 1] = new
    BY <2>1, <2>2, <2>3, LenProperties, AppendProperties
  <2>5. Waiting' = Waiting \union {new}
    BY <2>4 DEF Waiting
  <2> QED
    BY <1>2, <2>5 DEF new
<1> QED
  BY <1>1, <1>2

(* The filter moves the reference no further than what it is given. *)
LEMMA FilterBounded ==
  ASSUME NEW m \in Mounts, NEW r \in Maybe, NEW s \in Views, NEW bound \in Int,
         r <= bound, s.applied <= bound
  PROVE  ApplyIfNewer(m, r, s).applied <= bound
  BY DEF ApplyIfNewer

(* Every step keeps the order of the revisions. *)
LEMMA BehindPreserved ==
  ASSUME TypeOK, Behind, Covered, [Next]_vars
  PROVE  Behind'
<1> USE DEF nativeVars, listenVars, stateVars
<1>0. ShownIsApplied' /\ TypeOK'
  <2>1. ShownIsApplied
    BY DEF Behind, ShownIsApplied
  <2> QED
    BY <2>1, StepMovesOn, TypePreserved
<1>1. ASSUME NEW t \in Threads, Apply(t) PROVE Behind'
  <2>1. revision' = revision + 1 /\ UNCHANGED <<snap, inbox, applied, shown>>
    BY <1>1 DEF Apply
  <2>2. \A u \in Threads : owes'[u] = {} => owes[u] = {}
    BY <1>1 DEF Apply, TypeOK
  <2>3. Waiting' = Waiting
    BY <2>1 DEF Waiting
  <2> QED
    BY <2>1, <2>2, <2>3, Numbers, WaitingTyped DEF Behind
<1>2. ASSUME NEW t \in Threads, TakeSnapshot(t) PROVE Behind'
  <2>1. UNCHANGED <<revision, owes, inbox, applied, shown>>
    BY <1>2 DEF TakeSnapshot
  <2>2. /\ owes[t] # {}
        /\ \A u \in Threads : snap'[u] = IF u = t THEN revision ELSE snap[u]
    BY <1>2 DEF TakeSnapshot, TypeOK
  <2>3. Waiting' = Waiting
    BY <2>1 DEF Waiting
  <2> QED
    BY <2>1, <2>2, <2>3, Numbers DEF Behind
<1>3. ASSUME NEW t \in Threads, NEW k \in Kinds, Emit(t, k) PROVE Behind'
  <2>1. UNCHANGED <<revision, applied, shown>>
    BY <1>3 DEF Emit
  <2>2. \A u \in Threads : /\ snap'[u] = (IF u = t THEN NoRevision ELSE snap[u])
                           /\ u # t => owes'[u] = owes[u]
    BY <1>3 DEF Emit, TypeOK
  <2>3. NoRevision <= revision
    BY DEF NoRevision, TypeOK, Revisions
  <2>4. \A message \in Waiting' : message \in Waiting \/ message.revision = snap[t]
    BY <1>3, WaitingEmitted
  <2> QED
    BY <2>1, <2>2, <2>3, <2>4 DEF Behind
<1>4. CASE Deliver
  <2>1. UNCHANGED <<revision, snap, owes>> /\ inbox # <<>> /\ inbox' = Tail(inbox)
    BY <1>4 DEF Deliver
  <2> DEFINE event == Head(inbox)
  <2>2. event \in Waiting /\ Waiting' \subseteq Waiting
    BY <2>1, WaitingDelivered
  <2>3. event.revision <= revision /\ event.revision \in Maybe
    BY <2>1, <2>2, InboxHead DEF Behind
  <2>4. AtFirst(event) \in Views /\ AtFirst(event).applied <= revision
    <3>1. [applied |-> applied, shown |-> shown] \in Views
      BY DEF TypeOK, Views
    <3>2. AtFirst(event) \in Views
      BY <2>3, FilteredTyped
    <3>3. AtFirst(event).applied <= revision
      BY <2>3, <3>1, FilterBounded, Numbers DEF AtFirst, Behind, Mounts
    <3> QED
      BY <3>2, <3>3
  <2>5. AtBoth(event).applied <= revision
    BY <2>3, <2>4, FilterBounded, Numbers DEF AtBoth, Mounts
  <2>6. applied' <= revision
    BY <1>4, <2>5, DeliverIsFiltered
  <2> HIDE DEF event
  <2> QED
    BY <1>0, <2>1, <2>2, <2>6 DEF Behind, ShownIsApplied
<1>5. ASSUME NEW m \in Mounts, Answered(m) PROVE Behind'
  <2>1. UNCHANGED <<revision, snap, owes, inbox>>
    BY <1>5 DEF Answered
  <2>2. applied' <= revision
    <3>1. CASE cancelled[m]
      BY <1>5, <3>1 DEF Answered, Accepts, Behind
    <3>2. CASE ~cancelled[m]
      <4>1. Lives(m) /\ phase[m] = "answered"
        BY <1>5, <3>2 DEF Answered, Lives
      <4>2. answer[m] <= revision /\ answer[m] \in Maybe
        BY <4>1 DEF Covered, AnswerCovers, TypeOK
      <4>3. [applied |-> applied, shown |-> shown] \in Views
        BY DEF TypeOK, Views
      <4>4. ApplyIfNewer(m, answer[m], [applied |-> applied, shown |-> shown]).applied <= revision
        BY <4>2, <4>3, FilterBounded, Numbers DEF Behind
      <4> QED
        BY <1>5, <3>2, <4>4 DEF Answered, Accepts
    <3> QED
      BY <3>1, <3>2
  <2> QED
    BY <1>0, <2>1, <2>2 DEF Behind, ShownIsApplied, Waiting
<1>6. ASSUME NEW m \in Mounts, ShowFailure(m) PROVE Behind'
  <2>1. UNCHANGED <<revision, snap, owes, inbox, applied>>
    BY <1>6 DEF ShowFailure
  <2> QED
    BY <1>0, <2>1 DEF Behind, ShownIsApplied, Waiting
<1>7. ASSUME UNCHANGED <<nativeVars, inbox, applied, shown>> PROVE Behind'
  BY <1>7 DEF Behind, Waiting
<1>8. CASE Mount \/ MountStrict
  BY <1>7, <1>8 DEF Mount, MountStrict, Mounted
<1>9. ASSUME NEW e \in Ears, Listens(e) \/ ListenFails(e) \/ Acquire(e) PROVE Behind'
  BY <1>7, <1>9 DEF Listens, ListenFails, Acquire
<1>10. ASSUME NEW m \in Mounts, Unmount(m) \/ GoOn(m) \/ Fetch(m) \/ FetchFails(m) PROVE Behind'
  BY <1>7, <1>10 DEF Unmount, GoOn, Fetch, FetchFails
<1>11. CASE UNCHANGED vars
  BY <1>7, <1>11 DEF vars
<1> QED
  BY <1>1, <1>2, <1>3, <1>4, <1>5, <1>6, <1>8, <1>9, <1>10, <1>11
     DEF Next, Native, Webview, Runtime

(* The mounts of a moment. *)
LEMMA MountsAre == Mounts = {1, 2} /\ 1 \in Mounts /\ 2 \in Mounts
  BY DEF Mounts

(* An ear is an ear of its mount. *)
LEMMA EarsOfMount ==
  /\ \A m \in Mounts : EarsOf({m}) \subseteq Ears /\ \A e \in EarsOf({m}) : e[1] = m
  /\ \A e \in Ears : e[1] \in Mounts /\ e \in EarsOf({e[1]})
  BY DEF EarsOf, Ears

(* Of two mounts one lives: the other is cancelled, or not there yet. *)
LEMMA OneOfTwo ==
  ASSUME OneLives, NEW m \in Mounts, NEW n \in Mounts, m # n, Lives(m)
  PROVE  IF m = 2 THEN cancelled[n] ELSE phase[n] = "none"
  BY MountsAre DEF OneLives, Lives

(* A mount that ends or goes on, of those that have begun. *)
LEMMA OneLivesMoves ==
  ASSUME TypeOK, OneLives, NEW m \in Mounts, phase[m] # "none",
         NEW p \in {"torn", "fetching", "answered", "over"},
         phase' = [phase EXCEPT ![m] = p], UNCHANGED cancelled,
         \A e \in Ears : listener[e] = "none" => listener'[e] = "none",
         ready' => \/ ready /\ cancelled[m]
                   \/ p = "over" /\ ~cancelled[m]
  PROVE  OneLives'
<1>1. \A n \in Mounts : phase'[n] = IF n = m THEN p ELSE phase[n]
  BY DEF TypeOK
<1>2. \A n \in Mounts : phase'[n] = "none" <=> phase[n] = "none"
  BY <1>1
<1>3. phase'[2] = "none" => \A e \in EarsOf({2}) : listener'[e] = "none"
  BY <1>2, MountsAre, EarsOfMount DEF OneLives
<1>4. ASSUME ready', NEW n \in Mounts, Lives(n)' PROVE phase'[n] = "over"
  <2>1. Lives(n)
    BY <1>2, <1>4 DEF Lives
  <2>2. CASE ready /\ cancelled[m]
    <3>1. phase[n] = "over" /\ n # m
      BY <2>1, <2>2 DEF OneLives, Lives
    <3> QED
      BY <1>1, <3>1
  <2>3. CASE p = "over" /\ ~cancelled[m]
    <3>1. Lives(m)
      BY <2>3 DEF Lives
    <3>2. n = m
      BY <2>1, <3>1, OneOfTwo, MountsAre DEF Lives
    <3> QED
      BY <1>1, <2>3, <3>2
  <2> QED
    BY <1>4, <2>2, <2>3
<1> QED
  BY <1>2, <1>3, <1>4, MountsAre DEF OneLives

(* Every step keeps one mount alive, and the end of its run behind ready. *)
LEMMA OneLivesPreserved ==
  ASSUME TypeOK, OneLives, Listening, [Next]_vars
  PROVE  OneLives'
<1> USE DEF nativeVars, listenVars, stateVars
<1>1. ASSUME UNCHANGED <<phase, ready>>,
             \A m \in Mounts : cancelled[m] => cancelled'[m],
             \A e \in Ears : listener[e] = "none" => listener'[e] = "none"
      PROVE  OneLives'
  BY <1>1, EarsOfMount, MountsAre DEF OneLives, Lives
<1>2. ASSUME NEW ms \in SUBSET Mounts, NEW gone, 1 \in ms, 2 \in ms => 1 \in gone, Mounted(ms, gone)
      PROVE  OneLives'
  <2>1. ~ready'
    BY <1>2 DEF Mounted, OneLives
  <2>2. /\ \A m \in Mounts : phase'[m] = (IF m \in ms THEN "registering" ELSE "none")
        /\ \A m \in Mounts : cancelled'[m] = (m \in gone)
        /\ \A e \in Ears : listener'[e] = IF e \in EarsOf(ms) THEN "asked" ELSE "none"
    BY <1>2 DEF Mounted
  <2>3. 2 \notin ms => \A e \in EarsOf({2}) : e \notin EarsOf(ms)
    BY DEF EarsOf
  <2> QED
    BY <1>2, <2>1, <2>2, <2>3, MountsAre, EarsOfMount DEF OneLives
<1>3. ASSUME NEW m \in Mounts, Unmount(m) PROVE OneLives'
  <2>1. \A e \in Ears : listener[e] = "none" => listener'[e] = "none"
    BY <1>3 DEF Unmount, Unlisten, Held
  <2>2. \A n \in Mounts : cancelled[n] => cancelled'[n]
    BY <1>3 DEF Unmount, TypeOK
  <2> QED
    BY <1>1, <1>3, <2>1, <2>2 DEF Unmount
<1>4. ASSUME NEW e \in Ears, Listens(e) \/ ListenFails(e) PROVE OneLives'
  <2>1. \A f \in Ears : listener[f] = "none" => listener'[f] = "none"
    BY <1>4 DEF Listens, ListenFails, TypeOK
  <2> QED
    BY <1>1, <1>4, <2>1 DEF Listens, ListenFails
<1>5. ASSUME NEW e \in Ears, Acquire(e) PROVE OneLives'
  <2>1. \A f \in Ears : listener[f] = "none" => listener'[f] = "none"
    <3>1. CASE cancelled[e[1]]
      BY <1>5, <3>1 DEF Acquire, Unlisten
    <3>2. CASE ~cancelled[e[1]]
      BY <1>5, <3>2 DEF Acquire, TypeOK
    <3> QED
      BY <3>1, <3>2
  <2> QED
    BY <1>1, <1>5, <2>1 DEF Acquire
<1>6. ASSUME NEW m \in Mounts, GoOn(m) PROVE OneLives'
  <2>1. \A e \in Ears : listener[e] = "none" => listener'[e] = "none"
    <3>1. Unlisten(Held(m)) \/ UNCHANGED listenVars
      BY <1>6 DEF GoOn
    <3> QED
      BY <3>1 DEF Unlisten, Held
  <2>2. phase[m] = "registering" /\ UNCHANGED <<cancelled, ready>>
    BY <1>6 DEF GoOn
  <2>3. \E p \in {"torn", "fetching", "answered", "over"} : phase' = [phase EXCEPT ![m] = p]
    BY <1>6 DEF GoOn
  <2>4. ready => cancelled[m]
    BY <2>2 DEF OneLives, Lives
  <2> QED
    BY <2>1, <2>2, <2>3, <2>4, OneLivesMoves
<1>7. ASSUME NEW m \in Mounts, Fetch(m) PROVE OneLives'
  <2>1. ready => cancelled[m]
    BY <1>7 DEF Fetch, OneLives, Lives
  <2> QED
    BY <1>7, <2>1, OneLivesMoves DEF Fetch
<1>8. ASSUME NEW m \in Mounts, ShowFailure(m) PROVE OneLives'
  <2>1. phase' = [phase EXCEPT ![m] = "over"] /\ phase[m] # "none" /\ UNCHANGED <<cancelled, listener>>
    BY <1>8 DEF ShowFailure
  <2>2. ready' => ready /\ cancelled[m]
    BY <1>8 DEF ShowFailure
  <2> QED
    BY <2>1, <2>2, OneLivesMoves
<1>9. ASSUME NEW m \in Mounts, Answered(m) PROVE OneLives'
  <2>1. phase' = [phase EXCEPT ![m] = "over"] /\ phase[m] # "none" /\ UNCHANGED <<cancelled, listener>>
    BY <1>9 DEF Answered
  <2>2. ready' => (ready /\ cancelled[m]) \/ ~cancelled[m]
    BY <1>9 DEF Answered, Accepts
  <2> QED
    BY <2>1, <2>2, OneLivesMoves
<1>10. ASSUME NEW m \in Mounts, FetchFails(m) PROVE OneLives'
  <2>1. phase' = [phase EXCEPT ![m] = "over"] /\ phase[m] # "none" /\ UNCHANGED <<cancelled, listener>>
    BY <1>10 DEF FetchFails
  <2>2. ready' => ready /\ cancelled[m]
    BY <1>10 DEF FetchFails
  <2> QED
    BY <2>1, <2>2, OneLivesMoves
<1>11. ASSUME UNCHANGED <<phase, ready, cancelled, listener>> PROVE OneLives'
  BY <1>1, <1>11
<1>12. ASSUME NEW t \in Threads, Apply(t) \/ TakeSnapshot(t) PROVE OneLives'
  BY <1>11, <1>12 DEF Apply, TakeSnapshot
<1>13. ASSUME NEW t \in Threads, NEW k \in Kinds, Emit(t, k) PROVE OneLives'
  BY <1>11, <1>13 DEF Emit
<1>14. CASE Deliver
  BY <1>11, <1>14 DEF Deliver
<1>15. CASE UNCHANGED vars
  BY <1>11, <1>15 DEF vars
<1>16. CASE Mount \/ MountStrict
  BY <1>2, <1>16, MountsAre DEF Mount, MountStrict
<1> QED
  BY <1>3, <1>4, <1>5, <1>6, <1>7, <1>8, <1>9, <1>10, <1>12, <1>13, <1>14, <1>15, <1>16
     DEF Next, Native, Webview, Runtime

(* A listener that follows nothing new keeps what the mounts need. *)
LEMMA ListeningFrame ==
  ASSUME Listening, UNCHANGED <<phase, cancelled, ready>>,
         \A m \in Mounts : \A e \in EarsOf({m}) :
            Lives(m) => \/ listener'[e] = listener[e]
                        \/ listener[e] \in {"asked", "live"} /\ listener'[e] \in {"live", "held", "failed"}
  PROVE  Listening'
  BY DEF Listening, Follows, Lives

(* Every step keeps the listeners of a mount that lives. *)
LEMMA ListeningPreserved ==
  ASSUME TypeOK, OneLives, Listening, [Next]_vars
  PROVE  Listening'
<1> USE DEF nativeVars, listenVars, stateVars
<1>1. ASSUME UNCHANGED <<phase, ready, cancelled, listener>> PROVE Listening'
  BY <1>1 DEF Listening, Follows, Lives
<1>2. ASSUME NEW ms \in SUBSET Mounts, NEW gone, Mounted(ms, gone) PROVE Listening'
  <2>1. /\ \A m \in Mounts : phase'[m] = (IF m \in ms THEN "registering" ELSE "none")
        /\ \A e \in Ears : listener'[e] = IF e \in EarsOf(ms) THEN "asked" ELSE "none"
    BY <1>2 DEF Mounted
  <2>2. \A m \in ms : EarsOf({m}) \subseteq EarsOf(ms)
    BY DEF EarsOf
  <2>3. ASSUME NEW m \in Mounts, NEW e \in EarsOf({m}), phase'[m] = "registering"
        PROVE  listener'[e] = "asked"
    <3>1. m \in ms
      BY <2>1, <2>3
    <3> QED
      BY <2>1, <2>2, <3>1, EarsOfMount
  <2>4. \A m \in Mounts : ~Follows(m)'
    BY <2>1 DEF Follows, Lives
  <2> QED
    BY <2>3, <2>4 DEF Listening
<1>3. ASSUME NEW m \in Mounts, Unmount(m) PROVE Listening'
  <2>1. \A n \in Mounts : cancelled'[n] = IF n = m THEN TRUE ELSE cancelled[n]
    BY <1>3 DEF Unmount, TypeOK
  <2>2. \A n \in Mounts : n # m => \A e \in EarsOf({n}) : listener'[e] = listener[e]
    <3>1. \A e \in Held(m) : e[1] = m
      BY EarsOfMount DEF Held
    <3> QED
      BY <1>3, <3>1, EarsOfMount DEF Unmount, Unlisten
  <2>3. UNCHANGED <<phase, ready>>
    BY <1>3 DEF Unmount
  <2> QED
    BY <2>1, <2>2, <2>3 DEF Listening, Follows, Lives
<1>4. ASSUME NEW e \in Ears, Listens(e) \/ ListenFails(e) PROVE Listening'
  <2>1. \A f \in Ears : \/ listener'[f] = listener[f]
                        \/ listener[f] = "asked" /\ listener'[f] \in {"live", "failed"}
    BY <1>4 DEF Listens, ListenFails, TypeOK
  <2> QED
    BY <1>4, <2>1, ListeningFrame, EarsOfMount DEF Listens, ListenFails
<1>5. ASSUME NEW e \in Ears, Acquire(e) PROVE Listening'
  <2>1. CASE cancelled[e[1]]
    <3>1. \A f \in Ears : f # e => listener'[f] = listener[f]
      BY <1>5, <2>1 DEF Acquire, Unlisten
    <3>2. ASSUME NEW m \in Mounts, NEW f \in EarsOf({m}), Lives(m) PROVE listener'[f] = listener[f]
      BY <2>1, <3>1, <3>2, EarsOfMount DEF Lives
    <3> QED
      BY <1>5, <3>2, ListeningFrame DEF Acquire
  <2>2. CASE ~cancelled[e[1]]
    <3>1. \A f \in Ears : \/ listener'[f] = listener[f]
                          \/ listener[f] = "live" /\ listener'[f] = "held"
      BY <1>5, <2>2 DEF Acquire, TypeOK
    <3> QED
      BY <1>5, <3>1, ListeningFrame, EarsOfMount DEF Acquire
  <2> QED
    BY <2>1, <2>2
<1>6. ASSUME NEW m \in Mounts, GoOn(m) PROVE Listening'
  <2>1. \A n \in Mounts : n # m => \A e \in EarsOf({n}) : listener'[e] = listener[e]
    <3>1. \A e \in Held(m) : e[1] = m
      BY EarsOfMount DEF Held
    <3>2. Unlisten(Held(m)) \/ UNCHANGED listenVars
      BY <1>6 DEF GoOn
    <3> QED
      BY <3>1, <3>2, EarsOfMount DEF Unlisten
  <2>2. phase[m] = "registering" /\ UNCHANGED <<cancelled, ready>>
    BY <1>6 DEF GoOn
  <2>3. \A n \in Mounts : n # m => phase'[n] = phase[n]
    BY <1>6 DEF GoOn, TypeOK
  <2>4. phase'[m] \in {"over", "torn", "fetching"}
    BY <1>6 DEF GoOn, TypeOK
  <2>5. ASSUME Follows(m)', NEW e \in EarsOf({m}) PROVE listener'[e] = "held"
    <3>1. ~cancelled[m]
      BY <2>2, <2>5 DEF Follows, Lives
    <3>2. phase'[m] # "over"
      BY <1>6, <3>1 DEF GoOn, TypeOK
    <3>3. phase'[m] = "fetching"
      BY <2>4, <2>5, <3>2 DEF Follows
    <3>4. ~\E f \in EarsOf({m}) : listener[f] = "failed"
      BY <1>6, <3>1, <3>3 DEF GoOn, TypeOK
    <3>5. UNCHANGED listener
      BY <1>6, <3>4 DEF GoOn
    <3>6. listener[e] \in {"asked", "live", "held", "failed"}
      BY <2>2, <3>1 DEF Listening, Lives
    <3>7. listener[e] \notin {"asked", "live"}
      BY <1>6 DEF GoOn, Settled
    <3> QED
      BY <3>4, <3>5, <3>6, <3>7
  <2>6. \A n \in Mounts : n # m => (Follows(n)' <=> Follows(n)) /\ (Lives(n)' <=> Lives(n))
    BY <2>2, <2>3 DEF Follows, Lives
  <2> QED
    BY <2>1, <2>3, <2>4, <2>5, <2>6 DEF Listening
<1>7. ASSUME NEW m \in Mounts, Fetch(m) PROVE Listening'
  <2>1. /\ phase[m] = "fetching" /\ phase'[m] = "answered"
        /\ \A n \in Mounts : n # m => phase'[n] = phase[n]
        /\ UNCHANGED <<cancelled, ready, listener>>
    BY <1>7 DEF Fetch, TypeOK
  <2> QED
    BY <2>1 DEF Listening, Follows, Lives
<1>8. ASSUME NEW m \in Mounts, ShowFailure(m) \/ FetchFails(m) \/ Answered(m) PROVE Listening'
  <2>1. /\ phase[m] \in {"torn", "fetching", "answered"} /\ phase'[m] = "over"
        /\ \A n \in Mounts : n # m => phase'[n] = phase[n]
        /\ UNCHANGED <<cancelled, listener>>
    BY <1>8 DEF ShowFailure, FetchFails, Answered, TypeOK
  <2>2. CASE cancelled[m]
    <3>1. ready' = ready
      BY <1>8, <2>2 DEF ShowFailure, FetchFails, Answered, Accepts
    <3> QED
      BY <2>1, <2>2, <3>1 DEF Listening, Follows, Lives
  <2>3. CASE ~cancelled[m]
    <3>1. \A n \in Mounts : n # m => ~Lives(n)
      BY <2>1, <2>3, OneOfTwo, MountsAre DEF Lives
    <3>2. ready' => phase[m] = "answered"
      BY <1>8, <2>3 DEF ShowFailure, FetchFails, Answered
    <3> QED
      BY <2>1, <2>3, <3>1, <3>2 DEF Listening, Follows, Lives
  <2> QED
    BY <2>2, <2>3
<1>9. ASSUME NEW t \in Threads, Apply(t) \/ TakeSnapshot(t) PROVE Listening'
  BY <1>1, <1>9 DEF Apply, TakeSnapshot
<1>10. ASSUME NEW t \in Threads, NEW k \in Kinds, Emit(t, k) PROVE Listening'
  BY <1>1, <1>10 DEF Emit
<1>11. CASE Deliver
  BY <1>1, <1>11 DEF Deliver
<1>12. CASE UNCHANGED vars
  BY <1>1, <1>12 DEF vars
<1>13. CASE Mount \/ MountStrict
  BY <1>2, <1>13, MountsAre DEF Mount, MountStrict
<1> QED
  BY <1>3, <1>4, <1>5, <1>6, <1>7, <1>8, <1>9, <1>10, <1>11, <1>12, <1>13
     DEF Next, Native, Webview, Runtime

(* What is on its way stays so unless it is emitted or delivered. *)
LEMMA OnItsWayFrame ==
  ASSUME UNCHANGED <<nativeVars, inbox>>
  PROVE  Waiting' = Waiting /\ \A m \in Mounts : OnItsWay(m)' <=> OnItsWay(m)
  BY DEF nativeVars, Waiting, OnItsWay

(* A mount that follows is addressed by all that is emitted. *)
LEMMA FollowersAreTold ==
  ASSUME TypeOK, Listening, NEW m \in Mounts, Follows(m),
         NEW t \in Threads, NEW k \in Kinds, Emit(t, k)
  PROVE  /\ Waiting \subseteq Waiting'
         /\ \A message \in Waiting' : message \in Waiting \/ To(m, message)
         /\ \E message \in Waiting' : To(m, message) /\ message.revision = snap[t]
<1>1. <<m, k>> \in EarsOf({m})
  BY DEF EarsOf
<1>2. <<m, k>> \in Registered(k)
  BY <1>1 DEF Registered, Listening
<1> DEFINE new == [revision |-> snap[t], to |-> Registered(k)]
<1>3. To(m, new) /\ new.revision = snap[t]
  BY <1>2 DEF To
<1>4. Waiting' = Waiting \union {new}
  BY <1>2, WaitingEmitted
<1> HIDE DEF new
<1> QED
  BY <1>3, <1>4

(* A change, a snapshot or an emission leaves the status of the moment     *)
(* shown, or on its way to a mount that follows.                           *)
LEMMA NativeKeepsUp ==
  ASSUME TypeOK, Behind, Listening, NEW m \in Mounts, Follows(m),
         NEW t \in Threads, Apply(t) \/ TakeSnapshot(t) \/ \E k \in Kinds : Emit(t, k)
  PROVE  /\ revision' \in Int /\ revision <= revision'
         /\ \A message \in Waiting' : message \in Waiting \/ To(m, message)
         /\ revision' = revision \/ OnItsWay(m)'
         /\ OnItsWay(m) => OnItsWay(m)'
<1>1. CASE Apply(t)
  <2>1. revision' = revision + 1 /\ UNCHANGED <<snap, inbox>> /\ owes[t] = {}
    BY <1>1 DEF Apply
  <2>2. owes'[t] # {}
    <3>1. PICK kinds \in Emissions : owes' = [owes EXCEPT ![t] = kinds]
      BY <1>1 DEF Apply
    <3>2. kinds # {}
      OBVIOUS
    <3> QED
      BY <3>1, <3>2 DEF TypeOK
  <2>3. snap'[t] = NoRevision
    BY <2>1 DEF Behind
  <2>4. Waiting' = Waiting
    BY <2>1 DEF Waiting
  <2> QED
    BY <2>1, <2>2, <2>3, <2>4, Numbers DEF OnItsWay
<1>2. CASE TakeSnapshot(t)
  <2>1. UNCHANGED <<revision, owes, inbox>>
    BY <1>2 DEF TakeSnapshot
  <2>2. \A u \in Threads : snap'[u] = IF u = t THEN revision ELSE snap[u]
    BY <1>2 DEF TakeSnapshot, TypeOK
  <2>3. Waiting' = Waiting
    BY <2>1 DEF Waiting
  <2> QED
    BY <2>1, <2>2, <2>3, Numbers DEF OnItsWay
<1>3. ASSUME NEW k \in Kinds, Emit(t, k)
      PROVE  /\ revision' = revision
             /\ \A message \in Waiting' : message \in Waiting \/ To(m, message)
             /\ OnItsWay(m) => OnItsWay(m)'
  <2>1. revision' = revision /\ snap[t] # NoRevision
    BY <1>3 DEF Emit
  <2>2. \A u \in Threads : u # t => snap'[u] = snap[u] /\ owes'[u] = owes[u]
    BY <1>3 DEF Emit, TypeOK
  <2>3. /\ Waiting \subseteq Waiting'
        /\ \A message \in Waiting' : message \in Waiting \/ To(m, message)
        /\ \E message \in Waiting' : To(m, message) /\ message.revision = snap[t]
    BY <1>3, FollowersAreTold
  <2>4. ASSUME OnItsWay(m) PROVE OnItsWay(m)'
    <3>1. CASE \E message \in Waiting : To(m, message) /\ message.revision = revision
      BY <2>1, <2>3, <3>1 DEF OnItsWay, To
    <3>2. ASSUME NEW u \in Threads, owes[u] # {}, snap[u] \in {NoRevision, revision}
          PROVE  OnItsWay(m)'
      <4>1. CASE u = t
        BY <2>1, <2>3, <3>2, <4>1 DEF OnItsWay, To
      <4>2. CASE u # t
        BY <2>1, <2>2, <3>2, <4>2 DEF OnItsWay
      <4> QED
        BY <4>1, <4>2
    <3> QED
      BY <2>4, <3>1, <3>2 DEF OnItsWay
  <2> QED
    BY <2>1, <2>3, <2>4
<1> QED
  BY <1>1, <1>2, <1>3, Numbers

(* So the covers outlast what the native side does. *)
LEMMA NativeKeepsCovered ==
  ASSUME TypeOK, Behind, Listening, Covered,
         UNCHANGED <<listenVars, phase, answer, cancelled, stateVars>>,
         NEW t \in Threads, Apply(t) \/ TakeSnapshot(t) \/ \E k \in Kinds : Emit(t, k)
  PROVE  Covered'
<1> USE DEF listenVars, stateVars
<1> SUFFICES ASSUME NEW m \in Mounts
             PROVE  AnswerCovers(m)' /\ ShownCovers(m)'
  BY DEF Covered
<1>1. AnswerCovers(m) /\ ShownCovers(m)
  BY DEF Covered
<1>2. CASE Follows(m)
  <2>1. /\ revision' \in Int /\ revision <= revision'
        /\ \A message \in Waiting' : message \in Waiting \/ To(m, message)
        /\ revision' = revision \/ OnItsWay(m)'
        /\ OnItsWay(m) => OnItsWay(m)'
    BY <1>2, NativeKeepsUp
  <2>2. AnswerCovers(m)'
    <3>1. SUFFICES ASSUME Lives(m), phase[m] = "answered"
                   PROVE  /\ answer[m] <= revision'
                          /\ applied <= answer[m] \/ shown = applied
                          /\ \A message \in Waiting' : To(m, message) \/ message.revision <= answer[m]
                          /\ answer[m] = revision' \/ shown = revision' \/ OnItsWay(m)'
      BY DEF AnswerCovers, Lives, To
    <3> QED
      BY <1>1, <2>1, <3>1, Numbers DEF AnswerCovers
  <2>3. ShownCovers(m)'
    <3>1. SUFFICES ASSUME Lives(m), phase[m] = "over", ready
                   PROVE  /\ shown = applied
                          /\ \A message \in Waiting' : To(m, message) \/ message.revision <= shown
                          /\ shown = revision' \/ OnItsWay(m)'
      BY DEF ShownCovers, Lives, To
    <3> QED
      BY <1>1, <2>1, <3>1 DEF ShownCovers
  <2> QED
    BY <2>2, <2>3
<1>3. CASE ~Follows(m)
  BY <1>3 DEF Follows, AnswerCovers, ShownCovers, Lives
<1> QED
  BY <1>2, <1>3

(* A delivery shows its event, unless the mount does not hear it or knows  *)
(* a newer one; then only the reference may move, for a mount that is gone. *)
LEMMA DeliverShows ==
  ASSUME TypeOK, Behind, OneLives, Listening, NEW m \in Mounts, Follows(m), Deliver,
         NEW event, event = Head(inbox)
  PROVE  IF To(m, event) /\ event.revision >= applied
         THEN shown' = event.revision /\ applied' = event.revision
         ELSE /\ shown' = shown
              /\ \/ applied' = applied
                 \/ ~To(m, event) /\ applied' = event.revision
<1>1. event \in Waiting /\ event.revision \in Int /\ event.to \subseteq Ears
  <2>1. event \in Waiting
    BY WaitingDelivered DEF Deliver
  <2>2. event \in Messages
    BY <2>1, WaitingTyped
  <2> QED
    BY <2>1, <2>2, WaitingTyped DEF Messages
<1>2. Hearing(m, event) <=> To(m, event)
  <2>1. \A e \in event.to : e[1] = m => listener[e] = "held"
    BY <1>1, EarsOfMount DEF Listening
  <2> QED
    BY <2>1 DEF Hearing, To
<1>3. Lives(m)
  BY DEF Follows
<1> DEFINE before == [applied |-> applied, shown |-> shown]
<1>4. applied' = AtBoth(event).applied /\ shown' = AtBoth(event).shown
  BY DeliverIsFiltered
<1>5. CASE m = 1
  <2>1. phase[2] = "none"
    BY <1>3, <1>5, OneOfTwo, MountsAre
  <2>2. ~Hearing(2, event)
    <3>1. \A e \in EarsOf({2}) : listener[e] = "none"
      BY <2>1 DEF OneLives
    <3> QED
      BY <1>1, <3>1, EarsOfMount DEF Hearing
  <2>3. AtBoth(event) = IF To(1, event) THEN ApplyIfNewer(1, event.revision, before) ELSE before
    BY <1>2, <1>5, <2>2 DEF AtBoth, AtFirst
  <2> QED
    BY <1>1, <1>3, <1>4, <1>5, <2>3, Numbers DEF ApplyIfNewer, Fresh, Lives
<1>6. CASE m = 2
  <2>1. cancelled[1]
    BY <1>3, <1>6, OneOfTwo, MountsAre
  <2>2. /\ AtFirst(event).shown = shown
        /\ \/ AtFirst(event).applied = applied
           \/ event.revision >= applied /\ AtFirst(event).applied = event.revision
    BY <1>1, <2>1 DEF AtFirst, ApplyIfNewer, Fresh
  <2>3. AtFirst(event).applied \in Int
    BY <1>1, <2>2, Numbers
  <2>4. CASE ~To(2, event)
    <3>1. AtBoth(event) = AtFirst(event)
      BY <1>2, <1>6, <2>4 DEF AtBoth
    <3> QED
      BY <1>4, <1>6, <2>2, <2>4, <3>1
  <2>5. CASE To(2, event)
    <3>1. AtBoth(event) = ApplyIfNewer(2, event.revision, AtFirst(event))
      BY <1>2, <1>6, <2>5 DEF AtBoth
    <3>2. CASE event.revision >= applied
      <4>1. Fresh(event.revision, AtFirst(event).applied)
        BY <1>1, <2>2, <3>2 DEF Fresh
      <4>2. AtBoth(event).applied = event.revision /\ AtBoth(event).shown = event.revision
        BY <1>3, <1>6, <3>1, <4>1 DEF ApplyIfNewer, Lives
      <4> QED
        BY <1>4, <1>6, <2>5, <3>2, <4>2
    <3>3. CASE ~(event.revision >= applied)
      <4>1. AtFirst(event).applied = applied
        BY <2>2, <3>3
      <4>2. ~Fresh(event.revision, AtFirst(event).applied)
        BY <3>3, <4>1 DEF Fresh
      <4>3. AtBoth(event) = AtFirst(event)
        BY <3>1, <4>2 DEF ApplyIfNewer
      <4> QED
        BY <1>4, <1>6, <2>2, <2>5, <3>3, <4>1, <4>3
    <3> QED
      BY <3>2, <3>3
  <2> QED
    BY <2>4, <2>5
<1> QED
  BY <1>5, <1>6, MountsAre

(* A delivery keeps the covers. *)
LEMMA DeliverKeepsCovered ==
  ASSUME TypeOK, Behind, OneLives, Listening, Covered, Deliver, Behind', TypeOK'
  PROVE  Covered'
<1> SUFFICES ASSUME NEW m \in Mounts
             PROVE  AnswerCovers(m)' /\ ShownCovers(m)'
  BY DEF Covered
<1>1. AnswerCovers(m) /\ ShownCovers(m)
  BY DEF Covered
<1>2. UNCHANGED <<revision, owes, snap, phase, answer, cancelled, ready>>
  BY DEF Deliver, nativeVars, stateVars
<1>3. CASE Follows(m)
  <2>1. PICK event : event = Head(inbox)
    OBVIOUS
  <2>2. IF To(m, event) /\ event.revision >= applied
        THEN shown' = event.revision /\ applied' = event.revision
        ELSE /\ shown' = shown
             /\ \/ applied' = applied
                \/ ~To(m, event) /\ applied' = event.revision
    BY <1>3, <2>1, DeliverShows
  <2>3. /\ event \in Waiting /\ Waiting' \subseteq Waiting
        /\ Waiting \subseteq Waiting' \union {event}
    BY <2>1, WaitingDelivered DEF Deliver
  <2>4. event.revision \in Int /\ event.revision <= revision
    BY <2>3, WaitingTyped DEF Behind
  <2>5. /\ shown <= applied /\ applied <= revision
        /\ shown' <= applied' /\ applied' <= revision
        /\ revision \in Int /\ shown \in Int /\ applied \in Int
        /\ shown' \in Int /\ applied' \in Int
    BY <1>2, Numbers, NumbersOfRevisions DEF Behind, TypeOK
  <2>6. shown <= shown' /\ (shown = revision => shown' = revision)
    BY <2>2, <2>4, <2>5
  <2>7. OnItsWay(m) => shown' = revision \/ OnItsWay(m)'
    <3>1. ASSUME NEW message \in Waiting, To(m, message), message.revision = revision
          PROVE  shown' = revision \/ OnItsWay(m)'
      <4>1. CASE message = event
        BY <2>2, <2>5, <3>1, <4>1
      <4>2. CASE message # event
        BY <1>2, <2>3, <3>1, <4>2 DEF OnItsWay, To
      <4> QED
        BY <4>1, <4>2
    <3>2. ASSUME NEW t \in Threads, owes[t] # {}, snap[t] \in {NoRevision, revision}
          PROVE  OnItsWay(m)'
      BY <1>2, <3>2 DEF OnItsWay
    <3> QED
      BY <3>1, <3>2 DEF OnItsWay
  <2>8. AnswerCovers(m)'
    <3>1. SUFFICES ASSUME Lives(m), phase[m] = "answered"
                   PROVE  /\ answer[m] <= revision
                          /\ applied' <= answer[m] \/ shown' = applied'
                          /\ \A message \in Waiting' : To(m, message) \/ message.revision <= answer[m]
                          /\ answer[m] = revision \/ shown' = revision \/ OnItsWay(m)'
      BY <1>2 DEF AnswerCovers, Lives, To
    <3>2. /\ answer[m] <= revision
          /\ applied <= answer[m] \/ shown = applied
          /\ \A message \in Waiting : To(m, message) \/ message.revision <= answer[m]
          /\ answer[m] = revision \/ shown = revision \/ OnItsWay(m)
      BY <1>1, <3>1 DEF AnswerCovers
    <3>3. applied' <= answer[m] \/ shown' = applied'
      BY <2>2, <2>3, <3>2
    <3> QED
      BY <2>3, <2>6, <2>7, <3>2, <3>3
  <2>9. ShownCovers(m)'
    <3>1. SUFFICES ASSUME Lives(m), phase[m] = "over", ready
                   PROVE  /\ shown' = applied'
                          /\ \A message \in Waiting' : To(m, message) \/ message.revision <= shown'
                          /\ shown' = revision \/ OnItsWay(m)'
      BY <1>2 DEF ShownCovers, Lives, To
    <3>2. /\ shown = applied
          /\ \A message \in Waiting : To(m, message) \/ message.revision <= shown
          /\ shown = revision \/ OnItsWay(m)
      BY <1>1, <3>1 DEF ShownCovers
    <3>3. shown' = applied'
      <4>1. CASE To(m, event)
        BY <2>2, <3>2, <4>1
      <4>2. CASE ~To(m, event)
        <5>1. event.revision <= shown
          BY <2>3, <3>2, <4>2
        <5>2. shown' = shown
          BY <2>2, <4>2
        <5> QED
          BY <2>2, <2>4, <2>5, <3>2, <5>1, <5>2
      <4> QED
        BY <4>1, <4>2
    <3>4. \A message \in Waiting' : To(m, message) \/ message.revision <= shown'
      BY <2>3, <2>5, <2>6, <3>2, WaitingTyped
    <3> QED
      BY <2>6, <2>7, <3>2, <3>3, <3>4
  <2> QED
    BY <2>8, <2>9
<1>4. CASE ~Follows(m)
  BY <1>2, <1>4 DEF Follows, AnswerCovers, ShownCovers, Lives
<1> QED
  BY <1>3, <1>4

(* So does the answer of the fetch, which replaces one cover by the other. *)
LEMMA AnsweredKeepsCovered ==
  ASSUME TypeOK, Behind, OneLives, Covered, NEW m \in Mounts, Answered(m)
  PROVE  Covered'
<1>1. /\ phase[m] = "answered" /\ phase'[m] = "over"
      /\ \A n \in Mounts : n # m => phase'[n] = phase[n]
      /\ UNCHANGED <<nativeVars, inbox, answer, cancelled>>
  BY DEF Answered, TypeOK
<1>2. Waiting' = Waiting /\ \A n \in Mounts : OnItsWay(n)' <=> OnItsWay(n)
  BY <1>1, OnItsWayFrame
<1>3. revision' = revision
  BY <1>1 DEF nativeVars
<1>4. CASE cancelled[m]
  <2>1. UNCHANGED <<applied, shown, ready>>
    BY <1>4 DEF Answered, Accepts, stateVars
  <2> QED
    BY <1>1, <1>2, <1>3, <1>4, <2>1 DEF Covered, AnswerCovers, ShownCovers, Lives, To
<1>5. CASE ~cancelled[m]
  <2>1. Lives(m) /\ AnswerCovers(m)
    BY <1>1, <1>5 DEF Lives, Covered
  <2>2. \A n \in Mounts : n # m => ~Lives(n)'
    BY <1>1, <2>1, OneOfTwo, MountsAre DEF Lives
  <2>3. /\ answer[m] <= revision /\ applied <= revision
        /\ applied <= answer[m] \/ shown = applied
        /\ \A message \in Waiting : To(m, message) \/ message.revision <= answer[m]
        /\ answer[m] = revision \/ shown = revision \/ OnItsWay(m)
    BY <1>1, <2>1 DEF AnswerCovers, Behind
  <2>4. IF answer[m] >= applied THEN applied' = answer[m] /\ shown' = answer[m]
        ELSE applied' = applied /\ shown' = shown
    BY <1>5 DEF Answered, Accepts, ApplyIfNewer, Fresh
  <2>5. shown' = applied' /\ answer[m] <= shown'
    BY <2>3, <2>4, Numbers
  <2>6. answer[m] = revision \/ shown = revision => shown' = revision
    BY <2>3, <2>4, Numbers DEF Behind
  <2>7. shown' \in Int
    BY <2>4, Numbers
  <2>8. \A message \in Waiting : To(m, message) \/ message.revision <= shown'
    BY <2>3, <2>5, <2>7, Numbers, WaitingTyped
  <2>9. ShownCovers(m)'
    BY <1>2, <1>3, <2>3, <2>5, <2>6, <2>8 DEF ShownCovers, To
  <2> QED
    BY <1>1, <2>2, <2>9 DEF Covered, AnswerCovers, ShownCovers
<1> QED
  BY <1>4, <1>5

(* Every step keeps the covers. *)
LEMMA CoveredPreserved ==
  ASSUME TypeOK, Behind, OneLives, Listening, Covered, [Next]_vars, Behind', TypeOK'
  PROVE  Covered'
<1> USE DEF listenVars, stateVars
<1>1. ASSUME UNCHANGED <<nativeVars, inbox, applied, shown, answer>>,
             \A m \in Mounts : Lives(m)' => \/ phase'[m] \notin {"answered", "over"}
                                            \/ phase'[m] = "over" /\ ~ready'
                                            \/ Lives(m) /\ phase'[m] = phase[m] /\ ready' = ready
      PROVE  Covered'
  <2>1. Waiting' = Waiting /\ \A n \in Mounts : OnItsWay(n)' <=> OnItsWay(n)
    BY <1>1, OnItsWayFrame
  <2>2. revision' = revision
    BY <1>1 DEF nativeVars
  <2>3. ASSUME NEW m \in Mounts PROVE AnswerCovers(m)' /\ ShownCovers(m)'
    <3>1. CASE Lives(m)' /\ Lives(m) /\ phase'[m] = phase[m] /\ ready' = ready
      BY <1>1, <2>1, <2>2, <3>1 DEF Covered, AnswerCovers, ShownCovers, To
    <3>2. CASE ~Lives(m)' \/ phase'[m] \notin {"answered", "over"} \/ (phase'[m] = "over" /\ ~ready')
      BY <3>2 DEF AnswerCovers, ShownCovers
    <3> QED
      BY <1>1, <3>1, <3>2
  <2> QED
    BY <2>3 DEF Covered
<1>2. ASSUME NEW t \in Threads, Apply(t) \/ TakeSnapshot(t) \/ \E k \in Kinds : Emit(t, k)
      PROVE  Covered'
  <2>1. UNCHANGED <<listenVars, phase, answer, cancelled, stateVars>>
    BY <1>2 DEF Apply, TakeSnapshot, Emit
  <2> QED
    BY <1>2, <2>1, NativeKeepsCovered
<1>3. CASE Mount \/ MountStrict
  BY <1>1, <1>3 DEF Mount, MountStrict, Mounted
<1>4. ASSUME NEW m \in Mounts, Unmount(m) PROVE Covered'
  <2>1. \A n \in Mounts : cancelled[n] => cancelled'[n]
    BY <1>4 DEF Unmount, TypeOK
  <2> QED
    BY <1>1, <1>4, <2>1 DEF Unmount, Lives
<1>5. ASSUME NEW e \in Ears, Listens(e) \/ ListenFails(e) \/ Acquire(e) PROVE Covered'
  <2>1. UNCHANGED <<nativeVars, inbox, phase, answer, cancelled, stateVars>>
    BY <1>5 DEF Listens, ListenFails, Acquire
  <2> QED
    BY <1>1, <2>1 DEF Lives
<1>6. ASSUME NEW m \in Mounts, GoOn(m) PROVE Covered'
  <2>1. UNCHANGED <<nativeVars, inbox, answer, cancelled, stateVars>>
    BY <1>6 DEF GoOn
  <2>2. \A n \in Mounts : n # m => phase'[n] = phase[n]
    BY <1>6 DEF GoOn, TypeOK
  <2>3. phase'[m] \in {"torn", "fetching"} \/ cancelled[m]
    BY <1>6 DEF GoOn, TypeOK
  <2> QED
    BY <1>1, <2>1, <2>2, <2>3 DEF Lives
<1>7. ASSUME NEW m \in Mounts, ShowFailure(m) PROVE Covered'
  <2>1. /\ phase[m] = "torn" /\ phase'[m] = "over"
        /\ \A n \in Mounts : n # m => phase'[n] = phase[n]
        /\ UNCHANGED <<nativeVars, inbox, answer, cancelled>>
    BY <1>7 DEF ShowFailure, TypeOK
  <2>2. CASE cancelled[m]
    BY <1>1, <1>7, <2>1, <2>2 DEF ShowFailure, Lives
  <2>3. CASE ~cancelled[m]
    <3>1. \A n \in Mounts : n # m => ~Lives(n)'
      BY <2>1, <2>3, OneOfTwo, MountsAre DEF Lives
    <3>2. ~ready'
      BY <1>7, <2>3 DEF ShowFailure
    <3> QED
      BY <2>1, <3>1, <3>2 DEF Covered, AnswerCovers, ShownCovers
  <2> QED
    BY <2>2, <2>3
<1>8. ASSUME NEW m \in Mounts, FetchFails(m) PROVE Covered'
  <2>1. /\ phase[m] # "none" /\ phase'[m] = "over"
        /\ \A n \in Mounts : n # m => phase'[n] = phase[n]
        /\ UNCHANGED <<nativeVars, inbox, answer, cancelled, applied, shown>>
    BY <1>8 DEF FetchFails, TypeOK
  <2>2. CASE cancelled[m]
    BY <1>1, <1>8, <2>1, <2>2 DEF FetchFails, Lives
  <2>3. CASE ~cancelled[m]
    <3>1. \A n \in Mounts : n # m => ~Lives(n)'
      BY <2>1, <2>3, OneOfTwo, MountsAre DEF Lives
    <3>2. ~ready'
      BY <1>8, <2>3 DEF FetchFails
    <3> QED
      BY <2>1, <3>1, <3>2 DEF Covered, AnswerCovers, ShownCovers
  <2> QED
    BY <2>2, <2>3
<1>9. ASSUME NEW m \in Mounts, Fetch(m) PROVE Covered'
  <2>1. /\ phase'[m] = "answered" /\ answer'[m] = revision
        /\ \A n \in Mounts : n # m => phase'[n] = phase[n] /\ answer'[n] = answer[n]
        /\ UNCHANGED <<nativeVars, inbox, cancelled, stateVars>>
    BY <1>9 DEF Fetch, TypeOK
  <2>2. Waiting' = Waiting /\ \A n \in Mounts : OnItsWay(n)' <=> OnItsWay(n)
    BY <2>1, OnItsWayFrame
  <2>3. revision' = revision
    BY <2>1 DEF nativeVars
  <2>4. AnswerCovers(m)' /\ ShownCovers(m)'
    BY <2>1, <2>2, <2>3, Numbers DEF AnswerCovers, ShownCovers, Behind
  <2>5. ASSUME NEW n \in Mounts, n # m PROVE AnswerCovers(n)' /\ ShownCovers(n)'
    BY <2>1, <2>2, <2>3, <2>5 DEF Covered, AnswerCovers, ShownCovers, Lives, To
  <2> QED
    BY <2>4, <2>5 DEF Covered
<1>10. CASE UNCHANGED vars
  BY <1>1, <1>10 DEF vars, Lives
<1> QED
  BY <1>2, <1>3, <1>4, <1>5, <1>6, <1>7, <1>8, <1>9, <1>10,
     DeliverKeepsCovered, AnsweredKeepsCovered
     DEF Next, Native, Webview, Runtime

(* The invariant of the bridge. *)
Bridged == Behind /\ OneLives /\ Listening /\ Covered

(* Every step keeps it. *)
LEMMA BridgedPreserved ==
  ASSUME TypeOK, Bridged, [Next]_vars
  PROVE  Bridged'
<1>1. Behind'
  BY BehindPreserved DEF Bridged
<1>2. OneLives' /\ Listening'
  BY OneLivesPreserved, ListeningPreserved DEF Bridged
<1>3. Covered'
  BY <1>1, CoveredPreserved, TypePreserved DEF Bridged
<1> QED
  BY <1>1, <1>2, <1>3 DEF Bridged

(* It holds before the first mount. *)
LEMMA BridgedInit == Init => Bridged
<1> SUFFICES ASSUME Init PROVE Bridged
  OBVIOUS
<1>1. Waiting = {}
  BY DEF Init, Waiting
<1>2. \A m \in Mounts : phase[m] = "none"
  BY DEF Init
<1>3. Behind
  BY <1>1 DEF Init, Behind, NoRevision
<1>4. OneLives
  BY <1>2, MountsAre, EarsOfMount DEF Init, OneLives
<1>5. Listening /\ Covered
  BY <1>2 DEF Listening, Covered, AnswerCovers, ShownCovers, Follows, Lives
<1> QED
  BY <1>3, <1>4, <1>5 DEF Bridged

(* The current mount is the last one. *)
LEMMA CurrentIsMounted ==
  ASSUME NEW n \in Mounts, phase[n] # "none"
  PROVE  Current \in Mounts /\ phase[Current] # "none"
<1>1. \E m \in Mounts : phase[m] # "none" /\ \A l \in Mounts : phase[l] # "none" => l <= m
  BY MountsAre
<1> QED
  BY <1>1 DEF Current

(* A bridge that is ready shows the manager's status once nothing is on    *)
(* its way, whatever overtook what before (use-runtime-bridge.ts).         *)
THEOREM BridgeUpToDate == Spec => []UpToDate
<1>1. TypeOK /\ Bridged => UpToDate
  <2> SUFFICES ASSUME TypeOK, Bridged, ready, ~cancelled[Current], Quiescent
               PROVE  shown = revision
    BY DEF UpToDate
  <2>1. Current \in Mounts /\ phase[Current] # "none"
    BY CurrentIsMounted DEF Bridged, OneLives
  <2>2. Lives(Current) /\ phase[Current] = "over"
    BY <2>1 DEF Lives, Bridged, OneLives
  <2>3. shown = revision \/ OnItsWay(Current)
    BY <2>1, <2>2 DEF Bridged, Covered, ShownCovers
  <2>4. Waiting = {}
    BY DEF Quiescent, Waiting
  <2> QED
    BY <2>3, <2>4 DEF OnItsWay, Quiescent
<1> QED
  BY <1>1, BridgedInit, BridgedPreserved, TypeCorrect, PTL DEF Spec
=============================================================================
