----------------------------- MODULE StatusBridge -----------------------------
(***************************************************************************)
(* The way of a status from the manager to the webview: native threads     *)
(* that apply a status, take a snapshot and emit it (manager.rs, events.rs *)
(* and runtime.rs), and useRuntimeBridge, which registers its listeners,   *)
(* fetches a snapshot and keeps the newest one (use-runtime-bridge.ts).    *)
(*                                                                         *)
(* JavaScript is single-threaded: an action of the webview is one task.    *)
(* The runtime in between is external: a listener hears the events emitted *)
(* while it is registered, in order; answers to listen() and to commands   *)
(* travel on their own.                                                    *)
(***************************************************************************)
EXTENDS Integers, Sequences

CONSTANTS
  Kinds,         \* NATIVE_EVENTS that carry a status
  Threads,       \* native threads that change the status
  Emissions,     \* the sets of events that follow a change
  MaxRevision    \* bound on the changes

ASSUME BridgeAssumption ==
  /\ Kinds # {} /\ MaxRevision \in Nat
  /\ Emissions \subseteq (SUBSET Kinds) \ {{}}

(* React's StrictMode mounts, unmounts and mounts the same instance again; *)
(* a production build mounts once.                                         *)
Mounts == 1 .. 2
NoRevision == -1

VARIABLES
  revision,    \* RuntimeState.revision
  owes,        \* events a thread has still to emit
  snap,        \* the snapshot a thread has taken, NoRevision without one
  inbox,       \* events on their way: revision and listeners
  listener,    \* of a mount and kind: "none", "asked", "live", "held", "failed", "released"
  unlistens,   \* history: calls of its unlisten function
  phase,       \* run(): "none", "registering", "torn", "fetching", "answered", "over"
  answer,      \* the fetched snapshot
  cancelled,   \* of a mount
  applied,     \* appliedRevisionRef
  shown,       \* state.snapshot
  ready,       \* state.bridgeReady
  error        \* state.bridgeError

nativeVars == <<revision, owes, snap>>
listenVars == <<listener, unlistens>>
stateVars  == <<applied, shown, ready, error>>
vars == <<nativeVars, inbox, listenVars, phase, answer, cancelled, stateVars>>

Revisions == 0 .. MaxRevision
Maybe == Revisions \union {NoRevision}
Ears == Mounts \X Kinds

TypeOK ==
  /\ revision \in Revisions
  /\ owes \in [Threads -> SUBSET Kinds] /\ snap \in [Threads -> Maybe]
  /\ inbox \in Seq([revision : Revisions, to : SUBSET Ears])
  /\ listener \in [Ears -> {"none", "asked", "live", "held", "failed", "released"}]
  /\ unlistens \in [Ears -> Nat]
  /\ phase \in [Mounts -> {"none", "registering", "torn", "fetching", "answered", "over"}]
  /\ answer \in [Mounts -> Maybe]
  /\ cancelled \in [Mounts -> BOOLEAN]
  /\ applied \in Maybe /\ shown \in Maybe
  /\ ready \in BOOLEAN /\ error \in BOOLEAN

Init ==
  /\ revision = 0
  /\ owes = [t \in Threads |-> {}] /\ snap = [t \in Threads |-> NoRevision]
  /\ inbox = <<>>
  /\ listener = [e \in Ears |-> "none"] /\ unlistens = [e \in Ears |-> 0]
  /\ phase = [m \in Mounts |-> "none"] /\ answer = [m \in Mounts |-> NoRevision]
  /\ cancelled = [m \in Mounts |-> FALSE]
  /\ applied = NoRevision /\ shown = NoRevision
  /\ ready = FALSE /\ error = FALSE

-----------------------------------------------------------------------------
(* The manager *)

(* apply_*_status, under the state lock.  At least one event follows. *)
Apply(t) ==
  /\ owes[t] = {} /\ revision < MaxRevision
  /\ revision' = revision + 1
  /\ \E kinds \in Emissions : owes' = [owes EXCEPT ![t] = kinds]
  /\ UNCHANGED <<snap, inbox, listenVars, phase, answer, cancelled, stateVars>>

(* emit_*_status locks the state again for the snapshot ... *)
TakeSnapshot(t) ==
  /\ owes[t] # {} /\ snap[t] = NoRevision
  /\ snap' = [snap EXCEPT ![t] = revision]
  /\ UNCHANGED <<revision, owes, inbox, listenVars, phase, answer, cancelled, stateVars>>

Registered(k) == {e \in Mounts \X {k} : listener[e] \in {"live", "held"}}

(* ... and emits it when it holds no lock. *)
Emit(t, k) ==
  /\ k \in owes[t] /\ snap[t] # NoRevision
  /\ inbox' = IF Registered(k) = {} THEN inbox
              ELSE Append(inbox, [revision |-> snap[t], to |-> Registered(k)])
  /\ owes' = [owes EXCEPT ![t] = @ \ {k}]
  /\ snap' = [snap EXCEPT ![t] = NoRevision]
  /\ UNCHANGED <<revision, listenVars, phase, answer, cancelled, stateVars>>

-----------------------------------------------------------------------------
(* Mounting *)

EarsOf(ms) == ms \X Kinds
(* The effect of every mount in ms; those of `gone` are cleaned up again. *)
Mounted(ms, gone) ==
  /\ phase = [m \in Mounts |-> "none"]
  /\ phase' = [m \in Mounts |-> IF m \in ms THEN "registering" ELSE "none"]
  /\ listener' = [e \in Ears |-> IF e \in EarsOf(ms) THEN "asked" ELSE "none"]
  /\ cancelled' = [m \in Mounts |-> m \in gone]
  /\ UNCHANGED <<nativeVars, inbox, unlistens, answer, stateVars>>

Mount == Mounted({1}, {})
MountStrict == Mounted(Mounts, {1})

Unlisten(es) ==
  /\ listener' = [e \in Ears |-> IF e \in es THEN "released" ELSE listener[e]]
  /\ unlistens' = [e \in Ears |-> unlistens[e] + (IF e \in es THEN 1 ELSE 0)]

\* mutant of Held: teardown leaves the list of unlisten functions as it was
HeldBefore(m) == {e \in EarsOf({m}) : listener[e] \in {"held", "released"}}
(* activeUnlistens *)
Held(m) == {e \in EarsOf({m}) : listener[e] = "held"}

(* The cleanup of the effect: cancelled, and teardown of what is held. *)
Unmount(m) ==
  /\ phase[m] # "none" /\ ~cancelled[m]
  /\ cancelled' = [cancelled EXCEPT ![m] = TRUE]
  /\ Unlisten(Held(m))
  /\ UNCHANGED <<nativeVars, inbox, phase, answer, stateVars>>

-----------------------------------------------------------------------------
(* Registration *)

(* listen() reaches the runtime, or fails. *)
Listens(e) ==
  /\ listener[e] = "asked"
  /\ listener' = [listener EXCEPT ![e] = "live"]
  /\ UNCHANGED <<nativeVars, inbox, unlistens, phase, answer, cancelled, stateVars>>

ListenFails(e) ==
  /\ listener[e] = "asked"
  /\ listener' = [listener EXCEPT ![e] = "failed"]
  /\ UNCHANGED <<nativeVars, inbox, unlistens, phase, answer, cancelled, stateVars>>

\* mutant of Acquire: a listener that answers after the unmount is kept
AcquireAlways(e) ==
  /\ listener[e] = "live"
  /\ listener' = [listener EXCEPT ![e] = "held"]
  /\ UNCHANGED <<nativeVars, inbox, unlistens, phase, answer, cancelled, stateVars>>

(* acquireUnlisten: the answer of listen(), before or after the unmount. *)
Acquire(e) ==
  /\ listener[e] = "live"
  /\ IF cancelled[e[1]] THEN Unlisten({e})
     ELSE listener' = [listener EXCEPT ![e] = "held"] /\ UNCHANGED unlistens
  /\ UNCHANGED <<nativeVars, inbox, phase, answer, cancelled, stateVars>>

(* Promise.allSettled *)
Settled(m) == \A e \in EarsOf({m}) : listener[e] \notin {"asked", "live"}

(* run() goes on: nothing for a cancelled mount, the fetch when every      *)
(* listener is there, teardown when one is missing.                        *)
GoOn(m) ==
  /\ phase[m] = "registering" /\ Settled(m)
  /\ LET missing == \E e \in EarsOf({m}) : listener[e] = "failed"
     IN  /\ phase' = [phase EXCEPT ![m] = IF cancelled[m] THEN "over"
                                          ELSE IF missing THEN "torn" ELSE "fetching"]
         /\ IF missing /\ ~cancelled[m] THEN Unlisten(Held(m)) ELSE UNCHANGED listenVars
  /\ UNCHANGED <<nativeVars, inbox, answer, cancelled, stateVars>>

(* After the teardown the failure is shown, and the snapshot is taken off. *)
ShowFailure(m) ==
  /\ phase[m] = "torn"
  /\ phase' = [phase EXCEPT ![m] = "over"]
  /\ IF cancelled[m] THEN UNCHANGED stateVars
     ELSE /\ shown' = NoRevision /\ ready' = FALSE /\ error' = TRUE
          /\ UNCHANGED applied
  /\ UNCHANGED <<nativeVars, inbox, listenVars, answer, cancelled>>

-----------------------------------------------------------------------------
(* The revision filter *)

\* mutants of Fresh: no filter, and a filter that refuses equal revisions
FreshAlways(r, ref) == TRUE
FreshStrictly(r, ref) == r > ref
Fresh(r, ref) == r >= ref

(* applySnapshotIfNewer of a mount.  A cancelled mount moves the shared    *)
(* reference on and shows nothing.                                         *)
ApplyIfNewer(m, r, s) ==
  IF ~Fresh(r, s.applied) THEN s
  ELSE [applied |-> r, shown |-> IF cancelled[m] THEN s.shown ELSE r]

(* A status event, at every listener that is still registered; those of    *)
(* the earlier mount come first.                                           *)
Deliver ==
  /\ inbox # <<>>
  /\ LET event == Head(inbox)
         Hears(m) == \E e \in event.to : e[1] = m /\ listener[e] \in {"live", "held"}
         before == [applied |-> applied, shown |-> shown]
         first  == IF Hears(1) THEN ApplyIfNewer(1, event.revision, before) ELSE before
         both   == IF Hears(2) THEN ApplyIfNewer(2, event.revision, first) ELSE first
     IN  applied' = both.applied /\ shown' = both.shown
  /\ inbox' = Tail(inbox)
  /\ UNCHANGED <<nativeVars, listenVars, phase, answer, cancelled, ready, error>>

-----------------------------------------------------------------------------
(* The first snapshot *)

(* get_runtime_snapshot, on the native side. *)
Fetch(m) ==
  /\ phase[m] = "fetching"
  /\ phase' = [phase EXCEPT ![m] = "answered"]
  /\ answer' = [answer EXCEPT ![m] = revision]
  /\ UNCHANGED <<nativeVars, inbox, listenVars, cancelled, stateVars>>

Accepts(m) == ~cancelled[m]

(* The answer, which later events may have overtaken. *)
Answered(m) ==
  /\ phase[m] = "answered"
  /\ phase' = [phase EXCEPT ![m] = "over"]
  /\ IF Accepts(m)
     THEN LET s == ApplyIfNewer(m, answer[m], [applied |-> applied, shown |-> shown])
          IN  /\ applied' = s.applied /\ shown' = s.shown
              /\ ready' = TRUE /\ error' = FALSE
     ELSE UNCHANGED stateVars
  /\ UNCHANGED <<nativeVars, inbox, listenVars, answer, cancelled>>

(* The command, or the validation of its answer, fails. *)
FetchFails(m) ==
  /\ phase[m] \in {"fetching", "answered"}
  /\ phase' = [phase EXCEPT ![m] = "over"]
  /\ IF cancelled[m] THEN UNCHANGED stateVars
     ELSE ready' = FALSE /\ error' = TRUE /\ UNCHANGED <<applied, shown>>
  /\ UNCHANGED <<nativeVars, inbox, listenVars, answer, cancelled>>

-----------------------------------------------------------------------------
Native == \E t \in Threads : TakeSnapshot(t) \/ \E k \in Kinds : Emit(t, k)
Webview ==
  \/ Deliver
  \/ \E e \in Ears : Acquire(e)
  \/ \E m \in Mounts : GoOn(m) \/ ShowFailure(m) \/ Answered(m)
Runtime == (\E e \in Ears : Listens(e)) \/ (\E m \in Mounts : Fetch(m))

Next ==
  \/ \E t \in Threads : Apply(t)
  \/ Mount \/ MountStrict \/ (\E m \in Mounts : Unmount(m))
  \/ Native \/ Webview \/ Runtime
  \/ (\E e \in Ears : ListenFails(e)) \/ (\E m \in Mounts : FetchFails(m))

Spec == Init /\ [][Next]_vars

(* Threads finish what they emit, the runtime answers, the event loop      *)
(* runs; nobody has to change a status or to mount.                        *)
FairSpec == /\ Spec
            /\ WF_vars(Native) /\ WF_vars(Runtime)
            /\ WF_vars(Deliver)
            /\ \A e \in Ears : WF_vars(Acquire(e))
            /\ \A m \in Mounts : WF_vars(GoOn(m) \/ ShowFailure(m) \/ Answered(m))

-----------------------------------------------------------------------------
(* Properties *)

(* Whatever overtakes what, a bridge that is ready shows the manager's     *)
(* status once nothing is on its way (useRuntimeBridge: listeners first,   *)
(* then the snapshot, then the newest revision wins).                      *)
Quiescent == inbox = <<>> /\ \A t \in Threads : owes[t] = {}
Current == CHOOSE m \in Mounts : phase[m] # "none" /\ \A n \in Mounts : phase[n] # "none" => n <= m
UpToDate == ready /\ ~cancelled[Current] /\ Quiescent => shown = revision

(* The webview never goes back to an older status, except that a failed    *)
(* registration takes the snapshot off (spec-03:338).                      *)
NeverBackwards == [][shown' >= shown \/ (error' /\ shown' = NoRevision)]_shown

(* Every listener a disposed mount has acquired, early or late, is         *)
(* released, and released once (use-runtime-bridge.ts:7-10).               *)
ReleasedOnce ==
  \A e \in Ears : unlistens[e] = (IF listener[e] = "released" THEN 1 ELSE 0)
ListenersReleased ==
  \A e \in Ears : (cancelled[e[1]] /\ phase[e[1]] # "none")
                    ~> listener[e] \in {"released", "failed"}
=============================================================================
