---------------------------- MODULE WindowsCapture ----------------------------
(***************************************************************************)
(* The Windows adapter (crates/windows-system-audio): the caller that      *)
(* starts and stops a session, the capture thread that owns every COM      *)
(* object, the WASAPI endpoint it polls, and the timeline it rebuilds from *)
(* packets and idle waits.                                                 *)
(*                                                                         *)
(* Time is counted in frames of the endpoint's clock.  The endpoint, the   *)
(* event and the default device are external: they move between any two    *)
(* steps of the thread.                                                    *)
(***************************************************************************)
EXTENDS Naturals, Sequences, FiniteSets

CONSTANTS
  PacketUnits,    \* frames of one endpoint packet
  EndpointSlots,  \* packets the endpoint buffer holds (buffer_duration_ms)
  WaitUnits,      \* EVENT_WAIT_TIMEOUT_MS
  BlockLen,       \* block_len: frames of a 20 ms block
  MaxGapFill,     \* max_gap_fill_frames
  PollUnits,      \* ENDPOINT_POLL_INTERVAL
  MaxNow,         \* bound on the clock
  MaxSwitches     \* bound on the changes of the default endpoint

ASSUME WindowsAssumption ==
  /\ {PacketUnits, EndpointSlots, WaitUnits, BlockLen, MaxGapFill} \subseteq Nat \ {0}
  /\ {PollUnits, MaxNow, MaxSwitches} \subseteq Nat

VARIABLES
  now,          \* the endpoint's clock
  playing,      \* frames of the packet being rendered, 0 when nothing plays
  endpoint,     \* packets captured and not yet released
  lossy,        \* has the endpoint dropped a packet since the last one it kept?
  signaled,     \* the auto-reset event
  route,        \* the default render endpoint
  switches,     \* history: how often it has changed
  owner,        \* "idle", "starting", "open", "stopping", "stopped", "timeout", "failed"
  stopFlag,
  thread,       \* "none", "init", "entry", "top", "wait", "drain", "release", "teardown", "done"
  step,         \* position in InitSteps
  held,         \* what the thread has to give back
  raw,          \* the endpoint's mix format
  opened,       \* the endpoint initialize_session opened
  watched,      \* current_id of poll_state, NoRoute without one
  lastPoll,     \* last_endpoint_poll
  waitFrom,     \* when the current wait began, 0 outside of one
  expected,     \* Timeline.expected_position
  counters,     \* SystemAudioCounters
  writePos,     \* BlockAssembler.write_pos
  accepted,     \* history: blocks the sink took
  errors,       \* history: kinds passed to on_error
  fillSince,    \* history: silence synthesized since the last packet
  overlaps      \* history: packets seen after an idle fill

deviceVars   == <<now, playing, endpoint, lossy, signaled, route, switches>>
ownerVars    == <<owner, stopFlag>>
loopVars     == <<thread, step, held, raw, opened, watched, lastPoll, waitFrom>>
timelineVars == <<expected, counters, writePos, accepted, fillSince, overlaps>>
vars == <<deviceVars, ownerVars, loopVars, timelineVars, errors>>

(* captured counts the frames of every packet, the silent ones included. *)
Counters == [captured : Nat, synthesized : Nat, discontinuity : Nat,
             truncated : Nat, dropped : Nat]
Packets  == [position : Nat, discontinuity : BOOLEAN]

(* The default endpoint is one of two outputs, or there is none. *)
NoRoute == "none"
Routes  == {"speakers", "headset"}

(* Mix formats GetMixFormat may answer with; align is nBlockAlign, the     *)
(* bytes of a frame.                                                       *)
RawFormats ==
  {[tag |-> "extensible pcm", bits |-> 24, valid |-> 0, channels |-> 2, align |-> 6],
   [tag |-> "extensible pcm", bits |-> 32, valid |-> 24, channels |-> 2, align |-> 8],
   [tag |-> "float", bits |-> 16, valid |-> 16, channels |-> 1, align |-> 2],
   [tag |-> "pcm", bits |-> 8, valid |-> 8, channels |-> 2, align |-> 2],
   [tag |-> "pcm", bits |-> 16, valid |-> 16, channels |-> 9, align |-> 18],
   [tag |-> "compressed", bits |-> 16, valid |-> 16, channels |-> 2, align |-> 4]}

(* The bits of a sample as the decoder reads it, 0 for a format it cannot. *)
SampleBits(f) ==
  CASE f.tag \in {"float", "extensible float"} -> 32
    [] f.tag = "pcm" -> f.bits
    [] f.tag = "extensible pcm" -> IF f.valid > 0 THEN f.valid ELSE f.bits
    [] OTHER -> 0
BytesPerSample(f) == SampleBits(f) \div 8

(* validate_raw_format.  (The 8 kHz to 192 kHz bound is not modelled.)      *)
Accepted(f) ==
  /\ SampleBits(f) \in {16, 24, 32}
  /\ f.channels \in 1 .. 8
  /\ f.align = f.channels * BytesPerSample(f)

(* initialize_session, in its order, and the step that acquires a thing;   *)
(* the mix format is memory of COM, given back once Initialize has read it. *)
InitSteps == <<"CoInitializeEx", "enumerator", "endpoint", "Activate", "GetMixFormat",
               "validate", "Initialize", "CreateEvent", "SetEventHandle", "GetService",
               "Start">>
AcquiredBy == [com |-> "CoInitializeEx", client |-> "Activate", format |-> "GetMixFormat",
               event |-> "CreateEvent", service |-> "GetService", stream |-> "Start"]
Resources == DOMAIN AcquiredBy
Acquires(k) == {r \in Resources : AcquiredBy[r] = InitSteps[k]}
Read(k) == IF InitSteps[k] = "Initialize" THEN {"format"} ELSE {}

TypeOK ==
  /\ now \in Nat /\ playing \in 0 .. PacketUnits - 1
  /\ endpoint \in Seq(Packets) /\ Len(endpoint) <= EndpointSlots
  /\ lossy \in BOOLEAN /\ signaled \in BOOLEAN
  /\ route \in Routes \union {NoRoute} /\ switches \in 0 .. MaxSwitches
  /\ owner \in {"idle", "starting", "open", "stopping", "stopped", "timeout", "failed"}
  /\ stopFlag \in BOOLEAN
  /\ thread \in {"none", "init", "entry", "top", "wait", "drain", "release", "teardown", "done"}
  /\ step \in 1 .. Len(InitSteps) + 1 /\ held \subseteq Resources
  /\ raw \in RawFormats
  /\ opened \in Routes \union {NoRoute} /\ watched \in Routes \union {NoRoute}
  /\ lastPoll \in Nat /\ waitFrom \in Nat
  /\ expected \in Nat /\ counters \in Counters
  /\ writePos \in 0 .. BlockLen - 1 /\ accepted \in Nat
  /\ errors \in Seq({"EndpointChanged", "NoRenderEndpoint", "stream", "Internal"})
  /\ fillSince \in Nat /\ overlaps \in Nat

Init ==
  /\ now = 0 /\ playing = 0 /\ endpoint = <<>> /\ lossy = FALSE /\ signaled = FALSE
  /\ route = "speakers" /\ switches = 0
  /\ owner = "idle" /\ stopFlag = FALSE
  /\ thread = "none" /\ step = 1 /\ held = {}
  /\ raw \in RawFormats
  /\ opened = NoRoute /\ watched = NoRoute /\ lastPoll = 0 /\ waitFrom = 0
  /\ expected = 0 /\ writePos = 0 /\ accepted = 0
  /\ counters = [captured |-> 0, synthesized |-> 0, discontinuity |-> 0,
                 truncated |-> 0, dropped |-> 0]
  /\ errors = <<>> /\ fillSince = 0 /\ overlaps = 0

-----------------------------------------------------------------------------
(* The endpoint (external) *)

(* One frame time passes.  The stream renders packets or nothing; past     *)
(* MaxNow the clock moves only to let a wait of the thread time out.       *)
InLoop == thread \in {"top", "wait", "drain", "release"}
Owed == \/ stopFlag
        \/ watched \notin {NoRoute, route} /\ now < lastPoll + PollUnits + WaitUnits
ClockRuns ==
  /\ "stream" \in held
  /\ \/ now < MaxNow
     \/ Owed /\ thread = "wait" /\ now < waitFrom + WaitUnits

Rest ==
  /\ ClockRuns
  /\ now' = now + 1
  /\ playing' = 0
  /\ playing = 0 \/ now >= MaxNow
  /\ UNCHANGED <<endpoint, lossy, signaled, route, switches, ownerVars, loopVars,
                 timelineVars, errors>>

(* A full packet is kept and the event is set; when the buffer is full the *)
(* packet is lost and the next one carries the discontinuity flag.         *)
Play ==
  /\ ClockRuns /\ now < MaxNow
  /\ now' = now + 1
  /\ playing' = (playing + 1) % PacketUnits
  /\ IF playing' # 0 THEN UNCHANGED <<endpoint, lossy, signaled>>
     ELSE IF Len(endpoint) < EndpointSlots
     THEN /\ endpoint' = Append(endpoint, [position |-> now' - PacketUnits,
                                           discontinuity |-> lossy])
          /\ lossy' = FALSE
          /\ signaled' = TRUE
     ELSE lossy' = TRUE /\ UNCHANGED <<endpoint, signaled>>
  /\ UNCHANGED <<route, switches, ownerVars, loopVars, timelineVars, errors>>

(* The user switches the default output, or the last output goes away. *)
RouteChanges ==
  /\ thread \notin {"teardown", "done"} /\ switches < MaxSwitches
  /\ switches' = switches + 1
  /\ route' \in (Routes \union {NoRoute}) \ {route}
  /\ UNCHANGED <<now, playing, endpoint, lossy, signaled, ownerVars, loopVars,
                 timelineVars, errors>>

-----------------------------------------------------------------------------
(* start *)

(* check_version_floor, or the spawn itself, fails. *)
StartRefused ==
  /\ owner = "idle"
  /\ owner' = "failed"
  /\ UNCHANGED <<deviceVars, stopFlag, loopVars, timelineVars, errors>>

Start ==
  /\ owner = "idle"
  /\ owner' = "starting"
  /\ thread' = "init"
  /\ UNCHANGED <<deviceVars, stopFlag, step, held, raw, opened, watched,
                 lastPoll, waitFrom, timelineVars, errors>>

(* One step of initialize_session succeeds. *)
InitStep ==
  /\ thread = "init" /\ step <= Len(InitSteps)
  /\ InitSteps[step] = "endpoint" => route # NoRoute
  /\ InitSteps[step] = "validate" => Accepted(raw)
  /\ opened' = IF InitSteps[step] = "endpoint" THEN route ELSE opened
  /\ held' = (held \union Acquires(step)) \ Read(step)
  /\ step' = step + 1
  /\ UNCHANGED <<deviceVars, ownerVars, thread, raw, watched, lastPoll, waitFrom,
                 timelineVars, errors>>

\* mutant of Given: the event is left to be dropped like the COM objects
GivenByDrop(k) ==
  {"com", "client", "service"} \union (IF k \in {6, 7} THEN {"format"} ELSE {})
(* What a failing step k gives back: COM objects and the apartment go with *)
(* their owners, the mix format is freed and the event handle is closed by *)
(* hand.                                                                   *)
Given(k) ==
  {"com", "client", "service"} \union (IF k \in {6, 7} THEN {"format"} ELSE {})
    \union (IF k > 8 THEN {"event"} ELSE {})

(* Any step may fail; the caller joins the thread and returns the error. *)
InitFails ==
  /\ thread = "init" /\ step <= Len(InitSteps)
  /\ held' = held \ Given(step)
  /\ thread' = "done"
  /\ owner' = "failed"
  /\ UNCHANGED <<deviceVars, stopFlag, step, raw, opened, watched, lastPoll,
                 waitFrom, timelineVars, errors>>

(* ready_tx.send(Ok(format)): the caller gets its session. *)
Report ==
  /\ thread = "init" /\ step > Len(InitSteps)
  /\ owner' = "open"
  /\ thread' = "entry"
  /\ UNCHANGED <<deviceVars, stopFlag, step, held, raw, opened, watched,
                 lastPoll, waitFrom, timelineVars, errors>>

(* poll_state: a second enumerator and the id of the default endpoint of   *)
(* this moment; without it the endpoint is never polled.                   *)
EnterLoop ==
  /\ thread = "entry"
  /\ watched' \in {route, NoRoute}
  /\ lastPoll' = IF watched' = NoRoute THEN 0 ELSE now
  /\ thread' = "top"
  /\ UNCHANGED <<deviceVars, ownerVars, step, held, raw, opened, waitFrom,
                 timelineVars, errors>>

-----------------------------------------------------------------------------
(* The capture loop *)

(* sink.on_error, and out of the loop. *)
Leave == thread' = "teardown"

\* mutant of EndWith: the loop goes on after an error of the stream
GoesOn(kind) == errors' = Append(errors, kind) /\ thread' = "top"
EndWith(kind) == errors' = Append(errors, kind) /\ Leave

SeeStop ==
  /\ thread = "top" /\ stopFlag
  /\ Leave
  /\ UNCHANGED <<deviceVars, ownerVars, step, held, raw, opened, watched, lastPoll,
                 waitFrom, timelineVars, errors>>

\* mutant of PollDue: the endpoint is polled while packets keep coming only
PollOnEvent == watched # NoRoute /\ signaled /\ now >= lastPoll + PollUnits
PollDue == watched # NoRoute /\ now >= lastPoll + PollUnits

(* The once-per-second look at the default endpoint. *)
Poll ==
  /\ thread = "top" /\ ~stopFlag /\ PollDue
  /\ lastPoll' = now
  /\ \/ route = watched /\ thread' = "wait" /\ waitFrom' = now /\ UNCHANGED errors
     \/ route \notin {watched, NoRoute} /\ EndWith("EndpointChanged") /\ UNCHANGED waitFrom
     \/ route = NoRoute /\ EndWith("NoRenderEndpoint") /\ UNCHANGED waitFrom
     \/ EndWith("Internal") /\ UNCHANGED waitFrom
  /\ UNCHANGED <<deviceVars, ownerVars, step, held, raw, opened, watched, timelineVars>>

\* mutant of BeginWait: the event is reset before the wait
BeginWaitResets ==
  /\ thread = "top" /\ ~stopFlag /\ ~PollDue
  /\ thread' = "wait"
  /\ waitFrom' = now
  /\ signaled' = FALSE
  /\ UNCHANGED <<now, playing, endpoint, lossy, route, switches, ownerVars, step, held,
                 raw, opened, watched, lastPoll, timelineVars, errors>>

BeginWait ==
  /\ thread = "top" /\ ~stopFlag /\ ~PollDue
  /\ thread' = "wait"
  /\ waitFrom' = now
  /\ UNCHANGED <<deviceVars, ownerVars, step, held, raw, opened, watched, lastPoll,
                 timelineVars, errors>>

(* cap_gap *)
Capped(gap) == IF gap > MaxGapFill THEN MaxGapFill ELSE gap
Truncates(gap) == IF gap > MaxGapFill THEN 1 ELSE 0

(* BlockAssembler.feed of n frames: the write position it leaves and the   *)
(* blocks it completes.                                                    *)
FedTo(n) == (writePos + n) % BlockLen
Completed(n) == (writePos + n) \div BlockLen

(* deliver_samples: the sink takes the completed blocks, or refuses them. *)
Deliver(n, change) ==
  \E d \in {0, Completed(n)} :
    /\ writePos' = FedTo(n)
    /\ accepted' = accepted + Completed(n) - d
    /\ counters' = [change EXCEPT !.dropped = @ + d]

(* WAIT_TIMEOUT: note_idle_wait fills the time waited. *)
WaitTimedOut ==
  /\ thread = "wait" /\ ~signaled /\ now >= waitFrom + WaitUnits
  /\ LET fill == Capped(WaitUnits)
     IN  /\ expected' = expected + fill
         /\ fillSince' = fillSince + fill
         /\ Deliver(fill, [counters EXCEPT !.synthesized = @ + fill,
                                           !.truncated = @ + Truncates(WaitUnits)])
  /\ thread' = "top" /\ waitFrom' = 0
  /\ UNCHANGED <<deviceVars, ownerVars, step, held, raw, opened, watched, lastPoll,
                 overlaps, errors>>

(* The event resets itself when it ends the wait. *)
WaitSignaled ==
  /\ thread = "wait" /\ signaled
  /\ signaled' = FALSE
  /\ thread' = "drain" /\ waitFrom' = 0
  /\ UNCHANGED <<now, playing, endpoint, lossy, route, switches, ownerVars, step, held,
                 raw, opened, watched, lastPoll, timelineVars, errors>>

WaitFails ==
  /\ thread = "wait"
  /\ EndWith("Internal") /\ waitFrom' = 0
  /\ UNCHANGED <<deviceVars, ownerVars, step, held, raw, opened, watched, lastPoll,
                 timelineVars>>

(* GetNextPacketSize, GetBuffer or ReleaseBuffer fails; "stream" stands    *)
(* for what map_runtime_error makes of it.                                 *)
PacketFails ==
  /\ thread \in {"drain", "release"}
  /\ EndWith("stream")
  /\ UNCHANGED <<deviceVars, ownerVars, step, held, raw, opened, watched, lastPoll,
                 waitFrom, timelineVars>>

Drained ==
  /\ thread = "drain" /\ endpoint = <<>>
  /\ thread' = "top"
  /\ UNCHANGED <<deviceVars, ownerVars, step, held, raw, opened, watched, lastPoll,
                 waitFrom, timelineVars, errors>>

\* mutant of Gap: the silence already filled is not taken off
GapSincePacket(p) == IF p.discontinuity \/ p.position < expected - fillSince THEN 0
                     ELSE p.position - (expected - fillSince)
(* observe_packet: the gap before a packet, none before a discontinuity    *)
(* and none when the fill has run ahead of the packet.                     *)
Gap(p) == IF p.discontinuity \/ p.position < expected THEN 0 ELSE p.position - expected

(* GetBuffer and the delivery of the gap's fill and of the packet. *)
TakePacket ==
  /\ thread = "drain" /\ endpoint # <<>>
  /\ LET p == Head(endpoint)
         fill == Capped(Gap(p))
         seen == [counters EXCEPT
                    !.synthesized = @ + fill,
                    !.truncated = @ + Truncates(Gap(p)),
                    !.discontinuity = @ + (IF p.discontinuity THEN 1 ELSE 0),
                    !.captured = @ + PacketUnits]
     IN  /\ expected' = p.position + PacketUnits
         /\ Deliver(fill + PacketUnits, seen)
         /\ overlaps' = overlaps + (IF fillSince > 0 THEN 1 ELSE 0)
         /\ fillSince' = 0
  /\ thread' = "release"
  /\ UNCHANGED <<deviceVars, ownerVars, step, held, raw, opened, watched, lastPoll,
                 waitFrom, errors>>

Release ==
  /\ thread = "release"
  /\ endpoint' = Tail(endpoint)
  /\ thread' = "drain"
  /\ UNCHANGED <<now, playing, lossy, signaled, route, switches, ownerVars, step, held,
                 raw, opened, watched, lastPoll, waitFrom, timelineVars, errors>>

(* discard_partial, Stop, CloseHandle and the drops; the endpoint's buffer *)
(* goes with the client.                                                   *)
Teardown ==
  /\ thread = "teardown"
  /\ writePos' = 0
  /\ held' = held \ {"stream", "event", "service", "client", "com"}
  /\ thread' = "done"
  /\ playing' = 0 /\ endpoint' = <<>> /\ lossy' = FALSE /\ signaled' = FALSE
  /\ watched' = NoRoute /\ lastPoll' = 0
  /\ UNCHANGED <<now, route, switches, ownerVars, step, raw, opened, waitFrom,
                 expected, counters, accepted, fillSince, overlaps, errors>>

-----------------------------------------------------------------------------
(* stop *)

\* mutant of RequestStop: the flag is left to the drop of the session
StopWithoutFlag ==
  /\ owner = "open"
  /\ owner' = "stopping"
  /\ UNCHANGED <<stopFlag, deviceVars, loopVars, timelineVars, errors>>
RequestStop ==
  /\ owner = "open"
  /\ owner' = "stopping" /\ stopFlag' = TRUE
  /\ UNCHANGED <<deviceVars, loopVars, timelineVars, errors>>

Joined ==
  /\ owner = "stopping" /\ thread = "done"
  /\ owner' = "stopped"
  /\ UNCHANGED <<deviceVars, stopFlag, loopVars, timelineVars, errors>>

(* STOP_JOIN_BUDGET is host time: on a busy host it may pass at any moment. *)
StopGivesUp ==
  /\ owner = "stopping" /\ thread # "done"
  /\ owner' = "timeout"
  /\ UNCHANGED <<deviceVars, stopFlag, loopVars, timelineVars, errors>>

(* The handle is gone: a second stop, or the drop, returns success. *)
StopAgain ==
  /\ owner = "timeout"
  /\ owner' = "stopped"
  /\ UNCHANGED <<deviceVars, stopFlag, loopVars, timelineVars, errors>>

-----------------------------------------------------------------------------

Clock == Rest \/ Play
CaptureThread ==
  \/ InitStep \/ Report \/ EnterLoop \/ SeeStop \/ Poll \/ BeginWait
  \/ WaitTimedOut \/ WaitSignaled \/ Drained \/ TakePacket \/ Release \/ Teardown
Failures == InitFails \/ WaitFails \/ PacketFails
Caller == StartRefused \/ Start \/ RequestStop \/ Joined \/ StopGivesUp \/ StopAgain
Next == Clock \/ RouteChanges \/ CaptureThread \/ Failures \/ Caller

Spec == Init /\ [][Next]_vars

(* The clock runs, the capture thread is scheduled and stop() polls for    *)
(* its end; no call has to fail and nobody has to press stop.              *)
FairSpec == /\ Spec
            /\ WF_vars(Clock) /\ WF_vars(CaptureThread) /\ WF_vars(Joined)

-----------------------------------------------------------------------------
(* Properties *)

(* A capture thread that has ended, by a failed start or after the loop,   *)
(* holds no COM object, no mix format, no apartment, no event and no       *)
(* running stream (initialize_session and run_capture_thread, every exit). *)
NothingHeld == thread = "done" => held = {}

(* The audio fed, captured or synthesized, never falls behind the          *)
(* endpoint's position, and runs                                           *)
(* ahead of it by less than a packet for every idle gap, as long as no gap *)
(* was cut and no packet lost (observe_packet, note_idle_wait).            *)
Fed == counters.captured + counters.synthesized
LeadBounded ==
  counters.truncated = 0 /\ counters.discontinuity = 0
    => /\ expected <= Fed
       /\ Fed <= expected + (PacketUnits - 1) * overlaps

(* The adapter reports one error at most, and delivers nothing after it    *)
(* (capture_loop: every on_error leaves the loop).                         *)
SilentAfterError ==
  [][errors # <<>> => UNCHANGED <<errors, accepted, counters>>]_vars

(* A stop ends the capture thread and returns. *)
StopReturns == owner = "stopping" ~> (owner # "stopping" /\ thread = "done")

(* A packet the endpoint has announced is read, or the thread ends: no     *)
(* wakeup is lost between the last look at the endpoint and the next wait. *)
PacketsRead == (InLoop /\ endpoint # <<>>) ~> (endpoint = <<>> \/ thread = "done")

(* A switch of the watched endpoint ends the session, unless it is undone. *)
SwitchNoticed ==
  (InLoop /\ watched # NoRoute /\ route # watched) ~> (route = watched \/ thread = "done")

(* capture.rs:486: the poll compares with "the endpoint id observed at     *)
(* start".                                                                 *)
WatchesWhatItHears == InLoop /\ watched # NoRoute => watched = opened

(* config.rs:11: "Hard cap on synthesized silence per idle gap". *)
GapCapped == fillSince <= MaxGapFill

=============================================================================
