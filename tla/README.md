# Capture lifecycle of mistaken: a verification development

mistaken is a desktop application (Tauri: a Rust process and a webview) that
captures the microphone and the system audio, transcribes both with a local
recognizer and shows one transcript. This directory holds TLA+ models of the
parts of it that are concurrent, the TLC configurations that check them on small
instances, and theorems about them with proofs checked by TLAPS.

Paths below are relative to the repository. `manager.rs` is
`src-tauri/src/state/manager.rs`.

## 1. The system

### 1.1 Components

| Component | State it keeps | Operations | What makes it correct |
|---|---|---|---|
| **Lifecycle manager** (`state/manager.rs`, `state/runtime.rs`, `commands/runtime.rs`) | `generation` (atomic), `RuntimeState` behind the `state` mutex (captureStatus, one status per source), `Option<ActiveSession>` behind the `session` mutex (a pipeline per source, `RecoveryState` per source) | `start_capture`, `stop_capture`, `list_microphones`, `shutdown`, the 10 s starting and 3 s stopping watchdogs, `fail_starting` | every opened device has exactly one party that will close it; a failed start leaves nothing open; the status shown and the devices agree; no transitional status for ever |
| **Source supervision** (`manager.rs`, `audio/supervisor.rs`) | attempts used and healthy-since per source | `handle_source_runtime_error`, `commit_terminal`, `schedule_recovery`, `run_recovery_attempt`, `on_first_signal` | attempts are charged, each outage ends in a running or a terminal source, one source's outage does not end the other |
| **Application shell** (`App.tsx`, `TranscriptWorkspace.tsx`, `use-runtime-bridge.ts`) | the last snapshot accepted | the Start and Stop buttons, the revision filter | commands that arrive late do no harm |
| **Segment identity and timeline** (`asr/worker.rs` `SegmentTracker`, `RecoveryState`, `transcript-domain.ts`) | segment index, clock offset, next index and last end across recoveries; the transcript rows | `on_partial`, `on_final`, reading the restart context, `segment/received` | no final lost, none rewritten, segments in order of time |
| **Chunk pipeline** (`microphone/session.rs`, `system/session.rs`, `asr/chunk_pool.rs`, `asr/worker.rs`) | pool of chunk buffers, two lock-free queues, flags `finished`, `abandoned`, `stop`, `abandon` | feed, submit, receive, recycle, finish, abandon | buffers neither leak nor multiply; audio is heard once and in order; both threads end |
| **Capture block pool and callbacks** (`audio/buffer.rs`, `microphone/cpal_backend.rs`, `system/sink.rs`, the loops of both `session.rs`) | pool of capture blocks, the block in progress, overflow counter, fault and stop flags | the real-time callback, the sink bridge, the monitor's loop, stop and abandon | as above, on a thread that must not block; a stop or a fault releases the device |
| Recovery policy and lag window (`audio/supervisor.rs`, `asr/worker.rs`) | none / counts of a window | `classify_recovery`, `backoff_for_attempt`, `LagWindow` | agree with the frozen policy |
| **Runtime bridge** (`use-runtime-bridge.ts`, `runtime.ts`, `contracts.ts`, the emitters of `state/runtime.rs`) | listeners, snapshot with revision | listen / unlisten, snapshot then events | never shows an older snapshot, ends at the newest; releases each listener once |
| **Transcript session** (`TranscriptWorkspace.tsx`, `transcript-domain.ts`) | rows, clear confirmation, copy request | received, cleared, copied | a final survives whatever arrives late; "Copied" is true; the copy button comes back |
| Source controls (`microphone-controller.ts`, `recovery-presentation.ts`) | device list, selection | load, refresh, select | the last answer wins |
| **Windows adapter** (`crates/windows-system-audio`) | COM objects of the capture thread, timeline, block in progress | start handshake, capture loop, endpoint poll, bounded stop | everything acquired is given back; the timeline keeps up with the endpoint; no wakeup lost; silent after an error |
| **macOS adapter** (`crates/macos-system-audio`) | stream, output, the `delivery` mutex with the format of the session | start and stop with their completions, sample callback, stream delegate | one format per session; silent after stop; stop returns |
| Recognizer adapter, model loading (`asr/sherpa_adapter.rs`, `loader.rs`, ...) | recognizer handle | decode, finish, load | wrapper of a library |
| Process wiring (`src-tauri/src/lib.rs`) | none | calls `shutdown` from the window, exit and signals | devices released on every way out |
| Benchmarks (`benchmarks/`) | none | offline evaluation | not part of the application |

### 1.2 How they interact

The webview invokes the commands; each runs on a thread of the async runtime and
blocks in the drivers on a blocking thread. A start opens a pipeline per source:
a device session, a monitor thread that turns captured blocks into chunks, and
an ASR worker. Monitor and worker report faults and first signals through
closures that hold the generation they were made for and call back into the
manager *on their own threads*. A fault handler may schedule a recovery attempt
on yet another thread. Stop, shutdown and the teardown of a faulty source join
those threads. Watchdogs are tasks of their own. What connects all of them is
the generation: a callback compares it and returns if it is stale.

### 1.3 What is hard

* The generation is compared in one place and acted upon in another. Each such
  pair is a window in which a stop, a watchdog or a shutdown may step.
* The state mutex and the session mutex are taken one after the other, so status
  and devices change in separate steps.
* Joins: a joined thread may itself be inside a callback that needs a mutex.
* Two threads of one pipeline report the same outage.
* A recovered source must continue the ids and times of a worker that may
  still be running.
* Flags beside lock-free queues: the order of reads and writes decides whether
  the tail of the audio is heard and whether an interim is finalized.
* Snapshots are taken and emitted after the lock was released: an older status
  can overtake a newer one, and the answer of a fetch races the events.
* Callbacks of the platform meet a stop that is waiting for them, through a
  mutex each of them needs.
* Silence is synthesized for time in which nothing played; what a wait has
  filled must not be filled again by the packet that ends it.
* A click acts on what was rendered, a late segment on what has been dispatched.

`PROJECT.json` lists every hazard at its line with the properties that bear on it.

## 2. Modules

| Module | Models | Extends / composes |
|---|---|---|
| `PipelineOwnership` | abstract: what becomes of an opened pipeline | |
| `RuntimeManager` | the lifecycle manager and the source supervision | implements `PipelineOwnership` |
| `CaptureApp` | the manager driven by the buttons of the webview | `RuntimeManager` |
| `SegmentContinuity` | one source's workers, its `RecoveryState` and the reducer | |
| `TranscriptSession` | the same with the user's side: rendering, Clear, Copy All | `SegmentContinuity` |
| `ChunkPipeline` | monitor thread, chunk pool, worker thread and owner of one pipeline | |
| `CapturePool` | callback, capture block pool, monitor thread and owner of one source | hands on to `ChunkPipeline` |
| `WindowsCapture` | the Windows adapter | below `CapturePool` |
| `MacCapture` | the macOS adapter | below `CapturePool` |
| `StatusBridge` | native emitters, the listeners and the snapshot of the webview | between `RuntimeManager` and `CaptureApp` |
| `MCRuntimeManager`, `MCCaptureApp`, `MCTranscriptSession` | symmetry sets and scenes for TLC | |
| `FaultPolicy` | the tables from an adapter's error to the decision to retry | used by `RuntimeManager` |
| `RuntimeManager_proofs`, `SessionStatus_proofs`, `TranscriptSession_proofs`, `ChunkPipeline_proofs`, `CapturePool_proofs`, `StatusBridge_proofs`, `WindowsCapture_proofs`, `MacCapture_proofs` | theorems | `SessionStatus_proofs` is about `CaptureApp` and builds on `RuntimeManager_proofs` |

### 2.1 RuntimeManager and PipelineOwnership

Every thread is a process with a program counter (`startPc`, `stopPc`, `taskPc`,
`shutPc`, the watchdogs `startDog`, `stopDog`). An action is what the thread
does between two points where others can act: one atomic access of
`generation`, one critical section, or one blocking call. Where the code
compares the generation and then takes a mutex these are two actions, because
that is what they are in the code.

* `StartBegin` .. `StartCommit`: `start_capture`. `mic` and `sys` are the
  blocking acquisitions; a device acquired for a superseded start is closed on
  the spot. `StartInstall` assigns over the session, and if there was one the
  joins happen under the mutex (`StartDropped`).
* `StartFailCheck`, `StartFailApply`: `fail_starting`.
* `StartDog...`, `StopDog...`: the watchdogs. The starting one compares and
  exchanges the generation, the stopping one looks only at a completion flag;
  both read the flag some time before they act.
* `StopBegin` .. `StopCommit`: `stop_capture`; it moves the generation on
  before it looks at the status.
* `ShutdownBegin` .. `ShutdownJoined`: `shutdown`, which joins under the mutex.
* `Raise`: a monitor or worker thread reports a fault; the handler
  (`TaskCheck` .. `TaskSurvey`) runs on that thread, which therefore cannot be
  joined until the handler is over (`Quiet`). `commit_terminal` takes the session
  mutex inside its state section: at `survey` nobody else gets past the state
  mutex (`StateFree`).
* `TaskBackoff` .. `TaskResumed`, `TaskPanics`, `TaskPanicCheck`: the recovery
  attempt. A failed attempt re-enters the handler.
* `SignalCheck`, `SignalMark`, `SignalHealth`: `on_first_signal`, which compares
  the generation only: the monitor of a pipeline that is being torn down may still
  call it. The microphone's monitor reports faults and first signal from one loop,
  which a fault ends (`OneThread`); a fault of system audio comes from the thread
  of its adapter, which may overlap the monitor's callback.
* `ListMicrophones`: the reconciliation of `list_microphones`.

The pipeline of a source is identified by who opened it (`Pipes`) and goes
through `none`, `live`, then `released`, with `dropped` (being joined under the
session mutex) or `abandoned` (being joined by a thread of its own) between.

Abstracted: an error becomes one bit, `retry` (what `classify_recovery` says).
`FaultPolicy` follows the mappings from the adapters' errors over
`AudioErrorKind` to the code `classify_recovery` looks at, and says which values
of the bit a thread can report (`FaultRetries`: the fault of a worker is never
retried) and with which an attempt to reopen can fail (`OpeningRetries`). A
pipeline raises at most one fault per thread, so a backend that reports more
than once counts as one; timers have no length, they may run out at any moment;
the bounded join of the system adapters is a join; counters, snapshots and event
emission are left out, no lifecycle decision reads them.

`Events` says what the environment may do in an instance, so that a run can
isolate a question. With all events allowed all the windows of section 4 are
open at once.

`PipelineOwnership` is the promise without mutexes, threads and generations: a
pipeline is `none`, `opening`, `installed`, `closing` or `released`; its opener
opens it, refuses it, gives it up or installs it, the session gives it to
whoever closes it, and a join releases it. `Stage` in `RuntimeManager` is the
refinement mapping (who holds a pipeline in the code says in which stage it
is), `RefinesOwnership` the claim that every step of the manager is one of these
hand-overs or none.

### 2.2 CaptureApp

Adds `shown`, the captureStatus last rendered. The buttons are enabled by it, so
`ClickStart` needs `shown = "idle"` and `ClickStop` needs `shown = "listening"`.
`Render` lets it catch up at any time: revisions are monotone and older
snapshots are ignored, so what is rendered next is a current status. That the
webview may be modelled so is what `StatusBridge` shows.

### 2.3 SegmentContinuity and TranscriptSession

One source, one session; the sources share no row, id or index. Workers are
numbered in the order they are opened. `Feed`, `Partial`, `Final` are the
tracker; `FinalRecord` and `FinalEmit` the two halves of `on_final` (session
section, then the event); `ReadContext` and `Restart` the part of the recovery
attempt that chooses the first index and the time offset; `Receive` the reducer.
Device time (`fed`) and host time (`now`) advance independently. An abandoned
worker works off what is queued for it, as a running one does (`Works`). A segment
may end without any audio since it began. `emitted` is a history variable.

`TranscriptSession` adds the workspace. `transcript` has every dispatched action
applied, `rendered` is React's last commit: `Commit` lets it catch up, a click
that dispatches Clear renders at once. `ClearActivate`, `ClearCancel`,
`ClearConfirm` decide by `rendered`, as the buttons do. A copy (`Copy`) is a
clipboard write with a request number; writes reach the clipboard in the order
of the calls, and their callbacks (`CopySettles`) compare the number and the
text with what is then rendered. Two texts are equal when their rows are. The
workspace never unmounts, so there is no cleanup to model.

A behaviour plays one *scene* (`MCTranscriptSession`): its own number of workers
and of segments, amounts of audio and time, copies, and events. `Recoveries` has
two recoveries and faults at any point; `SlowWorkers` old workers that outlive the
back-off and so work beside their successor;
`CopyAndClear` and `ClearAndRecover` the user. One instance with all of it at once
would be out of TLC's reach; the scenes are the pairings that touch the same
state.

### 2.4 ChunkPipeline

Audio is numbered, so that "once and in order" can be said. `AcquireBuffer`,
`CopyUnits` are `AsrChunkFeeder::accept`, `FlushTail` and `MarkFinished` its
`finish`, `MarkAbandoned` and `MarkFinished` its `abandon` (first `abandoned`,
then `finished`). `Receive`, `Decode`, `LookFinished`, `End` are the loop of the
worker. `RequestStop`, `RequestAbandon`, `StopAfterAbandon` are the owner.
`overflow` says whether a drop has been counted. Left out: lag reports, and the
monitor's exits for broken internal invariants (a foreign block, a failed recycle;
`microphone/session.rs:156` and `:182`). No call of the pipeline can take them: the
monitor has one queue, and `NothingRefused` of `CapturePool` says that a recycle
never finds it full. `MaxBlocks` ends the audio of an instance, which helps the drain
loop of the monitor to end: `TeardownEnds` says that both threads end once the
audio they have does, not that they would against a device that fills the queue as
fast as it is drained.

### 2.5 CapturePool

Everything before `accept`. `AcquireBlock`, then `CpalFrame` (one frame of the
microphone's stream callback) or `BridgeBlock` (a block of the sink bridge), with
`Submit` and its two treatments of a refused block; `source` chooses the backend
and the copy of the monitor. The microphone's pool is sized for the rate of its
device; that of system audio for a constant 48 kHz (`windows.rs:181`), while the
Windows adapter delivers blocks of its own mix rate / 50 (`capture.rs:466`), up to
192 kHz. `native` is the length of such a block, shorter than a buffer, as long or
longer; the bridge copies what fits (`sink.rs:34`) and leaves the rest out without
a count. `HeardFaithfully` therefore says of a block what is kept of it (`Kept`),
and, unless overflow was counted, that the next one begins where the device's next
block does (`Delivered`): the two are the same only up to 48 kHz.

The monitor is one action per access to something shared: `CheckStop`, `CheckFault`, `TakeBlock`, `Signal`, `Recycle`, `Drained`,
`ReportOverflow`, `StopSession`, `EndFeeder`; a recycle that finds its queue full
reports a fault and abandons the feeder. Frames are numbered; of a frame the
model keeps whether it is finite and loud. `refused` and `heard` are history
variables. What `StopSession` drops with the stream (the callback, its block and
the producer) leaves the pool: the pool dies with the session.

### 2.6 WindowsCapture

`thread` follows `run_capture_thread`: the steps of `initialize_session`
(`InitSteps`, each of which acquires what `AcquiredBy` says and may fail; the mix
format is memory of COM, freed once `Initialize` has read it or by the exits
before: `Read`, `Given`),
`Report`, `EnterLoop` with the poll state, and the loop `SeeStop`, `Poll`, `BeginWait`,
`WaitTimedOut` / `WaitSignaled` / `WaitFails`, `TakePacket`, `Release`, `Drained`,
`PacketFails`, `Teardown`. `TakePacket` and `WaitTimedOut` carry the timeline
(`observe_packet`, `note_idle_wait`, `cap_gap`) and the block assembler. The
caller is `Start`, `RequestStop`, `Joined`, `StopGivesUp`, `StopAgain`. The endpoint,
its event and the default route are external: `Rest`, `Play`, `RouteChanges`. Time
is counted in frames of the endpoint's clock. Beyond `MaxNow` nothing plays and
the clock moves only as far as a wait of the thread still needs it to. The failed
answer over `ready_tx` (`capture.rs:402`) is no branch of the model: `start` waits
for it without a timeout (`capture.rs:101`), so the receiver is there.

### 2.7 MacCapture

`owner` follows `start` (`StartChecks` .. `Unwind`) and `stop` (`Stop` ..
`Discard`), each completion answering, failing or not coming in time. The sample
callback takes the mutex `delivery`, checks the buffer's format, feeds or
reports; the delegate takes the same mutex to report that the stream stopped.
Their report goes into the manager and needs its session mutex, which a
`shutdown` holds while it stops the source and a monitor does not (`Stoppers`).
ScreenCaptureKit is external; `removeStreamOutput` waits for a callback in flight
(`Removed`), as the adapter's comments take it to. It may also answer with an
error, which `stop` and `start` discard (`stream.rs:171` and `:292`): then the
output stays registered and its callbacks go on (`UnwindRefused`, `RemoveRefused`).
`refusal` is a history variable; `SilentAfterStop` is claimed without one, and
`mac_removal_refused` (section 4) shows what happens with one.

### 2.8 StatusBridge

Native threads apply a status (`Apply`), lock again for a snapshot
(`TakeSnapshot`) and emit it without a lock (`Emit`), so events overtake each
other. The webview is single-threaded: an action is a task. `Mount` and
`MountStrict` (StrictMode: mount, unmount, mount, as `main.tsx` has it in
development), `Unmount`, `Listens` and `ListenFails`, `Acquire`
(`acquireUnlisten`), `GoOn`, `ShowFailure`, `Fetch`, `Answered`, `FetchFails`,
`Deliver`. Both mounts of StrictMode share `applied`, the revision reference, as
they share the hook's instance.

## 3. Runs that pass

| Run | Question | Bounds |
|---|---|---|
| `manager_commands` | may any order of two starts, a stop and a shutdown, with failing and slow devices, both watchdogs and microphones that come and go, leave a device without an owner or a failed start with a device? (`SingleOwner`, `AtomicStart`, `RefinesOwnership`) | two starts: one to be superseded and one to supersede it; requests for both sources and for one |
| `manager_recovery` | two fault handlers, each with its attempts, failing or panicking, and the microphone's first signals: no source left reconnecting (`NothingPending`), every attempt paid for (`RecoveriesPaidFor`), every chain of attempts ends in a running or a terminal source (`ReconnectingEnds`) | two handlers: of one source, of both, and one outliving the other; two attempts, so that one fails and one follows, where production has three |
| `app_commands` | commands as the buttons allow them, failing devices, first-signal callbacks that overlap a stop and the next start: whenever nothing is under way, status and devices agree (`CapturingIsAlive`, `ErrorIsDead`), and an answered start keeps its session (`StartStands`) | start, stop, start |
| `app_recovery` | a stop in the middle of outages and recoveries (`IdleIsReleased`, `ListeningIsAlive`), and nothing open at the end but what the session holds, whichever of five kinds of parties had it (`OnlySessionRuns`) | two handlers |
| `app_liveness` | a start ends though the microphone never answers (`StartingEnds`), a stop though its joins never return (`StoppingEnds`) | start, stop, start |
| `transcript_session` | no final lost (`EveryFinalKept`), times in order (`TimelineMonotone`), none rewritten (`FinalsNeverChange`), through recoveries, slow workers, Clear and Copy; "Copied" is shown for the text on the screen only (`CopiedIsTrue`), and the button comes back (`PendingIsAnswered`) | four scenes; up to three workers, i.e. two recoveries; three segments begun with the first two recoveries, two beside a slow worker; two ticks of audio per worker and three of the host, so that either clock runs ahead; two copies, so that one supersedes the other |
| `pipeline_flow` | buffers, order of the audio, abandoned interims and the end of both threads (`BuffersConserved`, `HeardInOrder`, `AbandonedNotFinalized`, `TeardownEnds`) | pool of two, chunks of two, three blocks of five: a block straddles three chunks, chunks straddle blocks, and the pool runs dry |
| `capture_pool` | no buffer lost (`PoolConserved`), no queue ever full for the party that pushes (`NothingRefused`), audio handed on in order, in full up to the length of a buffer, and with no block missing unless overflow was counted (`HeardFaithfully`), a stop or a fault releases the device (`StopReleases`) | pool of two buffers of three frames, native blocks of two, three and four, twelve frames: three blocks or more, so that a buffer is used again, the pool runs dry, and a block is shorter than a buffer, fits it or is cut |
| `windows_capture` | everything given back (`NothingHeld`), the timeline within a packet per idle gap of the endpoint (`LeadBounded`), silence after an error (`SilentAfterError`), stop returns (`StopReturns`), no wakeup lost (`PacketsRead`), a switched endpoint ends the session (`SwitchNoticed`) | packets of two, waits, blocks and polls of three, gap cap of three, one slot: a packet ends inside a wait, a block straddles packets, a slow thread loses one; six units of time, one switch |
| `mac_capture` | one format per session (`OneShape`), silence after a stop whose removal was not refused (`SilentAfterStop`), stop returns when the monitor calls it (`StopReturns`) | two buffers of at most three frames, batches and blocks of two: a buffer straddles a block and a batch, and the second can differ from the first |
| `status_bridge` | the webview ends at the newest status (`UpToDate`), never goes back (`NeverBackwards`), and releases every listener (`ListenersReleased`), once (`ReleasedOnce`) | two threads, two kinds of event, two changes: one to overtake the other. Each change has one event here; with more of either TLC needs more than its five minutes |

The code has no place that treats a third start, stop or fault differently from
the second: each keeps only its own generation, and the generation, not the
number of calls, decides. Every constant named `Max...` and the `segments`,
`fed`, `now`, `copies` of a scene are the only bounds on counters; in `RuntimeManager` the sets
of calls and tasks bound everything.

The invariants of the form "while nothing is under way" are about `AtRest`: no
call, watchdog, handler, attempt or callback is between two of its steps. They
say what the user finds once things have settled. `RecoveriesPaidFor` is
claimed for the first session: a source of a session that replaces another may
break before that session is stored, and its attempt is then charged to the
`RecoveryState` of the session that goes. Each passing run names in
`Events` (or its scenes, or `Stoppers`) what may happen at the same time, and its
result holds for exactly that: where a further event opens a window in which the
code breaks the property, section 4 names the instance that shows it.
`CapturingIsAlive` excepts by name the one defect it would otherwise meet
(`HeardBeforeFailure`; see `signal_before_failed_start`). `EveryFinalKept` and
`TimelineMonotone` are claimed where an abandoned worker ends before its
successor reads its context (`Orderly`), which the back-off is for;
`late_final_after_restart` shows the rest. `EveryFinalKept` excepts the id of an
utterance a fault broke off (`interim_id_reused`). `app_liveness` has no faults
and signals: with them, a start that replaces a session meets the deadlock of
`shutdown_deadlock` in its second form, and `StartingEnds` fails.

`SYMMETRY` is used only in runs without liveness. `CHECK_DEADLOCK FALSE`
everywhere: the calls, faults and inputs of an instance are finite in number and
the system rests after the last.

Every property of these runs has a mutation of the model, a plausible bug at that
place of the code, under which TLC finds it violated (the operators marked as
mutants).

## 4. Disagreements

Each of these instances checks one statement of the documents or of a comment
that the code does not keep, and TLC finds it violated. `shutdown_deadlock` is a
run of the project, with the quotation in `PROJECT.json`: `shutdown` joins, under
the session mutex, a thread whose handler waits for it; a first-signal callback
waits likewise, and a start that replaces a session joins likewise.

The others met on the way are kept as configurations to run by hand
(`tlc -config <name>.cfg <module>`):

| Configuration | Module | Statement | What happens |
|---|---|---|---|
| `error_while_reconnecting` | `MCRuntimeManager` | spec 10, line 143 | the slot of a reconnecting source is empty, so `commit_terminal` counts no survivor and captureStatus turns to error |
| `late_start_install` | `MCRuntimeManager` | spec 09, line 432 | a stop steps between a start's last check of the generation and its session section; the start installs its streams and commits Listening |
| `shutdown_during_start` | `MCRuntimeManager` | spec 10, line 173 | the same with `shutdown`: nothing releases the session |
| `stop_overtaken_by_start` | `MCRuntimeManager` | spec 10, line 169 | a stop that found the application not idle writes Stopping over a later start, finds itself superseded and leaves Stopping behind |
| `second_stop_commits_idle` | `MCCaptureApp` | spec 04, line 486 | a second stop has nothing to join and commits Idle while the first still joins |
| `stop_watchdog_next_session` | `MCCaptureApp` | comment at `manager.rs:1211` | the stopping watchdog, past its flag, writes Idle over the next session |
| `start_watchdog_other_source` | `MCRuntimeManager` | lifecycle policy, line 138 | the starting watchdog reports the microphone and leaves system audio Starting |
| `model_load_unwatched` | `MCRuntimeManager` | lifecycle policy, line 128 | the watchdog is armed only after the model is loaded |
| `signal_before_failed_start` | `MCCaptureApp` | spec 10, line 227 | the microphone is already receiving when system audio fails; it stays shown as receiving, even into a later start of system audio alone |
| `fault_before_install` | `MCRuntimeManager` | spec 10, line 227 | a fault before the session is stored is dropped, the source is shown as capturing |
| `starting_after_stop` | `MCCaptureApp` | spec 10, line 347 | a handler overtaken by a stop writes Starting into the idle application |
| `terminal_reenabled` | `MCRuntimeManager` | spec 10, line 140 | two reports of one outage: terminal by one, brought back by the other |
| `late_final_after_restart` | `MCTranscriptSession` | spec 10, line 153 | the old worker finalizes queued audio after the attempt read the last end |
| `interim_id_reused` | `MCTranscriptSession` | spec 10, line 380 | a worker that replaces one that broke in mid-utterance reuses the id of its interim row, and the reducer refuses its segments |
| `stop_drops_last_final` | `MCTranscriptSession` | comment at `manager.rs:302` | `on_final` drops the finals of a superseded generation, which a stop's are |
| `clear_drops_final` | `MCTranscriptSession` | spec 02, lines 28 and 361 | Clear decides by the rows of the last commit; a final dispatched since goes without a confirmation |
| `stop_misses_tail` | `ChunkPipeline` | lifecycle policy, line 86 | the tail chunk arrives between the worker's last receive and its look at `finished` |
| `fault_finalizes_interim` | `ChunkPipeline` | spec 10, line 151 | the monitor chooses its tail before the teardown sets `abandon` |
| `block_cut_short` | `CapturePool` | comment at `sink.rs:30`; spec 08, lines 21 and 485 | a block of a device above 48 kHz is cut to the buffer, and what is cut off is counted nowhere |
| `voided_block_stalls` | `CapturePool` | comment at `cpal_backend.rs:249` | nothing moves the cursor of a voided block, so the reset behind the full block is never reached and the microphone falls silent |
| `switch_before_poll` | `WindowsCapture` | comment at `capture.rs:486` | the poll state takes the default endpoint of its own moment: a switch since the stream was opened is never noticed |
| `idle_gap_uncapped` | `WindowsCapture` | comment at `config.rs:11`, spec 08, line 281 | the cap applies to each wait, not to the gap |
| `mac_shutdown_deadlock` | `MacCapture` | spec 10, line 180 | the deadlock of `shutdown_deadlock` inside the adapter: a callback that reports under `delivery` waits for the session mutex, and `stop` for the callback or for `delivery` |
| `mac_removal_refused` | `MacCapture` | comment at `stream.rs:162` | a removal that is refused is not noticed: the callbacks of the output go on after `stop` has discarded the tail |

Also met in `macos-system-audio`, without an instance: a buffer of another format
is reported but does not end the session, so the next one of the first format is
fed (`ChangeEndsSession` of `MacCapture`; comment at `output.rs:77`; spec 07, line
258); content that fails or does not come in time is reported as a denied
permission although it is granted (`DeniedMeansDenied`; spec 07, line 422); and
`on_error`, which `lib.rs:40` asks not to block, takes the manager's mutexes.

## 5. Fairness

`ProgramRuns` (`RuntimeManager`) gives weak fairness to the steps that wait for
nothing but a mutex or a timer: threads are preempted, critical sections are
short, and timers run out (watchdog, back-off). Weak fairness is enough for the
mutexes in these instances: once contention ends they stay free. Whether a
blocking call returns is assumed separately, because hanging drivers are what
the watchdogs are for: `AppSpecDriversMayHang` assumes nothing of the microphone
or of a stop's joins, `SpecMicMayHang` nothing of the microphone,
`SpecModelMayHang` nothing of the model loader, and `SpecFair` that all opening
calls return. No fairness is given to commands, faults, signals and clicks.

* `ChunkPipeline`: both threads are scheduled, a reported fault is handled and an
  abandon goes through; that anyone stops the source is not assumed.
* `CapturePool`: the same for the monitor and its owner. The device may fall
  silent, so nothing is assumed of the callback.
* `WindowsCapture`: the endpoint's clock runs, the capture thread is scheduled and
  `stop` polls for its end. No call fails because it must, nothing has to play.
* `MacCapture`: a call in progress is carried on, and a completion that does not
  come is ended by its timeout (`WF` of `StartCall`). Nothing obliges ScreenCaptureKit
  to refuse a removal. `SF` of `StopCall`,
  `Callback` and `Delegate`: they contend for `delivery`, and the mutex does not
  starve one of them for ever.
* `StatusBridge`: threads emit what they owe, the runtime answers, the event loop
  runs. Nobody has to change a status, to mount or to unmount.
* `TranscriptSession` has no liveness property and no fairness.

## 6. What is proved

For all values of the constants: any number of start calls, stop calls and
handlers, any attempt budget; any number of workers, segments, clears and copies;
any pool, chunk, block and packet size; any number of threads and kinds of event.
Every invariant and every safety property of the runs is the conclusion of a
theorem.

| Theorem | Statement |
|---|---|
| `RuntimeManager_proofs!TypeCorrect` | `Spec => []TypeOK` |
| `RuntimeManager_proofs!OwnershipInvariant` | the inductive invariant below |
| `RuntimeManager_proofs!PipelinesHaveOneOwner` | `Spec => []SingleOwner` |
| `RuntimeManager_proofs!StartIsAtomic` | `Spec => []AtomicStart` |
| `RuntimeManager_proofs!EveryRecoveryIsPaid` | `Spec => []RecoveriesPaidFor` |
| `RuntimeManager_proofs!NothingLeaks` | `Spec => []OnlySessionRuns` |
| `RuntimeManager_proofs!ManagerRefinesOwnership` | `Spec => RefinesOwnership` |
| `SessionStatus_proofs!StatusIsSettled` | `Spec => [](generation <= 1 => NothingPending)` |
| `SessionStatus_proofs!IdleHoldsNothing` | with `TimelyEvents`: `AppSpec => [](FirstSession /\ StopOnce => IdleIsReleased)` |
| `SessionStatus_proofs!ListeningHasASession` | with `TimelyEvents`: `AppSpec => [](FirstSession /\ StopOnce => ListeningIsAlive)` |
| `SessionStatus_proofs!StartsStand` | with `CalmEvents`: `AppSpec => [](StopOnce => StartStands)` |
| `SessionStatus_proofs!ErrorsAreDead` | with `CalmEvents`: `AppSpec => [](StopOnce => ErrorIsDead)` |
| `SessionStatus_proofs!CapturingSourcesRun` | with `CalmEvents`: `AppSpec => [](StopOnce => CapturingIsAlive)` |
| `TranscriptSession_proofs!FinalsAreKept` | `SessionSpec => []EveryFinalKept` |
| `TranscriptSession_proofs!TimelineIsMonotone` | `SessionSpec => []TimelineMonotone` |
| `TranscriptSession_proofs!FinalsAreStable` | `SessionSpec => FinalsNeverChange` |
| `TranscriptSession_proofs!CopiedIsHeld` | `SessionSpec => CopiedIsTrue` |
| `TranscriptSession_proofs!PendingCopiesAreAnswered` | `SessionSpec => []PendingIsAnswered` |
| `ChunkPipeline_proofs!TypeCorrect` | `Spec => []TypeOK`; the chunk being filled is never full between steps |
| `ChunkPipeline_proofs!BuffersAreConserved` | `Spec => []BuffersConserved` |
| `ChunkPipeline_proofs!HearsInOrder` | `Spec => []HeardInOrder` |
| `ChunkPipeline_proofs!AbandonedIsNotFinalized` | `Spec => []AbandonedNotFinalized` |
| `CapturePool_proofs!PoolIsConserved` | `Spec => []PoolConserved` |
| `CapturePool_proofs!NoQueueRefuses` | `Spec => []NothingRefused` |
| `CapturePool_proofs!AudioHeardFaithfully` | `Spec => []HeardFaithfully` |
| `StatusBridge_proofs!BridgeUpToDate` | `Spec => []UpToDate` |
| `StatusBridge_proofs!ListenersReleasedOnce` | `Spec => []ReleasedOnce` |
| `StatusBridge_proofs!WebviewNeverBackwards` | `Spec => NeverBackwards` |
| `WindowsCapture_proofs!LeadStaysBounded` | `Spec => []LeadBounded` |
| `WindowsCapture_proofs!EverythingGivenBack` | `Spec => []NothingHeld` |
| `WindowsCapture_proofs!NothingAfterError` | `Spec => SilentAfterError` |
| `MacCapture_proofs!SessionHasOneShape` | `Spec => []OneShape` |
| `MacCapture_proofs!NothingAfterStop` | `Spec => SilentAfterStop` |

Assumptions: the named `ASSUME`s of the modules (`ConstantAssumption`: start calls
and handlers are distinct, `NoPipe` is no pipeline; `PipelineAssumption`,
`PoolAssumption`, `WindowsAssumption`, `MacAssumption`: sizes are positive, bounds
are naturals; `BridgeAssumption`: a change emits at least one kind of event). TLC
evaluates each in the run of its module. The five theorems with `TimelyEvents` or
`CalmEvents` take that as a hypothesis; see *Status* below.

*Ownership.* `SingleOwner` is not inductive: it does not say which pipelines a
start has open at each of its steps, so the step that opens the system audio
could overwrite a live one. `Ownership` adds this: `StartOwns` (until it
installs, a start has open exactly the sources its program counter tells),
`TaskOwns` (an attempt has opened nothing before `opened`), `StopOwns` (a stop
holds nothing before it takes the session), `SlotsMatch` (a slot holds pipelines
of its source), and states single ownership per pipeline (`OneOwner`). The proof
goes action by action; lemmas treat together the steps that move one program
counter and touch no pipeline, and `Bystanders` says what a step of one process
leaves alone. Together they are the claim that matters most for this code: no
interleaving of any number of commands, faults and recoveries forgets a device
or closes it twice. What the generation checks miss (section 4) is who should
own a pipeline, never whether anybody does; `shutdown_during_start` is such a
case: the device has an owner, a session nobody will stop.

*Leaks.* An owner may be a call that has ended. `Accountable` excludes it: what is
being joined under the session mutex is joined by a thread that has the mutex
(`Swept`), and a stop holds pipelines only before and during its joins
(`HeldWhileJoining`). So while nothing is under way, only the session is left to
own anything, and this without any condition on events or calls.

*Charges.* `RecoveriesPaidFor` counts attempts. `Paid` says why the count goes up
only with the charge: no handler or start is of a later generation than the
manager's (`Dated`), no handler is past its check before a session is stored
(`NotYetOpen`), and nothing is earned back before a source was heard
(`Unearned`). A step that installs a session finds no attempt of its generation
under way; a step that charges adds at most its own.

*Refinement.* `FreshInvariant` adds what an opener has not yet opened; the
`StageDetermined` lemmas compute the stage of a pipeline from who holds it, which
`OneOwner` makes unique. Then each action of the manager is an abstract
hand-over or leaves every stage alone.

*Status.* The code compares generations, so after a second command a late step can
write a status nobody stands for; section 4 has an instance for each way. What
holds is proved for three kinds of behaviour.

* `StatusIsSettled`, in every run up to the second command. Until then every
  handler and call that matters is of generation 1 (`OneCommand`), a start that
  has stored its session finds it open (`OneSession`), and each transitional
  status has a call or an attempt that will answer it (`Explained`). It rests on
  `Traced` (no device is opened and no handler works for a source that was not
  asked for), which holds in every run, as does `CallbackRuns` (a first-signal
  callback is never under way on a joined pipeline).
* `IdleHoldsNothing` and `ListeningHasASession`, in the first session of the
  application, whatever breaks, recovers or panics in it. Stop is accepted while
  the session is open, and it, not the manager's fault handling, ends it
  (`OnlyStop`); only then may "idle" come back, and "listening" is the status of
  a start that has been answered and of no stop that has taken the session
  (`OnlyStart`). Beyond the first session this is false: a handler of the old
  session can write "error" into a start in flight, and a webview that still
  shows "idle" can then start once more.
* `StartsStand`, `ErrorsAreDead`, `CapturingSourcesRun`, in any number of sessions
  without faults. One command at a time works on the session (`OneAtATime`); the
  session is the one of the start that serves (`SessionHeld`); the status shown
  and the status of each source have someone to answer for them (`ShownHeld`,
  `SeenAlive`). Their conjunction `Calm` is inductive on top of what holds in
  every run (`Background`).

The hypotheses are the negations of events the code does not survive, and no run
satisfies them for want of behaviours: `app_recovery` and `app_commands` are
instances. `TimelyEvents` leaves out shutdown and the delays that wake a watchdog
(`stop_watchdog_next_session`, `shutdown_during_start`,
`start_watchdog_other_source`); `CalmEvents` also faults (`fault_before_install`,
`starting_after_stop`); `StopOnce` says that between two stops there was a start
(`second_stop_commits_idle`), which the Stop button ensures except for a second
click before the first has changed the status.

*Transcript.* `FinalsAreKept` and `TimelineIsMonotone` share `Accounted`. When an
abandoned worker ends before its successor reads the context (`Orderly`), one
worker at a time is active (`OneActive`) and `RecoveryState` is where that worker
is (`Continued`): the index one further while `on_final` has recorded but not
emitted. No row has an id the active worker has not come to, so its finals are
never refused (`RowsAccounted`), except under the id of an utterance a broken
worker left; what was emitted ended before the active worker's time
(`Timeline`). `FinalsAreStable` needs none of this and holds for slow workers too.
For copies, writes carry increasing request numbers, are answered in order, and
the newest, once written, is what the clipboard holds (`WritesInOrder`); so a
request that settles as the current one left its text there.

*Buffers.* `BuffersConserved` is inductive with `TypeOK`. `holds => HasRoom`
follows by counting: a buffer in the feeder's hands is not in the queue, so the
branch of the code that drops a chunk for want of room is never taken. The
argument for `PoolConserved` and `NothingRefused` is the same over four places of
a block (`PoolInv`), with `HoldsWhileUsed`: the monitor has a block in hand
exactly between `TakeBlock` and `Recycle`.

*Order of the audio.* `HeardFaithfully` speaks of `heard` only; `OrderInv` says
the same of everything that has passed the callback, in the order it will be
heard: `heard`, then the block in hand, then the queue (`Passed`), and where the
block in progress and the next frame join on. A step moves a block across a
border of that sequence and leaves the sequence as it is. The sequence is one of
the device's blocks, of which a block in a buffer is the beginning: `Kept` frames
of `Delivered`. `HeardInOrder` is the
same one level up, where chunks straddle blocks: `QueueOrdered` orders what was
heard, the chunk in hand, the queue and the chunk being filled, and
`NothingSkipped` says at which sample each begins while no drop was counted.

*Abandon.* `AbandonIsSeen` relates the flags to the places where the two threads
are: a worker that has not failed leaves its loop only if it saw `finished`, and
`abandoned` is set before it.

*Bridge.* `ReleaseInv`: an unlisten function is called in the step that releases
its listener. `ShownIsApplied`: what is shown is at most the shared revision
reference, which only grows; that is why the two mounts of StrictMode may share
it. `UpToDate` speaks of rest only. `Bridged` says what is promised meanwhile:
whatever a mount still waits for (an answer, an event in the queue, a thread
that has yet to read the status) will bring the newest status, or it is shown
already (`Covered`). It needs that nothing is ahead of the manager (`Behind`),
that one mount lives (`OneLives`), and that a mount which fetches has all its
listeners (`Listening`): an event emitted since cannot miss it.

*Windows.* `Grounded`, `PositionInv` (packets in the endpoint have ended and are
in order) and `ReadInv` (the expected position lies between the last packet read
and the next packet plus what was filled since; an idle fill is never longer
than the time waited) give the lead. `HeldInv` says what is held at each step of
the start. `ErrorInv` says an error is reported on the way out of the loop, and
`StartsOnce` that there is no way back in.

*macOS.* `ShapeInv`: frames are fed only with the shape of the session.
`CallbackInv`: a callback runs only while the output is registered, so after a
removal that was not refused nothing can be fed.

## 7. Only model-checked

Liveness, which is out of the prover's reach: `StartingEnds`, `StoppingEnds`,
`ReconnectingEnds`, `TeardownEnds`, `StopReleases`, `StopReturns` of both adapters,
`PacketsRead`, `SwitchNoticed`, `ListenersReleased`, and the counterexample to
`ShutdownEnds`. The violations of section 4 are TLC's as well.

The runs check the status invariants with the events and calls their
configurations list. The theorems need a little less: `manager_recovery` has one
start and no stop, so that its `generation` never exceeds 1; `app_recovery` is one
session with one stop; `app_commands` has no fault and one stop.

## 8. Not modelled

* The panic of a stop's teardown task (the call returns before it sets the
  completion flag). Panics of recovery attempts are modelled as the development
  profile has them; the release profile aborts on panic
  (`docs/lifecycle-policy.md` section 6).
* In `RuntimeManager`, a stop of the system adapter that gives up after its budget
  (`StopGivesUp` of `WindowsCapture` models it inside the adapter).
* The model cache: two starts over a cold cache load twice, and the model status.
* Back-off lengths, `LagWindow` and its reports. Which errors are retried is
  `FaultPolicy`. It has one table to which no run has anything to ask: a running
  macOS stream that changes its format reports `UnsupportedFormat`, which
  `map_audio_error` turns into `CaptureStartFailed` and flags unrecoverable, and
  which `classify_recovery` retries, although the comment at `supervisor.rs:32`
  has that code classified only during a recovery.
* Several sessions in one transcript, and both sources together: an instance that
  spans two sessions does not finish in TLC.
* Parsing of events and commands, revision numbers beyond 2^53, sample
  conversion and mixing, the 8 to 192 kHz bound of the Windows formats. Nor that
  the recognizer is opened for the constant 48 kHz of `sample_rate()` and takes
  the audio of a device of another rate for that (`manager.rs:761`).
* Microphone list and selection, recovery presentation, auto-follow, shortcuts,
  elapsed time; recognizer and model files; process wiring; benchmarks. Reasons
  are in `PROJECT.json`.

## 9. Plan

The order follows importance: who owns a device, what the user is shown, what is
heard, then the rest.

1. *Done*: `RuntimeManager`, `CaptureApp`, `SegmentContinuity`, `ChunkPipeline`,
   `PipelineOwnership` with the refinement, `CapturePool`, `StatusBridge`,
   `TranscriptSession`, `WindowsCapture`, `MacCapture`; the theorems of section 6.
2. *Done*: theorems for every safety property of the runs.
3. `MicrophoneList`: device-list answers out of order.
4. `RecoveryPolicy`: `backoff_for_attempt` and `LagWindow` as pure operators
   against the frozen policy, over bounded inputs.
5. Proofs: what the second session still keeps of `IdleIsReleased` and
   `ListeningIsAlive` once an outage of the first is over, and a safety promise
   behind `ReconnectingEnds` (an attempt that fails has a handler to go back to).
