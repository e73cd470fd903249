----------------------------- MODULE FaultPolicy -----------------------------
(***************************************************************************)
(* What becomes of an error on its way to the supervisor.  An adapter      *)
(* reports an error of its own, which is mapped to an AudioErrorKind, that *)
(* to the RuntimeErrorCode the user sees, and classify_recovery decides by *)
(* the code alone whether the source may be retried.  The tables decide    *)
(* which threads can start a recovery at all: an error that reaches the    *)
(* supervisor under another code is retried, or given up, by mistake.      *)
(***************************************************************************)

Platforms == {"macos", "windows"}

(* map_audio_error, the microphone                                         *)
MicrophoneCode ==
  [PermissionDenied   |-> "MicrophonePermissionDenied",
   Unavailable        |-> "MicrophoneUnavailable",
   DeviceDisconnected |-> "DeviceDisconnected",
   UnsupportedFormat  |-> "CaptureStartFailed",
   StartFailed        |-> "CaptureStartFailed",
   StopFailed         |-> "CaptureStopFailed",
   QueueOverflow      |-> "AudioQueueOverflow",
   Internal           |-> "Internal"]

AudioErrorKinds == DOMAIN MicrophoneCode

(* map_audio_error, system audio: two kinds depend on the platform, and    *)
(* what is unavailable on macOS may be too old a version.                  *)
SystemCodes(platform, kind) ==
  CASE kind = "PermissionDenied" ->
         {IF platform = "macos" THEN "SystemAudioPermissionDenied" ELSE "Internal"}
    [] kind = "Unavailable" ->
         {"SystemAudioUnavailable"} \cup (IF platform = "macos" THEN {"UnsupportedPlatform"} ELSE {})
    [] OTHER -> {MicrophoneCode[kind]}

(* map_asr_error                                                           *)
AsrCode ==
  [ModelMissing       |-> "ModelMissing",
   ModelUnsupported   |-> "ModelUnsupported",
   ModelLoadFailed    |-> "ModelLoadFailed",
   StreamCreateFailed |-> "CaptureStartFailed",
   DecodeFailed       |-> "Internal",
   Internal           |-> "Internal"]

(* classify_recovery: every other code is Terminal                         *)
Recoverable(code) ==
  code \in {"DeviceDisconnected", "SystemAudioUnavailable", "MicrophoneUnavailable",
            "CaptureStartFailed"}

(* map_macos_error                                                         *)
MacKind ==
  [PermissionDenied          |-> "PermissionDenied",
   PermissionRequiresRestart |-> "PermissionDenied",
   Unsupported               |-> "Unavailable",
   NoCaptureContent          |-> "Unavailable",
   UnsupportedFormat         |-> "UnsupportedFormat",
   StartFailed               |-> "StartFailed",
   StopFailed                |-> "StopFailed",
   StreamStopped             |-> "Unavailable",
   Internal                  |-> "Internal"]

(* map_windows_error_kind                                                  *)
WindowsKind ==
  [Unsupported       |-> "Unavailable",
   NoRenderEndpoint  |-> "Unavailable",
   AudioServiceDown  |-> "Unavailable",
   UnsupportedFormat |-> "UnsupportedFormat",
   StartFailed       |-> "StartFailed",
   StopFailed        |-> "StopFailed",
   DeviceInvalidated |-> "DeviceDisconnected",
   EndpointChanged   |-> "DeviceDisconnected",
   Internal          |-> "Internal"]

-----------------------------------------------------------------------------
(* What a running source reports.  Either monitor: a block of the wrong    *)
(* source, a pool that refuses a buffer, a contained panic.                *)
MonitorKinds == {"Internal"}

\* the microphone's monitor, of a stream that cpal reported broken
DeviceKinds == {"DeviceDisconnected"}

\* the sink of a running macOS stream (output.rs)
MacRunningKinds == {MacKind[native] : native \in {"StreamStopped", "UnsupportedFormat"}}

\* the sink of the running Windows capture thread (capture_loop)
WindowsRunningKinds ==
  {WindowsKind[native] : native \in {"EndpointChanged", "DeviceInvalidated",
                                     "NoRenderEndpoint", "Internal"}}

\* RuntimeAsrObserver.on_error
WorkerKind(asrKind) == IF asrKind = "StreamCreateFailed" THEN "StartFailed" ELSE "Internal"

\* what a running worker reports: an error of the recognizer, or a contained panic
WorkerKinds == {WorkerKind(asrKind) : asrKind \in {"DecodeFailed", "Internal"}}

CodesOf(source, kinds) ==
  IF source = "microphone"
  THEN {MicrophoneCode[kind] : kind \in kinds}
  ELSE UNION {SystemCodes(platform, kind) : platform \in Platforms, kind \in kinds}

RunningCodes(source, thread) ==
  CASE thread = "worker" -> CodesOf(source, WorkerKinds)
    [] source = "microphone" -> CodesOf(source, MonitorKinds \cup DeviceKinds)
    [] OTHER -> CodesOf(source, MonitorKinds)
                \cup UNION {SystemCodes("macos", kind) : kind \in MacRunningKinds}
                \cup UNION {SystemCodes("windows", kind) : kind \in WindowsRunningKinds}

\* what an attempt to open a source again fails with: an error of the backend,
\* one of the recognizer, or a start task that panicked
OpeningCodes(source) ==
  CodesOf(source, AudioErrorKinds) \cup {AsrCode[k] : k \in DOMAIN AsrCode} \cup {"Internal"}

(* Whether a fault with one of the codes may be retried                    *)
Decisions(codes) == {Recoverable(code) : code \in codes}

\* of a running source, by the thread that reports it
FaultRetries(source, thread) == Decisions(RunningCodes(source, thread))

\* of an attempt to open a source again
OpeningRetries(source) == Decisions(OpeningCodes(source))
=============================================================================
