---------------------------- MODULE VideoPipeline ----------------------------
(***************************************************************************)
(* VideoPipeline of src/omtencoder/src/video_pipeline.rs: the controller's *)
(* calls new, start, update_video, update_preview and stop, and the worker *)
(* thread they talk to through three atomic flags and two locks.  Every    *)
(* load, store and lock of a shared variable is a step of its own, but for *)
(* TestPreview, where the store follows the load at once: in between the   *)
(* controller could only set the flag that is set.                         *)
(*                                                                         *)
(* The settings and the preview settings are versions: what matters here   *)
(* is which update the worker has seen.  Capture, transform and encoding   *)
(* are their outcomes.                                                     *)
(*                                                                         *)
(* update_video and update_preview take their lock with blocking_write,    *)
(* which panics in a thread that runs the asynchronous runtime, and main   *)
(* calls them from one (main.rs:173,176).  The interface leaves the thread *)
(* of a call open, and so does this module: a call panics or proceeds.     *)
(***************************************************************************)
EXTENDS Integers

CONSTANTS
  MaxUpdates,       \* bound on the updates of each of the two settings
  ErrorLimit        \* consecutive bad reads that restart capture (20)

ASSUME MaxUpdatesAssumption == MaxUpdates \in Nat
ASSUME ErrorLimitAssumption == ErrorLimit \in Nat \ {0}

VARIABLES
  running,            \* the flag the worker loops on
  restartRequested,   \* update_video / stop -> worker: leave the capture loop
  previewRequested,   \* update_preview / stop -> worker: rebuild the sinks
  settings,           \* version of the video settings behind the lock
  preview,            \* version of the preview settings behind the lock
  caller,             \* where the controller is in the call it makes
  updaterAlive,       \* FALSE once an update call has panicked
  pc,                 \* where the worker thread is
  cfg,                \* current_settings: what run_video_loop was given
  seen,               \* current_preview: the last version the worker read
  sinks,              \* version the preview sinks were built from, or None
  transform,          \* a transform process is used by this capture
  captureErrors       \* consecutive_capture_errors

flags == <<running, restartRequested, previewRequested>>
locked == <<settings, preview>>
control == <<caller, updaterAlive>>
capture == <<transform, captureErrors>>
vars == <<flags, locked, control, pc, cfg, seen, sinks, capture>>

None == -1

Setup == {"readSettings", "clearRestart", "clearPreview", "open",
          "readPreview", "build"}
Loop == {"testRunning", "testRestart", "testPreview", "reread", "rebuild",
         "hotplug", "hotplugDecide", "capture", "recheckRestart",
         "recheckPreview", "process"}
WorkerPC == {"unborn", "top", "cleanup", "exited"} \cup Setup \cup Loop
CallerPC == {"new", "idle", "flagVideo", "flagPreview", "stopRestart",
             "stopPreview", "join", "joined"}

(***************************************************************************)
(* VideoPipeline::new: nothing is running, no thread yet.                  *)
(***************************************************************************)
Init ==
  /\ running = FALSE /\ restartRequested = FALSE /\ previewRequested = FALSE
  /\ settings = 0 /\ preview = 0
  /\ caller = "new" /\ updaterAlive = TRUE
  /\ pc = "unborn"
  /\ cfg = None /\ seen = 0 /\ sinks = None
  /\ transform = FALSE /\ captureErrors = 0

-----------------------------------------------------------------------------
(***************************************************************************)
(* The controller.  It owns the pipeline behind a mutex, so its calls      *)
(* follow one another.                                                     *)
(***************************************************************************)
Start ==
  /\ caller = "new"
  /\ caller' = "idle"
  /\ running' = TRUE
  /\ pc' = "top"
  /\ UNCHANGED <<restartRequested, previewRequested, locked, updaterAlive,
                 cfg, seen, sinks, capture>>

\* blocking_write on a runtime thread: the panic comes before the write.
UpdatePanics ==
  /\ caller = "idle" /\ updaterAlive
  /\ updaterAlive' = FALSE
  /\ UNCHANGED <<flags, locked, caller, pc, cfg, seen, sinks, capture>>

UpdateVideoWrite ==
  /\ caller = "idle" /\ updaterAlive
  /\ settings < MaxUpdates
  /\ settings' = settings + 1
  /\ caller' = "flagVideo"
  /\ UNCHANGED <<flags, preview, updaterAlive, pc, cfg, seen, sinks, capture>>

UpdateVideoFlag ==
  /\ caller = "flagVideo"
  /\ restartRequested' = TRUE
  /\ caller' = "idle"
  /\ UNCHANGED <<running, previewRequested, locked, updaterAlive, pc, cfg, seen,
                 sinks, capture>>

UpdatePreviewWrite ==
  /\ caller = "idle" /\ updaterAlive
  /\ preview < MaxUpdates
  /\ preview' = preview + 1
  /\ caller' = "flagPreview"
  /\ UNCHANGED <<flags, settings, updaterAlive, pc, cfg, seen, sinks, capture>>

\* Mutant: update_preview forgets to store the flag.
UpdatePreviewWithoutFlag ==
  /\ caller = "flagPreview"
  /\ caller' = "idle"
  /\ UNCHANGED <<flags, locked, updaterAlive, pc, cfg, seen, sinks, capture>>

UpdatePreviewFlag ==
  /\ caller = "flagPreview"
  /\ previewRequested' = TRUE
  /\ caller' = "idle"
  /\ UNCHANGED <<running, restartRequested, locked, updaterAlive, pc, cfg, seen,
                 sinks, capture>>

\* stop: three stores, then the join.  The loop that dies of a panic leaves
\* the mutex usable, so the shutdown path can still call stop.
StopRunning ==
  /\ caller = "idle"
  /\ running' = FALSE
  /\ caller' = "stopRestart"
  /\ UNCHANGED <<restartRequested, previewRequested, locked, updaterAlive, pc,
                 cfg, seen, sinks, capture>>

StopRestart ==
  /\ caller = "stopRestart"
  /\ restartRequested' = TRUE
  /\ caller' = "stopPreview"
  /\ UNCHANGED <<running, previewRequested, locked, updaterAlive, pc, cfg, seen,
                 sinks, capture>>

StopPreview ==
  /\ caller = "stopPreview"
  /\ previewRequested' = TRUE
  /\ caller' = "join"
  /\ UNCHANGED <<running, restartRequested, locked, updaterAlive, pc, cfg, seen,
                 sinks, capture>>

Join ==
  /\ caller = "join"
  /\ pc = "exited"
  /\ caller' = "joined"
  /\ UNCHANGED <<flags, locked, updaterAlive, pc, cfg, seen, sinks, capture>>

Controller ==
  \/ Start \/ UpdatePanics
  \/ UpdateVideoWrite \/ UpdateVideoFlag
  \/ UpdatePreviewWrite \/ UpdatePreviewFlag
  \/ StopRunning \/ StopRestart \/ StopPreview \/ Join

-----------------------------------------------------------------------------
(***************************************************************************)
(* The worker: the thread body of start, and run_video_loop inside it.     *)
(* It never writes running, settings or preview.                           *)
(***************************************************************************)
OwnedByCaller == UNCHANGED <<running, locked, control>>

Goto(from, to) == pc = from /\ pc' = to

Top ==
  /\ Goto("top", IF running THEN "readSettings" ELSE "exited")
  /\ OwnedByCaller
  /\ UNCHANGED <<restartRequested, previewRequested, cfg, seen, sinks, capture>>

ReadSettings ==
  /\ Goto("readSettings", "clearRestart")
  /\ cfg' = settings
  /\ OwnedByCaller
  /\ UNCHANGED <<restartRequested, previewRequested, seen, sinks, capture>>

ClearRestart ==
  /\ Goto("clearRestart", "clearPreview")
  /\ restartRequested' = FALSE
  /\ OwnedByCaller
  /\ UNCHANGED <<previewRequested, cfg, seen, sinks, capture>>

ClearPreview ==
  /\ Goto("clearPreview", "open")
  /\ previewRequested' = FALSE
  /\ OwnedByCaller
  /\ UNCHANGED <<restartRequested, cfg, seen, sinks, capture>>

\* The device opens and a source and perhaps a transform start ...
OpenOk ==
  /\ Goto("open", "readPreview")
  /\ transform' \in BOOLEAN
  /\ OwnedByCaller
  /\ UNCHANGED <<restartRequested, previewRequested, cfg, seen, sinks,
                 captureErrors>>

\* ... or run_video_loop returns, and the thread tries again after 200 ms.
OpenFails ==
  /\ Goto("open", "top")
  /\ OwnedByCaller
  /\ UNCHANGED <<restartRequested, previewRequested, cfg, seen, sinks, capture>>

\* Mutant: the hotplug check uses the settings the pipeline was created with.
ReadPreviewOnce ==
  /\ \/ Goto("readPreview", "build")
     \/ Goto("reread", "rebuild")
     \/ Goto("hotplug", "hotplugDecide")
  /\ seen' = IF pc = "hotplug" THEN 0 ELSE preview
  /\ OwnedByCaller
  /\ UNCHANGED <<restartRequested, previewRequested, cfg, sinks, capture>>

ReadPreview ==
  /\ \/ Goto("readPreview", "build")
     \/ Goto("reread", "rebuild")
     \/ Goto("hotplug", "hotplugDecide")
  /\ seen' = preview
  /\ OwnedByCaller
  /\ UNCHANGED <<restartRequested, previewRequested, cfg, sinks, capture>>

BuildSinks ==
  /\ Goto("build", "testRunning")
  /\ sinks' = seen
  /\ captureErrors' = 0
  /\ OwnedByCaller
  /\ UNCHANGED <<restartRequested, previewRequested, cfg, seen, transform>>

\* Mutant: the capture loop relies on the restart flag alone.
TestRunningNot ==
  /\ Goto("testRunning", "testRestart")
  /\ OwnedByCaller
  /\ UNCHANGED <<restartRequested, previewRequested, cfg, seen, sinks, capture>>

TestRunning ==
  /\ Goto("testRunning", IF running THEN "testRestart" ELSE "cleanup")
  /\ OwnedByCaller
  /\ UNCHANGED <<restartRequested, previewRequested, cfg, seen, sinks, capture>>

TestRestart ==
  /\ Goto("testRestart", IF restartRequested THEN "cleanup" ELSE "testPreview")
  /\ OwnedByCaller
  /\ UNCHANGED <<restartRequested, previewRequested, cfg, seen, sinks, capture>>

\* The flag is cleared before the preview settings are read again.
TestPreview ==
  /\ \/ previewRequested /\ Goto("testPreview", "reread")
     \/ ~previewRequested /\ Goto("testPreview", "capture")
     \/ ~previewRequested /\ Goto("testPreview", "hotplug")   \* every 2 s
  /\ previewRequested' = FALSE
  /\ OwnedByCaller
  /\ UNCHANGED <<restartRequested, cfg, seen, sinks, capture>>

\* Mutant: the request is cleared when it has been carried out.
RebuildSinksThenClear ==
  /\ Goto("rebuild", "capture")
  /\ sinks' = seen
  /\ previewRequested' = FALSE
  /\ OwnedByCaller
  /\ UNCHANGED <<restartRequested, cfg, seen, capture>>

\* stop_preview_sinks joins the old workers before new ones are spawned.
RebuildSinks ==
  /\ Goto("rebuild", "capture")
  /\ sinks' = seen
  /\ OwnedByCaller
  /\ UNCHANGED <<restartRequested, previewRequested, cfg, seen, capture>>

\* The connected HDMI outputs have changed, or they have not.
Hotplug ==
  /\ \/ Goto("hotplugDecide", "rebuild")
     \/ Goto("hotplugDecide", "capture")
  /\ OwnedByCaller
  /\ UNCHANGED <<restartRequested, previewRequested, cfg, seen, sinks, capture>>

-----------------------------------------------------------------------------
(***************************************************************************)
(* source.next_frame: a frame, no frame, or an error.  It may also not     *)
(* return at all, for it waits as long as the device has no frame.         *)
(***************************************************************************)
FrameRead ==
  /\ Goto("capture", "recheckRestart")
  /\ captureErrors' = 0
  /\ OwnedByCaller
  /\ UNCHANGED <<restartRequested, previewRequested, cfg, seen, sinks,
                 transform>>

NoFrame ==
  /\ Goto("capture", "testRunning")
  /\ captureErrors' = 0
  /\ OwnedByCaller
  /\ UNCHANGED <<restartRequested, previewRequested, cfg, seen, sinks, transform>>

\* Mutant: one error too many.
ReadFailsTooOften ==
  /\ Goto("capture", IF captureErrors > ErrorLimit THEN "cleanup"
                     ELSE "testRunning")
  /\ captureErrors' = captureErrors + 1
  /\ OwnedByCaller
  /\ UNCHANGED <<restartRequested, previewRequested, cfg, seen, sinks, transform>>

ReadFails ==
  /\ Goto("capture", IF captureErrors + 1 >= ErrorLimit THEN "cleanup"
                     ELSE "testRunning")
  /\ captureErrors' = captureErrors + 1
  /\ OwnedByCaller
  /\ UNCHANGED <<restartRequested, previewRequested, cfg, seen, sinks, transform>>

CaptureReturns == FrameRead \/ NoFrame \/ ReadFails

RecheckRestart ==
  /\ Goto("recheckRestart", IF restartRequested THEN "cleanup"
                            ELSE "recheckPreview")
  /\ OwnedByCaller
  /\ UNCHANGED <<restartRequested, previewRequested, cfg, seen, sinks, capture>>

\* A pending preview change drops the frame and is handled at the loop's top.
RecheckPreview ==
  /\ Goto("recheckPreview", IF previewRequested THEN "testRunning" ELSE "process")
  /\ OwnedByCaller
  /\ UNCHANGED <<restartRequested, previewRequested, cfg, seen, sinks, capture>>

\* The frame goes through the transform, if any, to the encoders and sinks:
\* write_all, read_exact and read_frame on the pipes of ffmpeg children.
FrameDone ==
  /\ Goto("process", "testRunning")
  /\ OwnedByCaller
  /\ UNCHANGED <<restartRequested, previewRequested, cfg, seen, sinks,
                 transform, captureErrors>>

ShortFrame ==
  /\ transform
  /\ Goto("process", IF captureErrors + 1 >= ErrorLimit THEN "cleanup"
                     ELSE "testRunning")
  /\ captureErrors' = captureErrors + 1
  /\ OwnedByCaller
  /\ UNCHANGED <<restartRequested, previewRequested, cfg, seen, sinks, transform>>

TransformFails ==
  /\ transform
  /\ Goto("process", "cleanup")
  /\ OwnedByCaller
  /\ UNCHANGED <<restartRequested, previewRequested, cfg, seen, sinks, capture>>

\* The end of run_video_loop: the sinks are stopped and their workers joined,
\* the transform is killed.
Cleanup ==
  /\ Goto("cleanup", "top")
  /\ sinks' = None
  /\ transform' = FALSE
  /\ captureErrors' = 0
  /\ OwnedByCaller
  /\ UNCHANGED <<restartRequested, previewRequested, cfg, seen>>

\* The steps that depend on nothing outside the process ...
Compute ==
  \/ Top \/ ReadSettings \/ ClearRestart \/ ClearPreview
  \/ ReadPreview \/ BuildSinks \/ TestRunning \/ TestRestart \/ TestPreview
  \/ Hotplug \/ RecheckRestart \/ RecheckPreview

\* ... and those that return when a device, a child process or a preview
\* worker, which may wait for one, lets them.
Waiting ==
  \/ CaptureReturns \/ FrameDone \/ ShortFrame \/ TransformFails
  \/ RebuildSinks \/ Cleanup

Worker == Compute \/ Waiting \/ OpenOk \/ OpenFails

Terminated == caller = "joined" /\ UNCHANGED vars

Next == Controller \/ Worker \/ Terminated

Spec == Init /\ [][Next]_vars

(***************************************************************************)
(* Fairness.  The worker is a thread the operating system schedules, and a *)
(* controller in the middle of a call finishes it.  Opening the device     *)
(* returns, and one that is tried again and again succeeds some time.      *)
(* Nothing is asked of Waiting: WaitsForEver is an exception of the        *)
(* properties instead.                                                     *)
(***************************************************************************)
MidCall == UpdateVideoFlag \/ UpdatePreviewFlag \/ StopRestart \/ StopPreview

Scheduling == WF_vars(Compute) /\ WF_vars(MidCall) /\ WF_vars(Join)

OpensSometime == WF_vars(OpenOk \/ OpenFails) /\ SF_vars(OpenOk)

FairSpec == Spec /\ Scheduling /\ OpensSometime

\* A read of the device, a child's pipe or the join of a preview worker that
\* does not return.
WaitsForEver ==
  \E place \in {"capture", "process", "rebuild", "cleanup"} :
    <>[](pc = place)

-----------------------------------------------------------------------------
FlagsTyped ==
  /\ running \in BOOLEAN
  /\ restartRequested \in BOOLEAN
  /\ previewRequested \in BOOLEAN
  /\ updaterAlive \in BOOLEAN
  /\ transform \in BOOLEAN

StateTyped ==
  /\ settings \in 0..MaxUpdates
  /\ preview \in 0..MaxUpdates
  /\ caller \in CallerPC
  /\ pc \in WorkerPC
  /\ cfg \in {None} \cup 0..MaxUpdates
  /\ seen \in 0..MaxUpdates
  /\ sinks \in {None} \cup 0..MaxUpdates
  /\ captureErrors \in 0..ErrorLimit

TypeOK == FlagsTyped /\ StateTyped

\* A version the worker holds is the current one, or a request to look again
\* is pending, or the controller is about to make that request.
Fresh(version) ==
  version = preview \/ previewRequested \/ caller = "flagPreview"

(***************************************************************************)
(* No preview change is lost: wherever the capture loop is, except while   *)
(* it is replacing them, the sinks show the current preview settings or    *)
(* the loop still has a request to rebuild them (update_preview against    *)
(* the clear-then-read of video_pipeline.rs:1625-1640 and 1278/1525).      *)
(***************************************************************************)
PreviewNotLost == pc \in Loop \ {"reread", "rebuild"} => Fresh(sinks)

(***************************************************************************)
(* The preview settings are live settings: the sinks are what is in        *)
(* effect, and they follow the newest version (update_preview,             *)
(* video_pipeline.rs:125-131).                                             *)
(***************************************************************************)
PreviewLive == INSTANCE LiveSettings
                 WITH MaxVersion <- MaxUpdates, latest <- preview,
                      effect <- sinks, open <- running

\* The worker never builds sinks from preview settings older than the ones
\* it shows, nor from any that nobody published.
PreviewImplementsLiveSettings == PreviewLive!LSSpec

\* A preview change shows in the sinks, or the pipeline is stopped, unless the
\* worker waits for ever (video_pipeline.rs:125-131, 1625-1669).
PreviewTimely == PreviewLive!Timely \/ WaitsForEver

(***************************************************************************)
(* stop returns: the worker leaves run_video_loop and its thread ends      *)
(* wherever it was when the three flags were stored, even when it clears   *)
(* two of them itself (video_pipeline.rs:133-143, 1277-1278) - unless it   *)
(* waits for ever in a read of the device (:1685), for a child (:1744,     *)
(* :1879, :1924) or for a preview worker (:2016), none of which a flag     *)
(* ends.                                                                   *)
(***************************************************************************)
StopReturns == (caller = "stopRestart" ~> caller = "joined") \/ WaitsForEver

=============================================================================
