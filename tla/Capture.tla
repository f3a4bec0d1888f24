------------------------------- MODULE Capture -------------------------------
(***************************************************************************)
(* Where the pictures of the capture loop come from, and how they get to   *)
(* the HDMI monitor (src/omtencoder/src/video_pipeline.rs).                *)
(*                                                                         *)
(* MplaneCapture has a ring of buffers that travel between the driver and  *)
(* the loop.  With auto_hdmi_monitor a mirror lets the display scan out    *)
(* the very buffers: next_frame takes a filled buffer, shows it, copies it *)
(* for the encoders, and gives it back to the driver while it is shown.    *)
(* Without a mirror the HDMI outputs are preview sinks, built anew when    *)
(* the preview settings or the connected outputs change.                   *)
(*                                                                         *)
(* The other two sources (single-planar V4L2, an ffmpeg child) are their   *)
(* outcomes.  Formats, sizes and rates are left out.                       *)
(***************************************************************************)
EXTENDS Integers, Sequences

CONSTANTS
  Buffers,       \* number of buffers the driver grants (4 are asked for)
  MirrorLimit,   \* consecutive failures that end the mirror (120)
  ErrorLimit,    \* consecutive failed reads that restart the capture (20)
  Explicit,      \* a framebuffer is among the configured preview outputs
  MaxLost        \* bound on the buffers a failed VIDIOC_QBUF, or an index out
                 \* of range, loses

ASSUME BuffersAssumption == Buffers \in Nat \ {0, 1}
ASSUME LimitsAssumption ==
  MirrorLimit \in Nat \ {0} /\ ErrorLimit \in Nat \ {0} /\ MaxLost \in Nat
ASSUME ExplicitAssumption == Explicit \in BOOLEAN

VARIABLES
  running,       \* the flag of the worker
  auto,          \* preview.auto_hdmi_monitor
  requested,     \* preview_restart_requested
  outputs,       \* an HDMI output is connected
  pc,            \* where the loop is
  source,        \* what frames are read from
  queued,        \* buffers the driver has to fill, in order
  filling,       \* the buffer it writes to
  filled,        \* buffers that wait for the loop
  held,          \* the buffer the loop has
  lost,          \* number of buffers that could not be given back
  mirror,        \* the DRM mirror is in use
  mirrorErrors,  \* mirror_errors
  shown,         \* the buffer the display scans out
  errors,        \* consecutive_capture_errors
  suppress,      \* suppress_auto_hdmi_preview
  sinks,         \* auto_hdmi_monitor has a preview sink on an HDMI output
  detected,      \* last_detected_hdmi_outputs
  missed         \* history: the outputs changed between the building of the
                 \* sinks and the note of what is connected

environment == <<running, auto, requested, outputs>>
ring == <<queued, filling, filled, held, lost>>
monitor == <<mirror, mirrorErrors, shown>>
preview == <<suppress, sinks, detected, missed>>
vars == <<environment, pc, source, ring, monitor, errors, preview>>

BufferIds == 1..Buffers
None == 0
Sources == {"none", "v4l", "mplane", "ffmpeg"}

\* The ring with the buffers given to the driver, none with anyone else.
Ring(order) ==
  /\ queued' = order
  /\ filling' = None /\ filled' = <<>> /\ held' = None
  /\ lost' = 0

Init ==
  /\ running = TRUE
  /\ auto \in BOOLEAN /\ outputs \in BOOLEAN
  /\ requested = FALSE
  /\ pc = "closed" /\ source = "none"
  /\ queued = <<>> /\ filling = None /\ filled = <<>> /\ held = None
  /\ lost = 0
  /\ mirror = FALSE /\ mirrorErrors = 0 /\ shown = None
  /\ errors = 0
  /\ suppress = FALSE /\ sinks = FALSE /\ detected = FALSE /\ missed = FALSE

-----------------------------------------------------------------------------
(***************************************************************************)
(* Opening: single-planar V4L2 if the device has such a format, else       *)
(* MplaneCapture, else ffmpeg.  The mirror, and the flag that keeps HDMI   *)
(* sinks from being built beside it, are decided here.                     *)
(***************************************************************************)
OpenAs(kind) ==
  /\ pc = "closed" /\ running
  /\ pc' = "build"
  /\ source' = kind
  /\ errors' = 0
  /\ UNCHANGED <<environment, sinks, detected, missed>>

OpenV4l ==
  /\ OpenAs("v4l")
  /\ suppress' = FALSE
  /\ UNCHANGED <<ring, monitor>>

OpenMplane ==
  /\ OpenAs("mplane")
  /\ suppress' = auto
  /\ mirror' \in IF auto THEN BOOLEAN ELSE {FALSE}
  /\ mirrorErrors' = 0 /\ shown' = None
  /\ Ring([i \in BufferIds |-> i])

OpenFfmpeg ==
  /\ OpenAs("ffmpeg")
  /\ suppress' = auto
  /\ UNCHANGED <<ring, monitor>>

\* No device, no stream, no ffmpeg: the worker tries again.
OpenFails ==
  /\ pc = "closed" /\ running
  /\ UNCHANGED vars

WorkerEnds ==
  /\ pc = "closed" /\ ~running
  /\ pc' = "ended"
  /\ UNCHANGED <<environment, source, ring, monitor, errors, preview>>

-----------------------------------------------------------------------------
(***************************************************************************)
(* The preview sinks on HDMI outputs.  build_preview_sinks looks for the   *)
(* connected outputs itself; last_detected_hdmi_outputs is read after it.  *)
(***************************************************************************)
WantsSinks == auto /\ ~suppress /\ outputs

\* Mutant: the sinks are built beside the mirror.
BuildBesideMirror == sinks' = (auto /\ outputs)

BuildHdmiSinks == sinks' = WantsSinks

BuildSinks ==
  /\ pc = "build"
  /\ BuildHdmiSinks
  /\ missed' = FALSE
  /\ pc' = "detect"
  /\ UNCHANGED <<environment, source, ring, monitor, errors, suppress,
                 detected>>

NoteOutputs ==
  /\ pc = "detect"
  /\ detected' = outputs
  /\ pc' = "top"
  /\ UNCHANGED <<environment, source, ring, monitor, errors, suppress, sinks,
                 missed>>

\* The flag, reset before the settings are read (VideoPipeline has the race).
PreviewRequested ==
  /\ pc = "top" /\ running /\ requested
  /\ requested' = FALSE
  /\ BuildHdmiSinks
  /\ missed' = FALSE
  /\ pc' = "detectAgain"
  /\ UNCHANGED <<running, auto, outputs, source, ring, monitor, errors,
                 suppress, detected>>

NoteOutputsAgain ==
  /\ pc = "detectAgain"
  /\ detected' = outputs
  /\ pc' = "next"
  /\ UNCHANGED <<environment, source, ring, monitor, errors, suppress, sinks,
                 missed>>

\* Every two seconds, and only if someone is interested.
Interested == (auto /\ ~suppress) \/ Explicit \/ detected

HotplugSeen ==
  /\ pc = "top" /\ running /\ ~requested
  /\ Interested /\ outputs # detected
  /\ detected' = outputs
  /\ missed' = FALSE
  /\ pc' = "rebuild"
  /\ UNCHANGED <<environment, source, ring, monitor, errors, suppress, sinks>>

\* Mutant: the change is noted, the sinks stay.
RebuildNot ==
  /\ pc = "rebuild"
  /\ pc' = "next"
  /\ UNCHANGED <<environment, source, ring, monitor, errors, preview>>

Rebuild ==
  /\ pc = "rebuild"
  /\ BuildHdmiSinks
  /\ pc' = "next"
  /\ UNCHANGED <<environment, source, ring, monitor, errors, suppress,
                 detected, missed>>

\* No change, or not yet two seconds since the last look.
ReadNext ==
  /\ pc = "top" /\ running /\ ~requested
  /\ pc' = "next"
  /\ UNCHANGED <<environment, source, ring, monitor, errors, preview>>

\* The flag is down, or update_video asks for a restart.
Leave ==
  /\ pc = "top"
  /\ pc' = "close"
  /\ UNCHANGED <<environment, source, ring, monitor, errors, preview>>

-----------------------------------------------------------------------------
(***************************************************************************)
(* MplaneCapture::next_frame: dequeue, show, copy, queue again.  Without a *)
(* filled buffer it tries again every millisecond, whatever the flags say. *)
(***************************************************************************)
Dequeue ==
  /\ pc = "next" /\ source = "mplane" /\ filled # <<>>
  /\ held' = Head(filled)
  /\ filled' = Tail(filled)
  /\ pc' = IF mirror THEN "show" ELSE "requeue"
  /\ UNCHANGED <<environment, source, queued, filling, lost, monitor, errors,
                 preview>>

SetPlane ==
  /\ pc = "show"
  /\ shown' = held
  /\ mirrorErrors' = 0
  /\ pc' = "requeue"
  /\ UNCHANGED <<environment, source, ring, mirror, errors, preview>>

\* Mutant: the failure is not counted.
SetPlaneFailsUncounted ==
  /\ pc = "show"
  /\ pc' = "requeue"
  /\ UNCHANGED <<environment, source, ring, monitor, errors, preview>>

\* Mutant: the failure is returned at once, and the buffer not given back.
SetPlaneFailsEarly ==
  /\ pc = "show"
  /\ held' = None
  /\ pc' = "top"
  /\ UNCHANGED <<environment, source, queued, filling, filled, lost, monitor,
                 errors, preview>>

\* Mutant: one failure too many is borne.
SetPlaneFailsTooOften ==
  /\ pc = "show"
  /\ pc' = "requeue"
  /\ IF mirrorErrors < MirrorLimit
     THEN mirrorErrors' = mirrorErrors + 1 /\ UNCHANGED <<mirror, shown>>
     ELSE mirrorErrors' = 0 /\ mirror' = FALSE /\ shown' = None
  /\ UNCHANGED <<environment, source, ring, errors, preview>>

\* The plane shows what it showed; the last failure ends the mirror.
SetPlaneFails ==
  /\ pc = "show"
  /\ pc' = "requeue"
  /\ IF mirrorErrors + 1 < MirrorLimit
     THEN mirrorErrors' = mirrorErrors + 1 /\ UNCHANGED <<mirror, shown>>
     ELSE mirrorErrors' = 0 /\ mirror' = FALSE /\ shown' = None
  /\ UNCHANGED <<environment, source, ring, errors, preview>>

\* A failed read, counted: 10 ms later the next one, or a restart.
Failed ==
  /\ errors' = IF errors + 1 < ErrorLimit THEN errors + 1 ELSE 0
  /\ pc' = IF errors + 1 < ErrorLimit THEN "top" ELSE "close"

\* The frame is copied, or not wanted, and the buffer given back.
Requeue ==
  /\ pc = "requeue"
  /\ queued' = Append(queued, held)
  /\ held' = None
  /\ errors' = 0
  /\ pc' = "top"
  /\ UNCHANGED <<environment, source, filling, filled, lost, monitor,
                 preview>>

RequeueFails ==
  /\ pc = "requeue" /\ lost < MaxLost
  /\ held' = None
  /\ lost' = lost + 1
  /\ Failed
  /\ UNCHANGED <<environment, source, queued, filling, filled, monitor,
                 preview>>

DequeueFails ==
  /\ pc = "next" /\ source = "mplane"
  /\ Failed
  /\ UNCHANGED <<environment, source, ring, monitor, preview>>

\* The driver returns an index that is out of range: the buffer it took from
\* the ring is not given back.
BadIndex ==
  /\ pc = "next" /\ source = "mplane" /\ filled # <<>>
  /\ lost < MaxLost
  /\ filled' = Tail(filled)
  /\ lost' = lost + 1
  /\ Failed
  /\ UNCHANGED <<environment, source, queued, filling, held, monitor, preview>>

\* The other sources.
OtherFrame ==
  /\ pc = "next" /\ source \in {"v4l", "ffmpeg"}
  /\ errors' = 0
  /\ pc' = "top"
  /\ UNCHANGED <<environment, source, ring, monitor, preview>>

OtherFails ==
  /\ pc = "next" /\ source \in {"v4l", "ffmpeg"}
  /\ Failed
  /\ UNCHANGED <<environment, source, ring, monitor, preview>>

-----------------------------------------------------------------------------
(***************************************************************************)
(* The end of run_video_loop: the preview sinks are stopped, then the      *)
(* source is dropped: the stream is turned off, the framebuffers removed.  *)
(***************************************************************************)
StopSinks ==
  /\ pc = "close"
  /\ sinks' = FALSE
  /\ pc' = "drop"
  /\ UNCHANGED <<environment, source, ring, monitor, errors, suppress,
                 detected, missed>>

DropSource ==
  /\ pc = "drop"
  /\ source' = "none"
  /\ Ring(<<>>)
  /\ mirror' = FALSE /\ mirrorErrors' = 0 /\ shown' = None
  /\ suppress' = FALSE /\ detected' = FALSE /\ missed' = FALSE
  /\ errors' = 0
  /\ pc' = "closed"
  /\ UNCHANGED <<environment, sinks>>

-----------------------------------------------------------------------------
(***************************************************************************)
(* The driver writes one frame after the other into the buffers it has;    *)
(* without one it drops frames.                                            *)
(***************************************************************************)
FillStarts ==
  /\ source = "mplane" /\ filling = None /\ queued # <<>>
  /\ filling' = Head(queued)
  /\ queued' = Tail(queued)
  /\ UNCHANGED <<environment, pc, source, filled, held, lost, monitor, errors,
                 preview>>

FillEnds ==
  /\ filling # None
  /\ filled' = Append(filled, filling)
  /\ filling' = None
  /\ UNCHANGED <<environment, pc, source, queued, held, lost, monitor, errors,
                 preview>>

-----------------------------------------------------------------------------
(***************************************************************************)
(* The controller and the user: update_preview, stop, an HDMI cable.       *)
(***************************************************************************)
SetAuto ==
  /\ auto' = ~auto
  /\ requested' = TRUE
  /\ UNCHANGED <<running, outputs, pc, source, ring, monitor, errors,
                 preview>>

StopCalled ==
  /\ running
  /\ running' = FALSE
  /\ UNCHANGED <<auto, requested, outputs, pc, source, ring, monitor, errors,
                 preview>>

Plug ==
  /\ outputs' = ~outputs
  /\ missed' = (missed \/ pc \in {"detect", "detectAgain", "rebuild"})
  /\ UNCHANGED <<running, auto, requested, pc, source, ring, monitor, errors,
                 suppress, sinks, detected>>

-----------------------------------------------------------------------------
\* What the loop does unless the device, or the opening of it, fails.
Proceed ==
  \/ OpenV4l \/ OpenMplane \/ OpenFfmpeg \/ WorkerEnds
  \/ BuildSinks \/ NoteOutputs \/ PreviewRequested \/ NoteOutputsAgain
  \/ HotplugSeen \/ Rebuild \/ ReadNext \/ Leave
  \/ Dequeue \/ SetPlane \/ SetPlaneFails \/ Requeue \/ OtherFrame
  \/ StopSinks \/ DropSource

Failure == OpenFails \/ RequeueFails \/ DequeueFails \/ BadIndex \/ OtherFails

Next ==
  \/ Proceed \/ Failure
  \/ FillStarts \/ FillEnds
  \/ SetAuto \/ StopCalled \/ Plug

Spec == Init /\ [][Next]_vars

(***************************************************************************)
(* The thread is scheduled, the hot-plug check comes round every two       *)
(* seconds, and the driver gets frames from the input.                     *)
(***************************************************************************)
Fairness ==
  /\ WF_vars(Proceed)
  /\ SF_vars(HotplugSeen)
  /\ WF_vars(FillStarts) /\ WF_vars(FillEnds)

FairSpec == Spec /\ Fairness

-----------------------------------------------------------------------------
PCs == {"closed", "ended", "build", "detect", "top", "detectAgain", "rebuild",
        "next", "show", "requeue", "close", "drop"}

FlagsTyped ==
  /\ running \in BOOLEAN /\ auto \in BOOLEAN
  /\ requested \in BOOLEAN /\ outputs \in BOOLEAN
  /\ mirror \in BOOLEAN
  /\ suppress \in BOOLEAN /\ sinks \in BOOLEAN
  /\ detected \in BOOLEAN /\ missed \in BOOLEAN

StateTyped ==
  /\ pc \in PCs /\ source \in Sources
  /\ queued \in Seq(BufferIds) /\ filled \in Seq(BufferIds)
  /\ filling \in BufferIds \cup {None} /\ held \in BufferIds \cup {None}
  /\ lost \in 0..MaxLost
  /\ mirrorErrors \in 0..(MirrorLimit - 1)
  /\ shown \in BufferIds \cup {None}
  /\ errors \in 0..(ErrorLimit - 1)

TypeOK == FlagsTyped /\ StateTyped

(***************************************************************************)
(* The picture on the monitor is not torn: although a buffer is given back *)
(* while the display scans it out (:742, :771), the driver starts to write *)
(* into it only when it has no other buffer left, because the loop is      *)
(* behind or buffers were lost.  A failed drmModeSetPlane leaves an older  *)
(* buffer on the display, until the next one succeeds.                     *)
(***************************************************************************)
ShownNotRefilled ==
  [][FillStarts /\ mirrorErrors = 0 /\ filling' = shown => queued' = <<>>]_vars

(***************************************************************************)
(* One writer for the HDMI monitor: auto_hdmi_monitor gives no HDMI output *)
(* a preview sink while the mirror shows the picture there (:1383, 1527,   *)
(* 1629, 1645), whatever becomes of the setting, the cable and the mirror. *)
(***************************************************************************)
HdmiOnce == ~(mirror /\ sinks)

(***************************************************************************)
(* next_frame, which tests no flag, returns, as long as there is a signal  *)
(* and unless all buffers were lost by failed VIDIOC_QBUFs or indices out  *)
(* of range (:737, :771): what VideoPipeline assumes of a read.            *)
(***************************************************************************)
FramesCome == pc = "next" ~> pc # "next" \/ lost = Buffers

(***************************************************************************)
(* The HDMI sinks follow the setting and the cable (:1647-1668), unless    *)
(* the cable was plugged or pulled between the building of the sinks and   *)
(* the note of what is connected (:1529-1562, :1632-1640, :1651-1659).     *)
(***************************************************************************)
HotplugFollowed ==
  pc = "top" ~> \/ sinks = WantsSinks \/ missed
                \/ ~running \/ source = "none" \/ lost = Buffers

=============================================================================
