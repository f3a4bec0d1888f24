------------------------- MODULE VideoPipelineProofs -------------------------
(***************************************************************************)
(* VideoPipeline keeps its types, loses no preview change and implements   *)
(* LiveSettings for its preview settings, whatever the number of updates,  *)
(* the error limit and the controller's thread.                            *)
(***************************************************************************)
EXTENDS VideoPipeline, TLAPS

\* The error counter stays below the limit wherever it may be incremented.
ErrorsBelowLimit == pc \in Loop => captureErrors < ErrorLimit

StateInv == StateTyped /\ ErrorsBelowLimit

(***************************************************************************)
(* The flags stay Boolean.                                                 *)
(***************************************************************************)
LEMMA FlagsStep == FlagsTyped /\ [Next]_vars => FlagsTyped'
<1> SUFFICES ASSUME FlagsTyped, [Next]_vars PROVE FlagsTyped'
  OBVIOUS
<1> USE DEF FlagsTyped, flags, control, capture
<1>1. CASE Controller
  BY <1>1 DEF Controller, Start, UpdatePanics, UpdateVideoWrite,
     UpdateVideoFlag, UpdatePreviewWrite, UpdatePreviewFlag, StopRunning,
     StopRestart, StopPreview, Join
<1>2. CASE OpenOk \/ OpenFails \/ Waiting
  BY <1>2 DEF OpenOk, OpenFails, Waiting, CaptureReturns, FrameRead, NoFrame,
     ReadFails, RebuildSinks, FrameDone, ShortFrame, TransformFails, Cleanup,
     OwnedByCaller
<1>3. CASE Compute
  BY <1>3 DEF Compute, Top, ReadSettings, ClearRestart, ClearPreview,
     ReadPreview, BuildSinks, TestRunning, TestRestart, TestPreview,
     Hotplug, RecheckRestart, RecheckPreview, OwnedByCaller
<1>4. CASE UNCHANGED vars
  BY <1>4 DEF vars
<1>5. QED
  BY <1>1, <1>2, <1>3, <1>4 DEF Next, Worker, Terminated

(***************************************************************************)
(* The program counters, versions and counters stay in their ranges.       *)
(***************************************************************************)
LEMMA StateStep == StateInv /\ [Next]_vars => StateInv'
<1> USE MaxUpdatesAssumption, ErrorLimitAssumption
<1> SUFFICES ASSUME StateInv, [Next]_vars PROVE StateInv'
  OBVIOUS
<1> USE DEF StateInv, StateTyped, ErrorsBelowLimit, locked, capture, None,
            WorkerPC, CallerPC, Setup, Loop
<1>1. CASE Controller
  BY <1>1 DEF Controller, Start, UpdatePanics, UpdateVideoWrite,
     UpdateVideoFlag, UpdatePreviewWrite, UpdatePreviewFlag, StopRunning,
     StopRestart, StopPreview, Join
<1>2. CASE OpenOk \/ OpenFails \/ Waiting
  BY <1>2 DEF OpenOk, OpenFails, Waiting, CaptureReturns, FrameRead, NoFrame,
     ReadFails, RebuildSinks, FrameDone, ShortFrame, TransformFails, Cleanup,
     Goto, OwnedByCaller, control
<1>3. CASE Compute
  <2> USE DEF Goto, OwnedByCaller, control
  <2>1. CASE Top \/ ReadSettings \/ ClearRestart \/ ClearPreview
    BY <2>1 DEF Top, ReadSettings, ClearRestart, ClearPreview
  <2>2. CASE ReadPreview \/ BuildSinks \/ Hotplug
    BY <2>2 DEF ReadPreview, BuildSinks, Hotplug
  <2>3. CASE TestRunning \/ TestRestart \/ TestPreview
    BY <2>3 DEF TestRunning, TestRestart, TestPreview
  <2>4. CASE RecheckRestart \/ RecheckPreview
    BY <2>4 DEF RecheckRestart, RecheckPreview
  <2>5. QED
    BY <1>3, <2>1, <2>2, <2>3, <2>4 DEF Compute
<1>4. CASE UNCHANGED vars
  BY <1>4 DEF vars, control
<1>5. QED
  BY <1>1, <1>2, <1>3, <1>4 DEF Next, Worker, Terminated

(***************************************************************************)
(* The types of VideoPipeline's variables are what TypeOK says: the flags  *)
(* are Boolean, the program counters stay in their sets, the versions and  *)
(* consecutive_capture_errors in their bounds.                             *)
(***************************************************************************)
THEOREM TypeCorrect == Spec => []TypeOK
<1>1. Init => FlagsTyped
  BY DEF Init, FlagsTyped
<1>2. Init => StateInv
  BY MaxUpdatesAssumption, ErrorLimitAssumption DEF Init, StateInv, StateTyped,
     ErrorsBelowLimit, None, WorkerPC, CallerPC, Setup, Loop
<1>3. FlagsTyped /\ StateInv => TypeOK
  BY DEF StateInv, TypeOK
<1>4. QED
  BY <1>1, <1>2, <1>3, FlagsStep, StateStep, PTL DEF Spec

-----------------------------------------------------------------------------
(***************************************************************************)
(* PreviewNotLost is not inductive alone: between the read of the preview  *)
(* settings and the end of the build, it is the version the worker holds   *)
(* that must be fresh, for the sinks are about to be built from it.        *)
(***************************************************************************)
ReadIsFresh == pc \in {"build", "rebuild", "hotplugDecide"} => Fresh(seen)

PreviewInv == PreviewNotLost /\ ReadIsFresh

LEMMA PreviewStep == PreviewInv /\ [Next]_vars => PreviewInv'
<1> SUFFICES ASSUME PreviewInv, [Next]_vars PROVE PreviewInv'
  OBVIOUS
<1> USE DEF PreviewInv, PreviewNotLost, ReadIsFresh, Fresh, Loop
<1>1. CASE Start \/ UpdatePanics \/ UpdateVideoWrite \/ UpdateVideoFlag
  BY <1>1 DEF Start, UpdatePanics, UpdateVideoWrite, UpdateVideoFlag, flags,
     locked
<1>2. CASE UpdatePreviewWrite \/ UpdatePreviewFlag
  BY <1>2 DEF UpdatePreviewWrite, UpdatePreviewFlag
<1>3. CASE StopRunning \/ StopRestart \/ StopPreview \/ Join
  BY <1>3 DEF StopRunning, StopRestart, StopPreview, Join, flags, locked
<1>4. CASE OpenOk \/ OpenFails \/ Waiting
  BY <1>4 DEF OpenOk, OpenFails, Waiting, CaptureReturns, FrameRead, NoFrame,
     ReadFails, RebuildSinks, FrameDone, ShortFrame, TransformFails, Cleanup,
     Goto, OwnedByCaller, locked, control
<1>5. CASE Compute
  <2> USE DEF Goto, OwnedByCaller, locked, control
  <2>1. CASE Top \/ ReadSettings \/ ClearRestart \/ ClearPreview
    BY <2>1 DEF Top, ReadSettings, ClearRestart, ClearPreview
  <2>2. CASE ReadPreview \/ BuildSinks \/ Hotplug
    BY <2>2 DEF ReadPreview, BuildSinks, Hotplug
  <2>3. CASE TestRunning \/ TestRestart \/ TestPreview
    BY <2>3 DEF TestRunning, TestRestart, TestPreview
  <2>4. CASE RecheckRestart \/ RecheckPreview
    BY <2>4 DEF RecheckRestart, RecheckPreview
  <2>5. QED
    BY <1>5, <2>1, <2>2, <2>3, <2>4 DEF Compute
<1>6. CASE UNCHANGED vars
  BY <1>6 DEF vars, flags, locked, control
<1>7. QED
  BY <1>1, <1>2, <1>3, <1>4, <1>5, <1>6 DEF Next, Controller, Worker, Terminated

(***************************************************************************)
(* No preview change is lost, for any number of updates: whenever the      *)
(* capture loop is not replacing its sinks, they are built from the        *)
(* current preview settings or a request to rebuild them is pending        *)
(* (update_preview against run_video_loop).                                *)
(***************************************************************************)
THEOREM PreviewNeverLost == Spec => []PreviewNotLost
<1>1. Init => PreviewInv
  BY DEF Init, PreviewInv, PreviewNotLost, ReadIsFresh, Loop
<1>2. PreviewInv => PreviewNotLost
  BY DEF PreviewInv
<1>3. QED
  BY <1>1, <1>2, PreviewStep, PTL DEF Spec

-----------------------------------------------------------------------------
(***************************************************************************)
(* For the refinement: the worker holds no preview settings older than     *)
(* the ones it shows, and before start there is neither thread nor sinks.  *)
(***************************************************************************)
Ordered == sinks <= seen /\ seen <= preview

NotStarted == caller = "new" => ~running /\ pc = "unborn" /\ sinks = None

RefineInv == StateInv /\ Ordered /\ NotStarted

LEMMA RefineStep == RefineInv /\ [Next]_vars => RefineInv'
<1> SUFFICES ASSUME RefineInv, [Next]_vars PROVE RefineInv'
  OBVIOUS
<1>1. StateInv'
  BY StateStep DEF RefineInv
<1>2. Ordered' /\ NotStarted'
  <2> USE MaxUpdatesAssumption DEF RefineInv, Ordered, NotStarted, StateInv,
          StateTyped, None
  <2>1. CASE Controller
    BY <2>1 DEF Controller, Start, UpdatePanics, UpdateVideoWrite,
       UpdateVideoFlag, UpdatePreviewWrite, UpdatePreviewFlag, StopRunning,
       StopRestart, StopPreview, Join, flags, locked
  <2>2. CASE OpenOk \/ OpenFails \/ Waiting
    BY <2>2 DEF OpenOk, OpenFails, Waiting, CaptureReturns, FrameRead, NoFrame,
       ReadFails, RebuildSinks, FrameDone, ShortFrame, TransformFails, Cleanup,
       Goto, OwnedByCaller, locked, control
  <2>3. CASE Compute
    <3> USE DEF Goto, OwnedByCaller, locked, control
    <3>1. CASE Top \/ ReadSettings \/ ClearRestart \/ ClearPreview
      BY <3>1 DEF Top, ReadSettings, ClearRestart, ClearPreview
    <3>2. CASE ReadPreview \/ BuildSinks \/ Hotplug
      BY <3>2 DEF ReadPreview, BuildSinks, Hotplug
    <3>3. CASE TestRunning \/ TestRestart \/ TestPreview
      BY <3>3 DEF TestRunning, TestRestart, TestPreview
    <3>4. CASE RecheckRestart \/ RecheckPreview
      BY <3>4 DEF RecheckRestart, RecheckPreview
    <3>5. QED
      BY <2>3, <3>1, <3>2, <3>3, <3>4 DEF Compute
  <2>4. CASE UNCHANGED vars
    BY <2>4 DEF vars, flags, locked, control
  <2>5. QED
    BY <2>1, <2>2, <2>3, <2>4 DEF Next, Worker, Terminated
<1>3. QED
  BY <1>1, <1>2 DEF RefineInv

(***************************************************************************)
(* VideoPipeline implements LiveSettings for its preview settings: what    *)
(* the sinks show was published by update_preview, and is replaced only by *)
(* the same or newer preview settings unless the capture is torn down.     *)
(***************************************************************************)
THEOREM PreviewRefinement == Spec => PreviewImplementsLiveSettings
<1> USE DEF PreviewLive!Nothing, None
<1>1. Init => PreviewLive!LSInit
  BY DEF Init, PreviewLive!LSInit
<1>2. Init => RefineInv
  BY MaxUpdatesAssumption, ErrorLimitAssumption
     DEF Init, RefineInv, StateInv, StateTyped, ErrorsBelowLimit, Ordered,
         NotStarted, WorkerPC, CallerPC, Setup, Loop
<1>3. RefineInv /\ [Next]_vars => [PreviewLive!LSNext]_(PreviewLive!lsVars)
  <2> SUFFICES ASSUME RefineInv, [Next]_vars
               PROVE  [PreviewLive!LSNext]_(PreviewLive!lsVars)
    OBVIOUS
  <2> USE DEF PreviewLive!lsVars, PreviewLive!LSNext
  <2>1. CASE Start
    BY <2>1 DEF Start, locked, RefineInv, NotStarted, PreviewLive!Open
  <2>2. CASE UpdatePreviewWrite
    <3>1. preview' = preview + 1 /\ preview < MaxUpdates
          /\ UNCHANGED <<sinks, running>>
      BY <2>2 DEF UpdatePreviewWrite, flags
    <3>2. preview' \in (preview + 1)..MaxUpdates
      BY <3>1, MaxUpdatesAssumption DEF RefineInv, StateInv, StateTyped
    <3>3. QED
      BY <3>1, <3>2 DEF PreviewLive!Publish
  <2>3. CASE StopRunning
    BY <2>3 DEF StopRunning, locked, PreviewLive!Close
  <2>4. CASE BuildSinks \/ RebuildSinks
    <3>1. seen \in 0..preview /\ seen >= sinks
      BY MaxUpdatesAssumption DEF RefineInv, Ordered, StateInv, StateTyped
    <3>2. sinks' = seen /\ UNCHANGED <<preview, running>>
      BY <2>4 DEF BuildSinks, RebuildSinks, OwnedByCaller, locked
    <3>3. QED
      BY <3>1, <3>2 DEF PreviewLive!TakeEffect
  <2>5. CASE Cleanup
    BY <2>5 DEF Cleanup, OwnedByCaller, locked, PreviewLive!Withdraw
  <2>6. CASE \/ UpdatePanics \/ UpdateVideoWrite \/ UpdateVideoFlag
             \/ UpdatePreviewFlag \/ StopRestart \/ StopPreview \/ Join
    BY <2>6 DEF UpdatePanics, UpdateVideoWrite, UpdateVideoFlag,
       UpdatePreviewFlag, StopRestart, StopPreview, Join, flags, locked
  <2>7. CASE \/ OpenOk \/ OpenFails \/ CaptureReturns \/ Top \/ ReadSettings
             \/ ClearRestart \/ ClearPreview \/ ReadPreview \/ TestRunning
             \/ TestRestart \/ TestPreview \/ Hotplug \/ RecheckRestart
             \/ RecheckPreview \/ FrameDone \/ ShortFrame \/ TransformFails
    BY <2>7 DEF OpenOk, OpenFails, Waiting, CaptureReturns, FrameRead, NoFrame,
       ReadFails, Top, ReadSettings, ClearRestart, ClearPreview, ReadPreview,
       TestRunning, TestRestart, TestPreview, Hotplug, RecheckRestart,
       RecheckPreview, FrameDone, ShortFrame, TransformFails, OwnedByCaller,
       locked
  <2>8. CASE UNCHANGED vars
    BY <2>8 DEF vars, flags, locked
  <2>9. QED
    BY <2>1, <2>2, <2>3, <2>4, <2>5, <2>6, <2>7, <2>8
       DEF Next, Controller, Worker, Compute, Waiting, Terminated
<1>4. QED
  BY <1>1, <1>2, <1>3, RefineStep, PTL
     DEF Spec, PreviewImplementsLiveSettings, PreviewLive!LSSpec

=============================================================================
