---------------------------- MODULE CaptureProofs ----------------------------
(***************************************************************************)
(* One writer for the HDMI monitor, and a buffer that is shown is refilled *)
(* last: for any number of buffers and any limits.                         *)
(***************************************************************************)
EXTENDS Capture, SequenceTheorems, TLAPS

LEMMA Constants ==
  /\ Buffers \in Nat \ {0, 1}
  /\ MirrorLimit \in Nat \ {0} /\ ErrorLimit \in Nat \ {0}
  /\ MaxLost \in Nat
BY BuffersAssumption, LimitsAssumption

-----------------------------------------------------------------------------
(***************************************************************************)
(* The mirror and the HDMI sinks.  The mirror never outlives the flag that *)
(* suppresses the sinks, and no sink is left when the flag may be set.     *)
(***************************************************************************)
OneOfThem ==
  /\ mirror => suppress
  /\ suppress => ~sinks
  /\ pc \in {"closed", "ended", "drop"} => ~sinks
  /\ pc \in {"closed", "ended"} => ~mirror

\* The steps that build sinks, stop them, or set the flag.
LEMMA OneOfThemKept == OneOfThem /\ [Next]_vars => OneOfThem'
<1> SUFFICES ASSUME OneOfThem, [Next]_vars PROVE OneOfThem'
  OBVIOUS
<1> USE DEF OneOfThem
<1>1. CASE OpenV4l \/ OpenMplane \/ OpenFfmpeg
  <2>1. ~mirror /\ ~sinks /\ pc' = "build" /\ UNCHANGED sinks
    BY <1>1 DEF OpenV4l, OpenMplane, OpenFfmpeg, OpenAs
  <2>2. mirror' => suppress'
    <3>1. CASE OpenMplane
      <4>1. suppress' = auto /\ mirror' \in IF auto THEN BOOLEAN ELSE {FALSE}
        BY <3>1 DEF OpenMplane
      <4>2. CASE auto
        BY <4>1, <4>2, Zenon
      <4>3. CASE ~auto
        <5>1. mirror' \in {FALSE}
          BY <4>1, <4>3
        <5>2. QED
          BY <5>1
      <4>4. QED
        BY <4>2, <4>3
    <3>2. CASE OpenV4l \/ OpenFfmpeg
      BY <3>2, <2>1 DEF OpenV4l, OpenFfmpeg, monitor
    <3>3. QED
      BY <1>1, <3>1, <3>2
  <2>3. QED
    BY <2>1, <2>2
<1>2. CASE BuildSinks \/ PreviewRequested \/ Rebuild
  <2>1. /\ UNCHANGED <<mirror, suppress>>
        /\ pc' \in {"detect", "detectAgain", "next"}
    BY <1>2 DEF BuildSinks, PreviewRequested, Rebuild, monitor
  <2>2. BuildHdmiSinks
    BY <1>2 DEF BuildSinks, PreviewRequested, Rebuild
  <2>3. suppress => ~sinks'
    BY <2>2, Zenon DEF BuildHdmiSinks, WantsSinks
  <2>4. QED
    BY <2>1, <2>3
<1>3. CASE StopSinks \/ DropSource
  BY <1>3 DEF StopSinks, DropSource, monitor
<1>4. CASE SetPlaneFails
  BY <1>4 DEF SetPlaneFails, preview
<1>5. CASE \/ OpenFails \/ WorkerEnds \/ NoteOutputs \/ NoteOutputsAgain
           \/ HotplugSeen \/ ReadNext \/ Leave \/ Dequeue \/ SetPlane
           \/ Requeue \/ OtherFrame
  BY <1>5 DEF OpenFails, WorkerEnds, NoteOutputs, NoteOutputsAgain,
     HotplugSeen, ReadNext, Leave, Dequeue, SetPlane, Requeue, OtherFrame,
     vars, monitor, preview
<1>6. CASE RequeueFails \/ DequeueFails \/ BadIndex \/ OtherFails
  BY <1>6 DEF RequeueFails, DequeueFails, BadIndex, OtherFails, Failed,
     monitor, preview
<1>7. CASE \/ FillStarts \/ FillEnds \/ SetAuto \/ StopCalled \/ Plug
           \/ UNCHANGED vars
  BY <1>7 DEF FillStarts, FillEnds, SetAuto, StopCalled, Plug, vars, monitor,
     preview
<1>8. QED
  BY <1>1, <1>2, <1>3, <1>4, <1>5, <1>6, <1>7 DEF Next, Proceed, Failure

(***************************************************************************)
(* auto_hdmi_monitor gives no HDMI output a preview sink while the mirror  *)
(* shows the picture there (video_pipeline.rs:1383, 1527, 1629, 1645).     *)
(***************************************************************************)
THEOREM OneWriterPerMonitor == Spec => []HdmiOnce
<1>1. Init => OneOfThem
  BY DEF Init, OneOfThem
<1>2. OneOfThem => HdmiOnce
  BY DEF OneOfThem, HdmiOnce
<1>3. QED
  BY <1>1, <1>2, OneOfThemKept, PTL DEF Spec

-----------------------------------------------------------------------------
(***************************************************************************)
(* Sequences, index by index.                                              *)
(***************************************************************************)
LEMMA TailElements ==
  ASSUME NEW S, NEW s \in Seq(S), s # <<>>
  PROVE  /\ Len(s) \in Nat \ {0}
         /\ Head(s) = s[1] /\ s[1] \in S
         /\ Tail(s) \in Seq(S) /\ Len(Tail(s)) = Len(s) - 1
         /\ \A i \in 1..(Len(s) - 1) : Tail(s)[i] = s[i + 1]
OBVIOUS

LEMMA AppendElements ==
  ASSUME NEW S, NEW s \in Seq(S), NEW e \in S
  PROVE  /\ Len(s) \in Nat
         /\ Append(s, e) \in Seq(S) /\ Len(Append(s, e)) = Len(s) + 1
         /\ \A i \in 1..Len(s) : Append(s, e)[i] = s[i]
         /\ Append(s, e)[Len(s) + 1] = e
OBVIOUS

LEMMA ElementsAreBuffers ==
  ASSUME NEW s \in Seq(BufferIds), NEW i \in 1..Len(s)
  PROVE  s[i] \in BufferIds /\ s[i] # None
<1>1. s[i] \in BufferIds
  OBVIOUS
<1>2. None \notin BufferIds
  BY DEF BufferIds, None
<1>3. QED
  BY <1>1, <1>2

(***************************************************************************)
(* No buffer is in two places.                                             *)
(***************************************************************************)
RingTyped ==
  /\ queued \in Seq(BufferIds) /\ filled \in Seq(BufferIds)
  /\ filling \in BufferIds \cup {None} /\ held \in BufferIds \cup {None}

InQueue == 1..Len(queued)
InFilled == 1..Len(filled)

Apart ==
  /\ \A i, j \in InQueue : queued[i] = queued[j] => i = j
  /\ \A i, j \in InFilled : filled[i] = filled[j] => i = j
  /\ \A i \in InQueue, j \in InFilled : queued[i] # filled[j]
  /\ \A i \in InQueue : queued[i] # filling /\ queued[i] # held
  /\ \A j \in InFilled : filled[j] # filling /\ filled[j] # held
  /\ filling # None => filling # held

\* The loop holds a buffer between the dequeue and the requeue.
HeldThen == pc \in {"show", "requeue"} => held \in BufferIds

RingInv == RingTyped /\ Apart /\ HeldThen

LEMMA FillStartsKeepsRing ==
  ASSUME RingInv, FillStarts PROVE RingInv'
<1> USE DEF RingInv, RingTyped, Apart, HeldThen, InQueue, InFilled
<1>1. /\ queued # <<>> /\ filling = None
      /\ filling' = Head(queued) /\ queued' = Tail(queued)
      /\ UNCHANGED <<pc, filled, held>>
  BY DEF FillStarts
<1>2. /\ Len(queued) \in Nat \ {0}
      /\ filling' = queued[1] /\ queued[1] \in BufferIds
      /\ queued' \in Seq(BufferIds) /\ Len(queued') = Len(queued) - 1
      /\ \A i \in 1..(Len(queued) - 1) : queued'[i] = queued[i + 1]
  BY <1>1, TailElements
<1>3. RingTyped' /\ HeldThen'
  BY <1>1, <1>2
<1>4. Apart'
  BY <1>1, <1>2
<1>5. QED
  BY <1>3, <1>4

LEMMA FillEndsKeepsRing ==
  ASSUME RingInv, FillEnds PROVE RingInv'
<1> USE DEF RingInv, RingTyped, Apart, HeldThen, InQueue, InFilled
<1>1. /\ filling # None /\ filling' = None
      /\ filled' = Append(filled, filling)
      /\ UNCHANGED <<pc, queued, held>>
  BY DEF FillEnds
<1>2. filling \in BufferIds
  BY <1>1
<1>3. /\ Len(filled) \in Nat
      /\ filled' \in Seq(BufferIds) /\ Len(filled') = Len(filled) + 1
      /\ \A i \in 1..Len(filled) : filled'[i] = filled[i]
      /\ filled'[Len(filled) + 1] = filling
  BY <1>1, <1>2, AppendElements
<1>4. RingTyped' /\ HeldThen'
  BY <1>1, <1>3
<1>5. \A i \in InQueue : queued[i] # None
  BY ElementsAreBuffers
<1>6. \A i \in InFilled' : filled'[i] # None
  BY <1>3, ElementsAreBuffers
<1>7. Apart'
  BY <1>1, <1>3, <1>5, <1>6
<1>8. QED
  BY <1>4, <1>7

LEMMA DequeueKeepsRing ==
  ASSUME RingInv, Dequeue PROVE RingInv'
<1> USE DEF RingInv, RingTyped, Apart, HeldThen, InQueue, InFilled
<1>1. /\ filled # <<>>
      /\ held' = Head(filled) /\ filled' = Tail(filled)
      /\ UNCHANGED <<queued, filling>>
  BY DEF Dequeue
<1>2. /\ Len(filled) \in Nat \ {0}
      /\ held' = filled[1] /\ filled[1] \in BufferIds
      /\ filled' \in Seq(BufferIds) /\ Len(filled') = Len(filled) - 1
      /\ \A i \in 1..(Len(filled) - 1) : filled'[i] = filled[i + 1]
  BY <1>1, TailElements
<1>3. RingTyped' /\ HeldThen'
  BY <1>1, <1>2
<1>4. Apart'
  BY <1>1, <1>2
<1>5. QED
  BY <1>3, <1>4

\* The buffer of a bad index leaves the ring from the place of a dequeue.
LEMMA BadIndexKeepsRing ==
  ASSUME RingInv, BadIndex PROVE RingInv'
<1> USE DEF RingInv, RingTyped, Apart, HeldThen, InQueue, InFilled
<1>1. /\ filled # <<>> /\ filled' = Tail(filled)
      /\ pc' \notin {"show", "requeue"}
      /\ UNCHANGED <<queued, filling, held>>
  BY DEF BadIndex, Failed
<1>2. /\ Len(filled) \in Nat \ {0}
      /\ filled' \in Seq(BufferIds) /\ Len(filled') = Len(filled) - 1
      /\ \A i \in 1..(Len(filled) - 1) : filled'[i] = filled[i + 1]
  BY <1>1, TailElements
<1>3. RingTyped' /\ HeldThen'
  BY <1>1, <1>2
<1>4. Apart'
  BY <1>1, <1>2
<1>5. QED
  BY <1>3, <1>4

LEMMA RequeueKeepsRing ==
  ASSUME RingInv, Requeue
  PROVE  /\ RingInv'
         /\ Len(queued) \in Nat /\ Len(queued') = Len(queued) + 1
         /\ \A i \in InQueue : queued'[i] = queued[i]
<1> USE DEF RingInv, RingTyped, Apart, HeldThen, InQueue, InFilled
<1>1. /\ held \in BufferIds /\ held' = None /\ pc' = "top"
      /\ queued' = Append(queued, held)
      /\ UNCHANGED <<filled, filling>>
  BY DEF Requeue
<1>2. /\ Len(queued) \in Nat
      /\ queued' \in Seq(BufferIds) /\ Len(queued') = Len(queued) + 1
      /\ \A i \in 1..Len(queued) : queued'[i] = queued[i]
      /\ queued'[Len(queued) + 1] = held
  BY <1>1, AppendElements
<1>3. RingTyped' /\ HeldThen'
  BY <1>1, <1>2
<1>4. \A i \in InQueue' : queued'[i] # None
  BY <1>2, ElementsAreBuffers
<1>5. \A j \in InFilled : filled[j] # None
  BY ElementsAreBuffers
<1>6. Apart'
  BY <1>1, <1>2, <1>4, <1>5
<1>7. QED
  BY <1>2, <1>3, <1>6

\* The ring as OpenMplane and DropSource leave it.
LEMMA NewRing ==
  ASSUME \/ Ring([i \in BufferIds |-> i])
         \/ Ring(<<>>),
         pc' \notin {"show", "requeue"}
  PROVE  RingInv'
<1> USE DEF RingInv, RingTyped, Apart, HeldThen, InQueue, InFilled
<1>1. /\ filling' = None /\ held' = None /\ filled' = <<>>
      /\ queued' = <<>> \/ queued' = [i \in 1..Buffers |-> i]
  BY DEF Ring, BufferIds
<1>2. \A i \in InQueue' : queued'[i] = i /\ i # None
  BY <1>1, Constants DEF None
<1>3. queued' \in Seq(BufferIds)
  <2>1. CASE queued' = <<>>
    BY <2>1
  <2>2. CASE queued' = [i \in 1..Buffers |-> i]
    <3>1. queued' \in [1..Buffers -> BufferIds] /\ Buffers \in Nat
      BY <2>2, Constants DEF BufferIds
    <3>2. QED
      BY <3>1, SeqDef
  <2>3. QED
    BY <1>1, <2>1, <2>2
<1>4. QED
  BY <1>1, <1>2, <1>3

LEMMA NextKeepsRing == RingInv /\ [Next]_vars => RingInv'
<1> SUFFICES ASSUME RingInv, [Next]_vars PROVE RingInv'
  OBVIOUS
<1>1. CASE OpenMplane \/ DropSource
  BY <1>1, NewRing DEF OpenMplane, OpenAs, DropSource
<1>2. CASE FillStarts \/ FillEnds \/ Dequeue \/ BadIndex \/ Requeue
  BY <1>2, FillStartsKeepsRing, FillEndsKeepsRing, DequeueKeepsRing,
     BadIndexKeepsRing, RequeueKeepsRing
<1>3. CASE SetPlane \/ SetPlaneFails
  BY <1>3 DEF SetPlane, SetPlaneFails, ring, RingInv, RingTyped, Apart,
     HeldThen, InQueue, InFilled
<1>4. CASE RequeueFails
  <2>1. /\ held' = None /\ pc' \in {"top", "close"}
        /\ UNCHANGED <<queued, filling, filled>>
    BY <1>4 DEF RequeueFails, Failed
  <2>2. /\ \A i \in InQueue : queued[i] # None
        /\ \A j \in InFilled : filled[j] # None
    BY ElementsAreBuffers DEF RingInv, RingTyped, InQueue, InFilled
  <2>3. QED
    BY <2>1, <2>2 DEF RingInv, RingTyped, Apart, HeldThen, InQueue, InFilled
<1>5. CASE \/ OpenV4l \/ OpenFfmpeg \/ WorkerEnds \/ BuildSinks
           \/ NoteOutputs \/ PreviewRequested \/ NoteOutputsAgain
           \/ HotplugSeen \/ Rebuild \/ ReadNext \/ Leave \/ OtherFrame
           \/ StopSinks \/ OpenFails \/ DequeueFails \/ OtherFails
           \/ SetAuto \/ StopCalled \/ Plug \/ UNCHANGED vars
  <2>1. UNCHANGED ring
    BY <1>5 DEF OpenV4l, OpenFfmpeg, OpenAs, WorkerEnds, BuildSinks,
       NoteOutputs, PreviewRequested, NoteOutputsAgain, HotplugSeen, Rebuild,
       ReadNext, Leave, OtherFrame, StopSinks, OpenFails, DequeueFails,
       OtherFails, SetAuto, StopCalled, Plug, vars
  <2>2. pc' = pc \/ pc' \notin {"show", "requeue"}
    BY <1>5 DEF OpenV4l, OpenFfmpeg, OpenAs, WorkerEnds, BuildSinks,
       NoteOutputs, PreviewRequested, NoteOutputsAgain, HotplugSeen, Rebuild,
       ReadNext, Leave, OtherFrame, StopSinks, OpenFails, DequeueFails,
       OtherFails, Failed, SetAuto, StopCalled, Plug, vars
  <2>3. QED
    BY <2>1, <2>2 DEF ring, RingInv, RingTyped, Apart, HeldThen, InQueue,
       InFilled
<1>6. QED
  BY <1>1, <1>2, <1>3, <1>4, <1>5 DEF Next, Proceed, Failure

(***************************************************************************)
(* The buffer that is shown is the one the loop gave back last, unless a   *)
(* drmModeSetPlane has failed since.                                       *)
(***************************************************************************)
ShownLast ==
  /\ mirrorErrors \in Nat
  /\ pc = "show" => mirror
  /\ ~mirror => shown = None
  /\ pc = "requeue" /\ mirrorErrors = 0 => shown \in {None, held}
  /\ mirrorErrors = 0 =>
       \A i \in 1..(Len(queued) - 1) : queued[i] # shown

LEMMA NextKeepsShownLast ==
  RingInv /\ ShownLast /\ [Next]_vars => ShownLast'
<1> SUFFICES ASSUME RingInv, ShownLast, [Next]_vars PROVE ShownLast'
  OBVIOUS
<1>1. CASE OpenMplane
  <2>1. /\ mirrorErrors' = 0 /\ shown' = None /\ pc' = "build"
        /\ queued' = [i \in 1..Buffers |-> i]
    BY <1>1 DEF OpenMplane, OpenAs, Ring, BufferIds
  <2>2. \A i \in 1..(Len(queued') - 1) : queued'[i] # None
    BY <2>1, Constants DEF None
  <2>3. QED
    BY <2>1, <2>2 DEF ShownLast
<1>2. CASE DropSource
  BY <1>2 DEF DropSource, Ring, ShownLast
<1>3. CASE FillStarts
  <2>1. /\ queued # <<>> /\ queued' = Tail(queued)
        /\ UNCHANGED <<pc, held, monitor>>
    BY <1>3 DEF FillStarts
  <2>2. /\ Len(queued) \in Nat \ {0} /\ Len(queued') = Len(queued) - 1
        /\ \A i \in 1..(Len(queued) - 1) : queued'[i] = queued[i + 1]
    BY <2>1, TailElements DEF RingInv, RingTyped
  <2>3. QED
    BY <2>1, <2>2 DEF ShownLast, monitor
<1>4. CASE Dequeue
  BY <1>4 DEF Dequeue, monitor, ShownLast
<1>5. CASE Requeue
  <2>1. /\ pc = "requeue" /\ pc' = "top" /\ UNCHANGED monitor
    BY <1>5 DEF Requeue
  <2>2. /\ Len(queued) \in Nat /\ Len(queued') = Len(queued) + 1
        /\ \A i \in InQueue : queued'[i] = queued[i]
    BY <1>5, RequeueKeepsRing
  <2>3. \A i \in InQueue : queued[i] # None /\ queued[i] # held
    BY ElementsAreBuffers DEF RingInv, RingTyped, InQueue, Apart
  <2>4. QED
    BY <2>1, <2>2, <2>3 DEF ShownLast, monitor, InQueue
<1>6. CASE SetPlane
  <2>1. /\ pc = "show" /\ pc' = "requeue" /\ shown' = held
        /\ mirrorErrors' = 0 /\ UNCHANGED <<mirror, queued, held>>
    BY <1>6 DEF SetPlane, ring
  <2>2. \A i \in InQueue : queued[i] # held
    BY DEF RingInv, Apart
  <2>3. Len(queued) \in Nat
    BY DEF RingInv, RingTyped
  <2>4. QED
    BY <2>1, <2>2, <2>3 DEF ShownLast, InQueue
<1>7. CASE SetPlaneFails
  <2>1. /\ pc' = "requeue" /\ UNCHANGED <<queued, held>>
    BY <1>7 DEF SetPlaneFails, ring
  <2>2. \/ mirrorErrors' = mirrorErrors + 1 /\ UNCHANGED <<mirror, shown>>
        \/ mirrorErrors' = 0 /\ ~mirror' /\ shown' = None
    BY <1>7 DEF SetPlaneFails
  <2>3. /\ \A i \in InQueue : queued[i] # None
        /\ Len(queued) \in Nat
    BY ElementsAreBuffers DEF RingInv, RingTyped, InQueue
  <2>4. QED
    BY <2>1, <2>2, <2>3 DEF ShownLast, InQueue
<1>8. CASE RequeueFails \/ BadIndex
  BY <1>8 DEF RequeueFails, BadIndex, Failed, monitor, ShownLast
<1>9. CASE \/ OpenV4l \/ OpenFfmpeg \/ WorkerEnds \/ BuildSinks
           \/ NoteOutputs \/ PreviewRequested \/ NoteOutputsAgain
           \/ HotplugSeen \/ Rebuild \/ ReadNext \/ Leave \/ OtherFrame
           \/ StopSinks \/ OpenFails \/ DequeueFails \/ OtherFails
           \/ FillEnds \/ SetAuto \/ StopCalled \/ Plug \/ UNCHANGED vars
  <2>1. UNCHANGED <<queued, held, monitor>>
    BY <1>9 DEF OpenV4l, OpenFfmpeg, OpenAs, WorkerEnds, BuildSinks,
       NoteOutputs, PreviewRequested, NoteOutputsAgain, HotplugSeen, Rebuild,
       ReadNext, Leave, OtherFrame, StopSinks, OpenFails, DequeueFails,
       OtherFails, FillEnds, SetAuto, StopCalled, Plug, vars, ring
  <2>2. pc' = pc \/ pc' \notin {"show", "requeue"}
    BY <1>9 DEF OpenV4l, OpenFfmpeg, OpenAs, WorkerEnds, BuildSinks,
       NoteOutputs, PreviewRequested, NoteOutputsAgain, HotplugSeen, Rebuild,
       ReadNext, Leave, OtherFrame, StopSinks, OpenFails, DequeueFails,
       OtherFails, Failed, FillEnds, SetAuto, StopCalled, Plug, vars
  <2>3. QED
    BY <2>1, <2>2 DEF monitor, ShownLast
<1>10. QED
  BY <1>1, <1>2, <1>3, <1>4, <1>5, <1>6, <1>7, <1>8, <1>9
     DEF Next, Proceed, Failure

LEMMA RingInvariance == Spec => [](RingInv /\ ShownLast)
<1>1. Init => RingInv /\ ShownLast
  BY DEF Init, RingInv, RingTyped, Apart, HeldThen, InQueue, InFilled,
     ShownLast, None
<1>2. QED
  BY <1>1, NextKeepsRing, NextKeepsShownLast, PTL DEF Spec

(***************************************************************************)
(* The driver starts to write into the buffer that is shown only when it   *)
(* has no other (video_pipeline.rs:757, 774).                              *)
(***************************************************************************)
ShownRefilledLast ==
  FillStarts /\ mirrorErrors = 0 /\ filling' = shown => queued' = <<>>

THEOREM ShownKept == Spec => ShownNotRefilled
<1>1. RingInv /\ ShownLast /\ [Next]_vars => [ShownRefilledLast]_vars
  <2> SUFFICES ASSUME RingInv, ShownLast, FillStarts, mirrorErrors = 0,
                      filling' = shown
               PROVE  queued' = <<>>
    BY DEF ShownRefilledLast
  <2>1. /\ queued # <<>> /\ queued' = Tail(queued)
        /\ shown = Head(queued)
    BY DEF FillStarts
  <2>2. /\ Len(queued) \in Nat \ {0} /\ queued[1] = shown
        /\ queued' \in Seq(BufferIds) /\ Len(queued') = Len(queued) - 1
    BY <2>1, TailElements DEF RingInv, RingTyped
  <2>3. Len(queued) = 1
    BY <2>2 DEF ShownLast
  <2>4. QED
    BY <2>2, <2>3
<1>2. QED
  BY <1>1, RingInvariance, PTL DEF Spec, ShownNotRefilled, ShownRefilledLast

-----------------------------------------------------------------------------
(***************************************************************************)
(* Types.                                                                  *)
(***************************************************************************)
CountersTyped ==
  /\ pc \in PCs /\ source \in Sources
  /\ lost \in 0..MaxLost
  /\ mirrorErrors \in 0..(MirrorLimit - 1)
  /\ shown \in BufferIds \cup {None}
  /\ errors \in 0..(ErrorLimit - 1)

LEMMA FailedTyped ==
  ASSUME errors \in 0..(ErrorLimit - 1), Failed
  PROVE  errors' \in 0..(ErrorLimit - 1) /\ pc' \in {"top", "close"}
BY Constants DEF Failed

LEMMA NextKeepsCounters ==
  RingInv /\ CountersTyped /\ [Next]_vars => CountersTyped'
<1> SUFFICES ASSUME RingInv, CountersTyped, [Next]_vars PROVE CountersTyped'
  OBVIOUS
<1> USE Constants DEF CountersTyped, PCs, Sources
<1>1. CASE OpenV4l \/ OpenMplane \/ OpenFfmpeg
  <2>1. errors' = 0 /\ pc' = "build" /\ source' \in Sources
    BY <1>1 DEF OpenV4l, OpenMplane, OpenFfmpeg, OpenAs
  <2>2. CASE OpenMplane
    BY <2>1, <2>2 DEF OpenMplane, Ring
  <2>3. CASE OpenV4l \/ OpenFfmpeg
    BY <2>1, <2>3 DEF OpenV4l, OpenFfmpeg, ring, monitor
  <2>4. QED
    BY <1>1, <2>2, <2>3
<1>2. CASE \/ OpenFails \/ WorkerEnds \/ BuildSinks \/ NoteOutputs
           \/ PreviewRequested \/ NoteOutputsAgain \/ HotplugSeen
           \/ Rebuild \/ ReadNext \/ Leave
  BY <1>2 DEF OpenFails, WorkerEnds, BuildSinks, NoteOutputs,
     PreviewRequested, NoteOutputsAgain, HotplugSeen, Rebuild, ReadNext,
     Leave, ring, monitor, vars
<1>3. CASE Dequeue \/ Requeue \/ OtherFrame
  BY <1>3 DEF Dequeue, Requeue, OtherFrame, ring, monitor
<1>4. CASE SetPlane
  BY <1>4 DEF SetPlane, ring, RingInv, HeldThen
<1>5. CASE SetPlaneFails
  BY <1>5 DEF SetPlaneFails, ring
<1>6. CASE RequeueFails \/ BadIndex
  BY <1>6, FailedTyped DEF RequeueFails, BadIndex, monitor
<1>7. CASE DequeueFails \/ OtherFails
  BY <1>7, FailedTyped DEF DequeueFails, OtherFails, ring, monitor
<1>8. CASE StopSinks \/ DropSource
  BY <1>8 DEF StopSinks, DropSource, Ring, ring, monitor
<1>9. CASE \/ FillStarts \/ FillEnds \/ SetAuto \/ StopCalled \/ Plug
           \/ UNCHANGED vars
  BY <1>9 DEF FillStarts, FillEnds, SetAuto, StopCalled, Plug, ring, monitor,
     vars
<1>10. QED
  BY <1>1, <1>2, <1>3, <1>4, <1>5, <1>6, <1>7, <1>8, <1>9
     DEF Next, Proceed, Failure

LEMMA NextKeepsFlags == FlagsTyped /\ [Next]_vars => FlagsTyped'
<1> SUFFICES ASSUME FlagsTyped, [Next]_vars PROVE FlagsTyped'
  OBVIOUS
<1> USE DEF environment, monitor, preview
\* Most steps leave the flags alone.
<1>1. ASSUME UNCHANGED <<environment, preview, mirror>> PROVE FlagsTyped'
  BY <1>1, Zenon DEF FlagsTyped
<1>2. CASE OpenV4l \/ OpenMplane \/ OpenFfmpeg
  <2>1. /\ UNCHANGED <<environment, sinks, detected, missed>>
        /\ suppress' \in {FALSE, auto}
        /\ mirror' = mirror \/ mirror' \in BOOLEAN
    BY <1>2, Zenon DEF OpenV4l, OpenMplane, OpenFfmpeg, OpenAs
  <2>2. suppress' \in BOOLEAN
    BY <2>1, Zenon DEF FlagsTyped
  <2>3. QED
    BY <2>1, <2>2, Zenon DEF FlagsTyped
<1>3. CASE \/ OpenFails \/ WorkerEnds \/ ReadNext \/ Leave \/ Dequeue
           \/ SetPlane \/ Requeue \/ OtherFrame \/ UNCHANGED vars
  <2>1. UNCHANGED <<environment, preview, mirror>>
    BY <1>3 DEF OpenFails, WorkerEnds, ReadNext, Leave, Dequeue, SetPlane,
       Requeue, OtherFrame, vars
  <2>2. QED
    BY <1>1, <2>1
<1>4. CASE RequeueFails \/ DequeueFails \/ BadIndex \/ OtherFails
  <2>1. UNCHANGED <<environment, preview, mirror>>
    BY <1>4 DEF RequeueFails, DequeueFails, BadIndex, OtherFails
  <2>2. QED
    BY <1>1, <2>1
<1>5. CASE NoteOutputs \/ NoteOutputsAgain \/ HotplugSeen
  BY <1>5, Zenon DEF NoteOutputs, NoteOutputsAgain, HotplugSeen, FlagsTyped
<1>6. CASE BuildSinks \/ PreviewRequested \/ Rebuild
  <2>1. WantsSinks \in BOOLEAN
    BY DEF WantsSinks
  <2>2. sinks' = WantsSinks
    BY <1>6 DEF BuildSinks, PreviewRequested, Rebuild, BuildHdmiSinks
  <2>3. sinks' \in BOOLEAN
    BY <2>1, <2>2
  <2>4. CASE BuildSinks
    BY <2>3, <2>4, Zenon DEF BuildSinks, FlagsTyped
  <2>5. CASE PreviewRequested
    BY <2>3, <2>5, Zenon DEF PreviewRequested, FlagsTyped
  <2>6. CASE Rebuild
    BY <2>3, <2>6, Zenon DEF Rebuild, FlagsTyped
  <2>7. QED
    BY <1>6, <2>4, <2>5, <2>6
<1>7. CASE SetPlaneFails
  BY <1>7, Zenon DEF SetPlaneFails, FlagsTyped
<1>8. CASE StopSinks \/ DropSource
  BY <1>8, Zenon DEF StopSinks, DropSource, FlagsTyped
<1>9. CASE FillStarts \/ FillEnds
  <2>1. UNCHANGED <<environment, preview, mirror>>
    BY <1>9 DEF FillStarts, FillEnds
  <2>2. QED
    BY <1>1, <2>1
<1>10. CASE SetAuto \/ StopCalled
  BY <1>10 DEF SetAuto, StopCalled, FlagsTyped
<1>11. CASE Plug
  BY <1>11 DEF Plug, FlagsTyped
<1>12. QED
  BY <1>2, <1>3, <1>4, <1>5, <1>6, <1>7, <1>8, <1>9, <1>10, <1>11
     DEF Next, Proceed, Failure

(***************************************************************************)
(* The variables of Capture keep their types: in particular the counter of *)
(* failed reads stays below its limit, and the errors of the mirror.       *)
(***************************************************************************)
THEOREM TypeCorrect == Spec => []TypeOK
<1>1. Init => FlagsTyped /\ CountersTyped
  <2>1. Init => FlagsTyped
    BY DEF Init, FlagsTyped
  <2>2. Init => CountersTyped
    BY Constants DEF Init, CountersTyped, PCs, Sources
  <2>3. QED
    BY <2>1, <2>2
<1>2. RingInv /\ CountersTyped /\ FlagsTyped => TypeOK
  BY DEF RingInv, RingTyped, CountersTyped, TypeOK, StateTyped
<1>3. QED
  BY <1>1, <1>2, NextKeepsCounters, NextKeepsFlags, RingInvariance, PTL
     DEF Spec

-----------------------------------------------------------------------------
(***************************************************************************)
(* No buffer of the ring goes astray: each is with the driver, on its way, *)
(* with the loop, or was lost by a failed VIDIOC_QBUF or a bad index.      *)
(***************************************************************************)
One(b) == IF b = None THEN 0 ELSE 1

AllBuffersThere ==
  source = "mplane" =>
    Len(queued) + One(filling) + Len(filled) + One(held) + lost = Buffers

\* The loop holds no buffer elsewhere, and shows or requeues only those of
\* the ring.
LoopHolds ==
  /\ pc \notin {"show", "requeue"} => held = None
  /\ pc \in {"show", "requeue"} => source = "mplane"

AccountInv == AllBuffersThere /\ LoopHolds /\ lost \in Nat

LEMMA NewRingAccount ==
  ASSUME Ring([i \in BufferIds |-> i]), pc' = "build" PROVE AccountInv'
<1>1. /\ filling' = None /\ held' = None /\ filled' = <<>> /\ lost' = 0
      /\ queued' = [i \in 1..Buffers |-> i]
  BY DEF Ring, BufferIds
<1>2. Len(queued') = Buffers /\ Len(filled') = 0
  BY <1>1, Constants
<1>3. AllBuffersThere'
  BY <1>1, <1>2, Constants DEF AllBuffersThere, One
<1>4. LoopHolds' /\ lost' \in Nat
  BY <1>1 DEF LoopHolds
<1>5. QED
  BY <1>3, <1>4 DEF AccountInv

LEMMA NextKeepsAccount ==
  RingInv /\ AccountInv /\ [Next]_vars => AccountInv'
<1> SUFFICES ASSUME RingInv, AccountInv, [Next]_vars PROVE AccountInv'
  OBVIOUS
<1> USE DEF RingInv, RingTyped, AccountInv, LoopHolds
<1>1. CASE OpenMplane
  BY <1>1, NewRingAccount DEF OpenMplane, OpenAs
<1>2. CASE DropSource
  <2>1. source' = "none" /\ held' = None /\ lost' = 0 /\ pc' = "closed"
    BY <1>2 DEF DropSource, Ring
  <2>2. QED
    BY <2>1 DEF AllBuffersThere
<1>3. CASE FillStarts
  <2>1. /\ queued # <<>> /\ filling = None
        /\ filling' = Head(queued) /\ queued' = Tail(queued)
        /\ UNCHANGED <<pc, source, filled, held, lost>>
    BY <1>3 DEF FillStarts
  <2>2. /\ Len(queued) \in Nat \ {0} /\ Len(queued') = Len(queued) - 1
        /\ filling' \in BufferIds
    BY <2>1, TailElements
  <2>3. One(filling) = 0 /\ One(filling') = 1
    BY <2>1, <2>2 DEF One, None, BufferIds
  <2>4. Len(filled) \in Nat /\ One(held) \in Nat
    BY DEF One
  <2>5. AllBuffersThere'
    BY <2>1, <2>2, <2>3, <2>4, Constants DEF AllBuffersThere
  <2>6. QED
    BY <2>1, <2>5
<1>4. CASE FillEnds
  <2>1. /\ filling # None /\ filling' = None
        /\ filled' = Append(filled, filling)
        /\ UNCHANGED <<pc, source, queued, held, lost>>
    BY <1>4 DEF FillEnds
  <2>2. Len(filled) \in Nat /\ Len(filled') = Len(filled) + 1
    BY <2>1, AppendElements
  <2>3. One(filling) = 1 /\ One(filling') = 0
    BY <2>1 DEF One
  <2>4. Len(queued) \in Nat /\ One(held) \in Nat
    BY DEF One
  <2>5. AllBuffersThere'
    BY <2>1, <2>2, <2>3, <2>4, Constants DEF AllBuffersThere
  <2>6. QED
    BY <2>1, <2>5
<1>5. CASE Dequeue
  <2>1. /\ filled # <<>> /\ source = "mplane" /\ pc = "next"
        /\ held' = Head(filled) /\ filled' = Tail(filled)
        /\ pc' \in {"show", "requeue"}
        /\ UNCHANGED <<source, queued, filling, lost>>
    BY <1>5 DEF Dequeue
  <2>2. /\ Len(filled) \in Nat \ {0} /\ Len(filled') = Len(filled) - 1
        /\ held' \in BufferIds
    BY <2>1, TailElements
  <2>3. One(held) = 0 /\ One(held') = 1
    BY <2>1, <2>2 DEF One, None, BufferIds
  <2>4. Len(queued) \in Nat /\ One(filling) \in Nat
    BY DEF One
  <2>5. AllBuffersThere'
    BY <2>1, <2>2, <2>3, <2>4, Constants DEF AllBuffersThere
  <2>6. QED
    BY <2>1, <2>5
<1>6. CASE Requeue \/ RequeueFails
  <2>1. /\ pc = "requeue" /\ held' = None
        /\ pc' \notin {"show", "requeue"}
        /\ UNCHANGED <<source, filling, filled>>
    BY <1>6 DEF Requeue, RequeueFails, Failed
  <2>2. held \in BufferIds /\ One(held) = 1 /\ One(held') = 0
    BY <2>1 DEF HeldThen, One, None, BufferIds
  <2>3. \/ queued' = Append(queued, held) /\ lost' = lost
        \/ queued' = queued /\ lost' = lost + 1
    BY <1>6 DEF Requeue, RequeueFails
  <2>4. Len(queued) \in Nat /\ Len(queued') + lost' = Len(queued) + lost + 1
    <3>1. Len(queued) \in Nat /\ Len(Append(queued, held)) = Len(queued) + 1
      BY <2>2, AppendElements
    <3>2. CASE queued' = Append(queued, held) /\ lost' = lost
      <4>1. Len(queued') = Len(queued) + 1
        BY <3>1, <3>2
      <4>2. QED
        BY <3>1, <3>2, <4>1
    <3>3. CASE queued' = queued /\ lost' = lost + 1
      BY <3>1, <3>3
    <3>4. QED
      BY <2>3, <3>2, <3>3
  <2>5. Len(filled) \in Nat /\ One(filling) \in Nat /\ Len(queued') \in Nat
        /\ lost' \in Nat
    BY <2>3, <2>4, <2>2, AppendElements DEF One
  <2>6. AllBuffersThere'
    BY <2>1, <2>2, <2>4, <2>5, Constants, SMTT(30) DEF AllBuffersThere
  <2>7. QED
    BY <2>1, <2>5, <2>6
<1>7. CASE SetPlane \/ SetPlaneFails
  BY <1>7 DEF SetPlane, SetPlaneFails, ring, AllBuffersThere
<1>8. CASE OpenV4l \/ OpenFfmpeg
  <2>1. source' # "mplane" /\ pc = "closed" /\ pc' = "build"
        /\ UNCHANGED <<held, lost>>
    BY <1>8 DEF OpenV4l, OpenFfmpeg, OpenAs, ring
  <2>2. QED
    BY <2>1 DEF AllBuffersThere
<1>9. CASE \/ WorkerEnds \/ BuildSinks
           \/ NoteOutputs \/ PreviewRequested \/ NoteOutputsAgain
           \/ HotplugSeen \/ Rebuild \/ ReadNext \/ Leave \/ OtherFrame
           \/ StopSinks \/ OpenFails \/ DequeueFails \/ OtherFails
           \/ SetAuto \/ StopCalled \/ Plug \/ UNCHANGED vars
  <2>1. UNCHANGED <<ring, source>>
    BY <1>9 DEF WorkerEnds, BuildSinks,
       NoteOutputs, PreviewRequested, NoteOutputsAgain, HotplugSeen, Rebuild,
       ReadNext, Leave, OtherFrame, StopSinks, OpenFails, DequeueFails,
       OtherFails, SetAuto, StopCalled, Plug, vars
  <2>2. pc' = pc \/ {pc, pc'} \cap {"show", "requeue"} = {}
    BY <1>9 DEF WorkerEnds, BuildSinks,
       NoteOutputs, PreviewRequested, NoteOutputsAgain, HotplugSeen, Rebuild,
       ReadNext, Leave, OtherFrame, StopSinks, OpenFails, DequeueFails,
       OtherFails, Failed, SetAuto, StopCalled, Plug, vars
  <2>3. QED
    BY <2>1, <2>2 DEF ring, AllBuffersThere
<1>10. CASE BadIndex
  <2>1. /\ filled # <<>> /\ filled' = Tail(filled)
        /\ pc = "next" /\ pc' \notin {"show", "requeue"}
        /\ lost' = lost + 1
        /\ UNCHANGED <<source, queued, filling, held>>
    BY <1>10 DEF BadIndex, Failed
  <2>2. Len(filled) \in Nat \ {0} /\ Len(filled') = Len(filled) - 1
    BY <2>1, TailElements
  <2>3. Len(queued) \in Nat /\ One(filling) \in Nat /\ One(held) \in Nat
    BY DEF One
  <2>4. One(filling)' = One(filling) /\ One(held)' = One(held)
    BY <2>1 DEF One
  <2>5. AllBuffersThere'
    <3> HIDE DEF RingInv, RingTyped, LoopHolds
    <3>1. AllBuffersThere /\ lost \in Nat
      OBVIOUS
    <3>2. QED
      BY <2>1, <2>2, <2>3, <2>4, <3>1, Constants DEF AllBuffersThere
  <2>6. QED
    BY <2>1, <2>5
<1>11. QED
  BY <1>1, <1>2, <1>3, <1>4, <1>5, <1>6, <1>7, <1>8, <1>9, <1>10
     DEF Next, Proceed, Failure

LEMMA AccountInvariance == Spec => [](RingInv /\ AccountInv)
<1>1. Init => AccountInv
  BY DEF Init, AccountInv, AllBuffersThere, LoopHolds
<1>2. Spec => []RingInv
  BY RingInvariance, PTL
<1>3. QED
  BY <1>1, <1>2, NextKeepsAccount, PTL DEF Spec

(***************************************************************************)
(* The buffers the driver granted are all accounted for, whatever reads,   *)
(* planes and requeues fail (:724-780): only a failed VIDIOC_QBUF, or an   *)
(* index out of range, loses one.                                          *)
(***************************************************************************)
THEOREM BuffersAccountedFor == Spec => []AllBuffersThere
<1>1. AccountInv => AllBuffersThere
  BY DEF AccountInv
<1>2. QED
  BY <1>1, AccountInvariance, PTL

(***************************************************************************)
(* A next_frame that waits, testing no flag (:786), waits for the driver,  *)
(* and that has a buffer to fill or is filling one, unless all were lost:  *)
(* what FramesCome needs besides fairness.                                 *)
(***************************************************************************)
FrameOnItsWay ==
  pc = "next" /\ source = "mplane" /\ lost # Buffers =>
    filled # <<>> \/ filling # None \/ queued # <<>>

THEOREM ReadsGetFrames == Spec => []FrameOnItsWay
<1>1. RingInv /\ AccountInv => FrameOnItsWay
  <2> SUFFICES ASSUME AccountInv, pc = "next", source = "mplane",
                      filled = <<>>, filling = None, queued = <<>>
               PROVE  lost = Buffers
    BY DEF FrameOnItsWay
  <2>1. held = None
    BY DEF AccountInv, LoopHolds
  <2>2. QED
    BY <2>1, Constants DEF AccountInv, AllBuffersThere, One
<1>2. QED
  BY <1>1, AccountInvariance, PTL

=============================================================================
