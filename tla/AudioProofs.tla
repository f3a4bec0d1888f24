----------------------------- MODULE AudioProofs -----------------------------
(***************************************************************************)
(* AudioPipeline keeps its types and, when an input was open from the      *)
(* start, never overruns a read buffer: for any inputs, any number of      *)
(* channels and any restart limit.  The audio stamps (AudioClock) stay     *)
(* with the presentation clock: for every duration of a frame, threshold   *)
(* and correction, and every sound card whose skew the correction can      *)
(* make up for.                                                            *)
(***************************************************************************)
EXTENDS AudioPipeline, AudioClock, TLAPS

(***************************************************************************)
(* The flags stay Boolean.                                                 *)
(***************************************************************************)
LEMMA FlagsStep == FlagsTyped /\ [Next]_vars => FlagsTyped'
<1> SUFFICES ASSUME FlagsTyped, [Next]_vars PROVE FlagsTyped'
  OBVIOUS
<1> USE DEF FlagsTyped, history
<1>1. CASE Start \/ Stop \/ Join \/ Environment
  BY <1>1 DEF Start, Stop, Join, Environment, Plug, Unplug, Take, CoolDown
<1>2. CASE OpenReturns
  BY <1>2 DEF OpenReturns, OpenSucceeds, BeginOpened, SilentOpened,
     RestartOpened, BeginFails, SilentFails, RestartFails, AudioStep
<1>3. CASE Round
  BY <1>3 DEF Round, Top, SilentRound, Read, NoDataYet, FailedRound, Mix,
     MixPanics, AudioStep
<1>4. CASE UNCHANGED vars
  BY <1>4 DEF vars
<1>5. QED
  BY <1>1, <1>2, <1>3, <1>4 DEF Next

\* So do the other variables keep their types.
LEMMA StateStep == StateTyped /\ [Next]_vars => StateTyped'
<1> USE InputsAssumption, ChannelsAssumption, RestartAssumption
<1> SUFFICES ASSUME StateTyped, [Next]_vars PROVE StateTyped'
  OBVIOUS
<1> USE DEF StateTyped, inputs, devices, history
<1>1. CASE Start \/ Stop \/ Join \/ Environment
  BY <1>1 DEF Start, Stop, Join, Environment, Plug, Unplug, Take, CoolDown
<1>2. CASE OpenSucceeds
  <2> PICK O \in Openings : BeginOpened(O) \/ SilentOpened(O) \/ RestartOpened(O)
    BY <1>2 DEF OpenSucceeds
  <2>1. /\ TakeInputs(O) /\ UNCHANGED <<expected, caller, devices, result>>
        /\ pc' = "top" /\ round' \in {round, "reopened"}
        /\ (ResizeBuffers \/ UNCHANGED room) /\ failures' \in {0, failures}
    BY DEF BeginOpened, SilentOpened, RestartOpened, AudioStep
  <2>2. channels' \in [Inputs -> {0} \cup ChannelCounts]
        /\ handle' \in [Inputs -> {"none", "live", "dead"}]
    BY <2>1 DEF TakeInputs
  <2>3. room' \in [Inputs -> {1} \cup ChannelCounts]
    BY <2>1, <2>2 DEF ResizeBuffers, AtLeastOne
  <2>4. QED
    BY <2>1, <2>2, <2>3
<1>3. CASE \/ BeginFails \/ SilentFails \/ RestartFails
           \/ Top \/ SilentRound \/ Read \/ NoDataYet
  BY <1>3 DEF BeginFails, SilentFails, RestartFails, Top, SilentRound, Read,
     NoDataYet, AudioStep
<1>4. CASE FailedRound \/ Mix \/ MixPanics
  BY <1>4 DEF FailedRound, CountFailure, Mix, MixPanics, AudioStep
<1>5. CASE UNCHANGED vars
  BY <1>5 DEF vars
<1>6. QED
  BY <1>1, <1>2, <1>3, <1>4, <1>5 DEF Next, OpenReturns, Round

(***************************************************************************)
(* The types of AudioPipeline's variables are what TypeOK says; in         *)
(* particular every read buffer has room for one channel, or for those of  *)
(* the device (the max(1) of audio_pipeline.rs:254-255, 484-485).          *)
(***************************************************************************)
THEOREM TypeCorrect == Spec => []TypeOK
<1>1. Init => FlagsTyped
  BY DEF Init, FlagsTyped
<1>2. Init => StateTyped
  BY RestartAssumption, InputsAssumption DEF Init, StateTyped
<1>3. FlagsTyped /\ StateTyped => TypeOK
  BY DEF TypeOK
<1>4. QED
  BY <1>1, <1>2, <1>3, FlagsStep, StateStep, PTL DEF Spec

-----------------------------------------------------------------------------
(***************************************************************************)
(* The argument: reopening without resizing happens only in the silent     *)
(* round, which is reached only with no input open; and where an input was *)
(* open from the start, some input stays open for ever, because a restart  *)
(* replaces the inputs only by others.                                     *)
(***************************************************************************)
BuffersFit == \A i \in Inputs : channels[i] <= room[i]

KeptOpen == openAtStart => Opened # {} /\ BuffersFit /\ pc # "panicked"

NotYetOpen ==
  /\ caller = "new" => pc = "unborn"
  /\ pc \in {"unborn", "begin"} => ~openAtStart

SilentOnlyWithout == pc \in {"silent", "retry"} => Opened = {}

OnlyExpected == Opened \subseteq expected

RoomInv ==
  StateTyped /\ KeptOpen /\ NotYetOpen /\ SilentOnlyWithout /\ OnlyExpected

(***************************************************************************)
(* What an opening leaves: exactly the inputs of O are open, and O is      *)
(* empty only when no input is expected.                                   *)
(***************************************************************************)
LEMMA OpeningOpens ==
  ASSUME expected \subseteq Inputs, NEW O \in Openings, TakeInputs(O)
  PROVE  Opened' = O /\ O \subseteq expected /\ (expected # {} => O # {})
<1>1. O \subseteq expected /\ (expected # {} => O # {})
  BY DEF Openings
<1>2. Opened' = O
  BY <1>1 DEF TakeInputs, Opened
<1>3. QED
  BY <1>1, <1>2

\* Numbers of channels are natural numbers.
LEMMA CountsNatural ==
  {0} \cup ChannelCounts \subseteq Nat /\ {1} \cup ChannelCounts \subseteq Nat
<1>1. \A n \in ChannelCounts : n \in Nat \ {0}
  BY ChannelsAssumption, Zenon
<1>2. \A n \in ChannelCounts : n \in Nat
  BY <1>1
<1>3. QED
  BY <1>2

\* Resized buffers have room for the channels just negotiated.
LEMMA ResizedFit ==
  ASSUME NEW O, TakeInputs(O), ResizeBuffers PROVE BuffersFit'
<1> SUFFICES ASSUME NEW i \in Inputs PROVE channels'[i] <= room'[i]
  BY DEF BuffersFit
<1>1. channels'[i] \in {0} \cup ChannelCounts
  BY DEF TakeInputs
<1>2. channels'[i] \in Nat
  BY <1>1, CountsNatural
<1>3. room'[i] = AtLeastOne(channels'[i])
  BY DEF ResizeBuffers
<1>4. QED
  BY <1>2, <1>3 DEF AtLeastOne

\* Every step keeps the invariant of the argument.
LEMMA RoomStep == RoomInv /\ [Next]_vars => RoomInv'
<1> SUFFICES ASSUME RoomInv, [Next]_vars PROVE RoomInv'
  OBVIOUS
<1> USE DEF RoomInv
<1>1. StateTyped'
  BY StateStep
<1>2. CASE Start \/ Stop \/ Join
  <2>1. UNCHANGED <<expected, channels, room, handle, openAtStart>>
    BY <1>2 DEF Start, Stop, Join, inputs, history
  <2>2. /\ caller' # "new"
        /\ pc' = pc \/ (pc = "unborn" /\ pc' = "begin")
    BY <1>2 DEF Start, Stop, Join, NotYetOpen
  <2>3. QED
    BY <1>1, <2>1, <2>2 DEF KeptOpen, NotYetOpen, SilentOnlyWithout,
       OnlyExpected, Opened, BuffersFit
<1>3. CASE Environment
  <2>1. /\ Opened' = Opened
        /\ UNCHANGED <<expected, caller, pc, channels, room, openAtStart>>
    BY <1>3 DEF Environment, Plug, Unplug, Take, CoolDown, Opened, StateTyped,
       inputs, history
  <2>2. QED
    BY <1>1, <2>1 DEF KeptOpen, NotYetOpen, SilentOnlyWithout, OnlyExpected,
       BuffersFit
<1>4. CASE OpenSucceeds
  <2> PICK O \in Openings : BeginOpened(O) \/ SilentOpened(O) \/ RestartOpened(O)
    BY <1>4 DEF OpenSucceeds
  <2>1. TakeInputs(O) /\ pc' = "top" /\ pc # "unborn"
        /\ UNCHANGED <<expected, caller>>
    BY DEF BeginOpened, SilentOpened, RestartOpened, AudioStep
  <2>2. Opened' = O /\ O \subseteq expected /\ (expected # {} => O # {})
    BY <2>1, OpeningOpens DEF StateTyped
  <2>3. NotYetOpen' /\ SilentOnlyWithout' /\ OnlyExpected'
    BY <2>1, <2>2 DEF NotYetOpen, SilentOnlyWithout, OnlyExpected
  <2> SUFFICES KeptOpen'
    BY <1>1, <2>3
  <2>4. CASE BeginOpened(O)
    BY <2>1, <2>2, <2>4, ResizedFit DEF BeginOpened, KeptOpen
  <2>5. CASE SilentOpened(O)
    <3>1. Opened = {} /\ UNCHANGED openAtStart
      BY <2>5 DEF SilentOpened, AudioStep, SilentOnlyWithout, history
    <3>2. QED
      BY <2>1, <3>1 DEF KeptOpen
  <2>6. CASE RestartOpened(O)
    <3>1. openAtStart => expected # {}
      BY DEF KeptOpen, OnlyExpected
    <3>2. UNCHANGED openAtStart /\ BuffersFit'
      BY <2>1, <2>6, ResizedFit DEF RestartOpened, history
    <3>3. QED
      BY <2>1, <2>2, <3>1, <3>2 DEF KeptOpen
  <2>7. QED
    BY <2>4, <2>5, <2>6
<1>5. CASE \/ BeginFails \/ SilentFails \/ RestartFails
           \/ Top \/ SilentRound \/ Read \/ NoDataYet \/ FailedRound \/ Mix
  <2>1. UNCHANGED <<expected, channels, room, handle, openAtStart>>
    BY <1>5 DEF BeginFails, SilentFails, RestartFails, Top, SilentRound, Read,
       NoDataYet, FailedRound, Mix, AudioStep, inputs, history
  <2>2. /\ pc # "unborn" /\ caller' = caller
        /\ pc' \in {"top", "exited", "silent", "retry", "read", "decide",
                    "restart"}
        /\ pc' = "silent" => Opened = {}
        /\ pc' = "retry" => pc = "silent"
    BY <1>5 DEF BeginFails, SilentFails, RestartFails, Top, SilentRound, Read,
       NoDataYet, FailedRound, Mix, AudioStep
  <2>3. QED
    BY <1>1, <2>1, <2>2 DEF KeptOpen, NotYetOpen, SilentOnlyWithout,
       OnlyExpected, Opened, BuffersFit
<1>6. CASE MixPanics
  <2>1. PICK i \in Inputs : channels[i] > room[i]
    BY <1>6 DEF MixPanics, Overrun, Got, Opened
  <2>2. ~openAtStart
    <3>1. channels[i] \in Nat /\ room[i] \in Nat
      <4>1. channels[i] \in {0} \cup ChannelCounts
        BY DEF StateTyped
      <4>2. room[i] \in {1} \cup ChannelCounts
        BY DEF StateTyped
      <4>3. QED
        BY <4>1, <4>2, CountsNatural
    <3>2. ~BuffersFit
      BY <2>1, <3>1 DEF BuffersFit
    <3>3. QED
      BY <3>2 DEF KeptOpen
  <2>3. /\ UNCHANGED <<expected, caller, channels, room, handle, openAtStart>>
        /\ pc = "decide" /\ pc' = "panicked"
    BY <1>6 DEF MixPanics, AudioStep, inputs, history
  <2>4. QED
    BY <1>1, <2>2, <2>3 DEF KeptOpen, NotYetOpen, SilentOnlyWithout,
       OnlyExpected, Opened
<1>7. CASE UNCHANGED vars
  BY <1>1, <1>7 DEF vars, KeptOpen, NotYetOpen, SilentOnlyWithout,
     OnlyExpected, Opened, BuffersFit, inputs, history
<1>8. QED
  BY <1>2, <1>3, <1>4, <1>5, <1>6, <1>7 DEF Next, OpenReturns, Round

(***************************************************************************)
(* A thread that had an input when it started never indexes beyond a read  *)
(* buffer, whatever fails, vanishes or is opened again later               *)
(* (run_audio_loop, audio_pipeline.rs:463-492 and 514-537).                *)
(***************************************************************************)
THEOREM NoPanicWithInput == Spec => []NoPanicAfterStart
<1>1. Init => RoomInv
  BY RestartAssumption DEF Init, RoomInv, StateTyped, KeptOpen, NotYetOpen,
     SilentOnlyWithout, OnlyExpected, Opened
<1>2. RoomInv => NoPanicAfterStart
  BY DEF RoomInv, KeptOpen, NoPanicAfterStart
<1>3. QED
  BY <1>1, <1>2, RoomStep, PTL DEF Spec

-----------------------------------------------------------------------------
(***************************************************************************)
(* What one frame makes of the lead: the drift that is left.               *)
(***************************************************************************)
LEMMA FrameLeavesDrift ==
  ASSUME NEW off \in -Skew..Skew, lead \in Int, StampAfter(Interval + off)
  PROVE  lead' = (lead - off) + Correction(off - lead)
<1> USE ClockAssumption
<1> DEFINE drift == off - lead
<1>1. drift \in Int
  OBVIOUS
<1>2. Correction(drift) \in -MaxCorrection..MaxCorrection
  BY <1>1 DEF Correction, Clamp
<1>3. Interval + Correction(drift) > 0
  BY <1>2
<1>4. (Interval + off) - Interval - lead = drift
  OBVIOUS
<1>5. lead' = lead - (Interval + off)
              + (IF Interval + Correction(drift) <= 0
                 THEN 1 ELSE Interval + Correction(drift))
  BY <1>4, Zenon DEF StampAfter
<1>6. QED
  BY <1>2, <1>3, <1>5

(***************************************************************************)
(* The band is kept: a drift beyond the threshold is at most twice the     *)
(* skew beyond it, and the correction takes off at least one skew.         *)
(***************************************************************************)
LEMMA FrameKeepsBand ==
  ASSUME lead \in Int, InBand, Frame PROVE lead' \in Int /\ InBand'
<1> USE ClockAssumption
<1> PICK off \in -Skew..Skew : StampAfter(Interval + off)
  BY DEF Frame
<1>1. lead' = (lead - off) + Correction(off - lead)
  BY FrameLeavesDrift
<1>2. CASE off - lead > Threshold
  BY <1>1, <1>2 DEF Correction, Clamp, InBand
<1>3. CASE off - lead < -Threshold
  BY <1>1, <1>3 DEF Correction, Clamp, InBand
<1>4. CASE -Threshold <= off - lead /\ off - lead <= Threshold
  BY <1>1, <1>4 DEF Correction, InBand
<1>5. QED
  BY <1>2, <1>3, <1>4

(***************************************************************************)
(* "Both audio and video must use the same timebase for A/V sync"          *)
(* (timebase.rs:4): until a read fails or data is missing, the audio       *)
(* stamps are within the threshold of the presentation clock.              *)
(***************************************************************************)
THEOREM StaysInSync == ClockSpec => []InSync
<1> USE ClockAssumption
<1> DEFINE Inv == upsets \in Nat /\ (upsets = 0 => lead \in Int /\ InBand)
<1>1. ClockInit => Inv
  BY DEF ClockInit, InBand
<1>2. Inv /\ [ClockNext]_clockVars => Inv'
  <2> SUFFICES ASSUME Inv, [ClockNext]_clockVars PROVE Inv'
    OBVIOUS
  <2>1. CASE First \/ UNCHANGED clockVars
    BY <2>1 DEF First, clockVars, InBand
  <2>2. CASE Frame
    <3>1. UNCHANGED upsets
      BY <2>2 DEF Frame
    <3>2. upsets = 0 => lead' \in Int /\ InBand'
      BY <2>2, FrameKeepsBand
    <3>3. QED
      BY <3>1, <3>2
  <2>3. CASE FailedFrame \/ NoFrame
    BY <2>3 DEF FailedFrame, NoFrame
  <2>4. QED
    BY <2>1, <2>2, <2>3 DEF ClockNext
<1>3. Inv => InSync
  BY DEF InSync
<1>4. QED
  BY <1>1, <1>2, <1>3, PTL DEF ClockSpec

=============================================================================
