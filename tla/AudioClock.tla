----------------------------- MODULE AudioClock -----------------------------
(***************************************************************************)
(* AudioTimestampClock of src/omtencoder/src/audio_pipeline.rs: the time   *)
(* stamps of the audio frames.  They advance by the duration of a frame,   *)
(* and are pulled towards the presentation clock, which the video frames   *)
(* are stamped with (timebase.rs), by a limited correction per frame.      *)
(*                                                                         *)
(* Only the difference of the two clocks matters: lead is the last stamp   *)
(* less the target of the moment it was given, presentation_100ns() less   *)
(* the duration of a frame.                                                *)
(***************************************************************************)
EXTENDS Integers

CONSTANTS
  Interval,        \* duration of a frame
  Threshold,       \* CORRECTION_THRESHOLD_100NS
  MaxCorrection,   \* (interval / 40).clamp(5_000, 20_000)
  Skew,            \* how far a captured frame's real duration is off
  FailedPause,     \* time from a frame of silence to the next when reads fail
  Gap,             \* how long the inputs may be without data
  MaxUpsets        \* bound on the failed reads and the gaps

\* A frame lasts longer than a correction, and the correction more than the
\* skew of the device: 40 ms, 1 ms and a few microseconds by default.
ASSUME ClockAssumption ==
  /\ Interval \in Nat /\ Threshold \in Nat /\ MaxCorrection \in Nat
  /\ Skew \in Nat /\ FailedPause \in Nat /\ Gap \in Nat /\ MaxUpsets \in Nat
  /\ Skew <= MaxCorrection /\ MaxCorrection <= Threshold
  /\ MaxCorrection < Interval

VARIABLES
  started,   \* timestamp_100ns is no longer 0
  lead,      \* timestamp_100ns less the target it was computed with
  upsets     \* failed reads and gaps so far

clockVars == <<started, lead, upsets>>

ClockInit == started = FALSE /\ lead = 0 /\ upsets = 0

Clamp(n, bound) ==
  IF n > bound THEN bound ELSE IF n < -bound THEN -bound ELSE n

\* Mutant: no correction.
CorrectionNone(drift) == 0

\* Mutant: a threshold of ten times the value.
CorrectionLate(drift) ==
  IF drift > 10 * Threshold \/ drift < -(10 * Threshold)
  THEN Clamp(drift, MaxCorrection) ELSE 0

Correction(drift) ==
  IF drift > Threshold \/ drift < -Threshold
  THEN Clamp(drift, MaxCorrection) ELSE 0

\* next(): the stamp moves on by at least 1.
StampAfter(elapsed) ==
  LET drift == elapsed - Interval - lead
      advance == Interval + Correction(drift)
  IN lead' = lead - elapsed + (IF advance <= 0 THEN 1 ELSE advance)

First ==
  /\ ~started
  /\ started' = TRUE
  /\ UNCHANGED <<lead, upsets>>

\* A frame that was captured, or the paced silence of a loop without inputs.
Frame ==
  /\ started
  /\ \E off \in -Skew..Skew : StampAfter(Interval + off)
  /\ UNCHANGED <<started, upsets>>

\* A round in which every input failed sends a frame of silence and sleeps
\* for 10 ms, whatever the duration of the frame.
FailedFrame ==
  /\ started /\ upsets < MaxUpsets
  /\ StampAfter(FailedPause)
  /\ upsets' = upsets + 1
  /\ UNCHANGED started

\* The inputs are without data, or are opened again: nothing is sent.
NoFrame ==
  /\ started /\ upsets < MaxUpsets
  /\ lead' = lead - Gap
  /\ upsets' = upsets + 1
  /\ UNCHANGED started

ClockNext == First \/ Frame \/ FailedFrame \/ NoFrame

ClockSpec == ClockInit /\ [][ClockNext]_clockVars

\* The audio thread goes on sending frames.
ClockFairSpec == ClockSpec /\ WF_clockVars(First) /\ WF_clockVars(Frame)

-----------------------------------------------------------------------------
\* The lead is within the threshold, and what the clocks drift in a frame.
InBand == -(Threshold + Skew) <= lead /\ lead <= Threshold + Skew

(***************************************************************************)
(* "Both audio and video must use the same timebase for A/V sync."         *)
(* (timebase.rs:4): as long as no read failed and no data was missing, the *)
(* audio stamps stay within the threshold of the presentation clock,       *)
(* though the clock of the sound card is not that clock.                   *)
(***************************************************************************)
InSync == upsets = 0 => InBand

(***************************************************************************)
(* After the last failure or gap, the audio stamps come back to the        *)
(* presentation clock and stay there (the correction of next,              *)
(* audio_pipeline.rs:45-51).  Frames are then as far apart as they last:   *)
(* with two inputs that need not be so, since a read takes what there is   *)
(* (:1269-1285) and a round sends a whole frame for it.                    *)
(***************************************************************************)
Resync == <>[]InBand

=============================================================================
