---------------------------- MODULE MCAudioClock ----------------------------
(* AudioClock for TLC; the configurations give durations in 0.1 ms. *)
EXTENDS AudioClock
=============================================================================
