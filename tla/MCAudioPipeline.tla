--------------------------- MODULE MCAudioPipeline ---------------------------
(* AudioPipeline for TLC; the configurations give the mode. *)
EXTENDS AudioPipeline
=============================================================================
