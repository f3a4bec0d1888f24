--------------------------- MODULE MCVideoPipeline ---------------------------
(* VideoPipeline for TLC; the configurations give the constants. *)
EXTENDS VideoPipeline
=============================================================================
