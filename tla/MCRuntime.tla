------------------------------ MODULE MCRuntime ------------------------------
(* Runtime for TLC; the configurations give the constants. *)
EXTENDS Runtime
=============================================================================
