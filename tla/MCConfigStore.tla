---------------------------- MODULE MCConfigStore ----------------------------
(***************************************************************************)
(* ConfigStore for TLC.  Two fields and two values are enough to tell      *)
(* whose value a field has; the autodetection sets one field, and the      *)
(* requests clamp the other, whose default is outside the range.  The      *)
(* requests can be exchanged for each other.                               *)
(***************************************************************************)
EXTENDS ConfigStore, TLC

CONSTANTS v1, v2, device, queue, r1, r2

MCRequests == {r1, r2}
AnyRequest == Permutations(MCRequests)
MCFields == {device, queue}
MCValues == {v1, v2}
MCDetected == {device}
MCDefaults == [f \in MCFields |-> IF f = queue THEN v2 ELSE v1]
MCLegacy == [f \in MCFields |-> v2]
MCClamped ==
  [f \in MCFields |-> [v \in MCValues |-> IF f = queue THEN v1 ELSE v]]

=============================================================================
