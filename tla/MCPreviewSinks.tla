--------------------------- MODULE MCPreviewSinks ---------------------------
(* PreviewSinks for TLC: lists of up to two outputs. *)
EXTENDS PreviewSinks

MCLists ==
  LET Entry == [device : Devices, usable : BOOLEAN]
  IN {<<>>} \cup {<<e>> : e \in Entry} \cup {<<e, f>> : e, f \in Entry}
=============================================================================
