--------------------------- MODULE MCOverlayInput ---------------------------
(* OverlayInput for TLC: the configurations bound HoldFrames.              *)
EXTENDS OverlayInput

=============================================================================
