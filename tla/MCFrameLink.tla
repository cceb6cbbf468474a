------------------------------ MODULE MCFrameLink ------------------------------
(* Instances of FrameLink for TLC. *)
EXTENDS FrameLink
=============================================================================
