---------------------------- MODULE MCChannelWindow ----------------------------
(***************************************************************************)
(* An instance of ChannelWindow for TLC: sizes of a few bytes, chosen so   *)
(* that the cap, both packet limits and an empty window all come into play. *)
(***************************************************************************)
EXTENDS ChannelWindow
=============================================================================
