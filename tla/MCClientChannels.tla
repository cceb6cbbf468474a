--------------------------- MODULE MCClientChannels ---------------------------
(* Instances of ClientChannels for TLC. *)
EXTENDS ClientChannels
===============================================================================
