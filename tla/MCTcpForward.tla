----------------------------- MODULE MCTcpForward -----------------------------
(***************************************************************************)
(* Instances of TcpForward for TLC.  Streams are interchangeable, and so   *)
(* are listeners.                                                          *)
(***************************************************************************)
EXTENDS TcpForward, TLC

Symmetry == Permutations(Streams) \cup Permutations(Listeners)
=============================================================================
