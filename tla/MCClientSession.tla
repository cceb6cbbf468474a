---------------------------- MODULE MCClientSession ----------------------------
(***************************************************************************)
(* Instances of ClientSession for TLC: a pty, pipes, or either.            *)
(***************************************************************************)
EXTENDS ClientSession
=============================================================================
