----------------------------- MODULE MCBackpressure -----------------------------
(* Instances of Backpressure for TLC. *)
EXTENDS Backpressure
===============================================================================
