--------------------------- MODULE MCClientRegistry ---------------------------
(***************************************************************************)
(* Instances of ClientRegistry for TLC, with operators and connections    *)
(* that nobody in particular makes.  Module MCRegistration checks the      *)
(* registry with the machines that make them.                              *)
(***************************************************************************)
EXTENDS ClientRegistry
=============================================================================
