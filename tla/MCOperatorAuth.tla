---------------------------- MODULE MCOperatorAuth ----------------------------
(***************************************************************************)
(* Instances of OperatorAuth for TLC.  Operators are interchangeable; keys *)
(* are not (the initial trust and the allowlist name them).                *)
(***************************************************************************)
EXTENDS OperatorAuth, TLC

Symmetry == Permutations(Operators)
=============================================================================
