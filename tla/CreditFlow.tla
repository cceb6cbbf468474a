------------------------------ MODULE CreditFlow ------------------------------
(***************************************************************************)
(* What the window of one direction of a channel promises: the receiver    *)
(* grants credit, the sender spends it, and never more of it than was      *)
(* granted.  Nothing is said of when, in what portions, or whether all of  *)
(* it is spent.  Module ChannelWindow implements this specification.       *)
(***************************************************************************)
EXTENDS Integers

VARIABLES granted,  \* bytes the receiver has allowed so far
          spent     \* bytes the sender has sent so far

creditVars == <<granted, spent>>

CreditInit == granted \in Nat /\ spent = 0

Grant ==
    /\ granted' \in Nat
    /\ granted' >= granted
    /\ UNCHANGED spent

Spend ==
    /\ spent' \in Nat
    /\ spent < spent' /\ spent' <= granted
    /\ UNCHANGED granted

CreditSpec == CreditInit /\ [][Grant \/ Spend]_creditVars
=============================================================================
