---------------------------- MODULE MCRegistration ----------------------------
(***************************************************************************)
(* Instances of Registration for TLC: all machines use one identifier, the *)
(* case in which they meet.  Machines and connections are numbered.        *)
(***************************************************************************)
EXTENDS Registration

CONSTANT TheIdent

MCIdentifiers == {TheIdent}
MCMachineIdent == [m \in Machines |-> TheIdent]

\* The names of machines and connections mean nothing, so only behaviours that
\* use them in order are explored.  (TLC's symmetry does not preserve liveness.)
InOrder ==
    /\ \A c \in Conns \ {1} : pc[c] # "idle" => pc[c - 1] # "idle"
    /\ owner[1] \in {NoConn, 1}
=============================================================================
