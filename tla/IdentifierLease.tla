--------------------------- MODULE IdentifierLease ---------------------------
(***************************************************************************)
(* What the relay promises about identifiers, and no more: an identifier   *)
(* is held by at most one reverse-client connection at a time, a           *)
(* connection holds at most one identifier, an identifier never passes     *)
(* from one connection straight to another, and a connection that has      *)
(* given its identifier up never holds one again.  The registry of         *)
(* relay.py (module ClientRegistry) implements this specification.         *)
(***************************************************************************)
CONSTANTS Identifiers,  \* names operators use as their SSH username
          Conns,        \* reverse-client connections the relay accepts
          NoConn        \* the holder of an identifier nobody holds

VARIABLES holder,       \* holder[i]: the connection that holds identifier i
          former        \* the connections that have given up an identifier

leaseVars == <<holder, former>>

LeaseInit ==
    /\ holder = [i \in Identifiers |-> NoConn]
    /\ former = {}

Acquire(i, c) ==
    /\ holder[i] = NoConn
    /\ c \notin former
    /\ \A j \in Identifiers : holder[j] # c
    /\ holder' = [holder EXCEPT ![i] = c]
    /\ UNCHANGED former

Release(i, c) ==
    /\ holder[i] = c
    /\ holder' = [holder EXCEPT ![i] = NoConn]
    /\ former' = former \cup {c}

LeaseNext ==
    \E i \in Identifiers, c \in Conns : Acquire(i, c) \/ Release(i, c)

LeaseSpec == LeaseInit /\ [][LeaseNext]_leaseVars
=============================================================================
