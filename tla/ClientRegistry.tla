---------------------------- MODULE ClientRegistry ----------------------------
(***************************************************************************)
(* The relay's registry of reverse clients (relay.py, ClientRegistry and   *)
(* the parts of RegisteredClient and RelayServer that use it).             *)
(*                                                                         *)
(* One thread per accepted connection runs _handle_reverse_client and,     *)
(* once registered, _reader_loop; operator threads look clients up with    *)
(* get() and write to the clients they found.  The registry's lock makes   *)
(* add, remove and get atomic and nothing else: between any two of them,   *)
(* and between them and the writes to a socket, every other thread may     *)
(* run.  pc[c] is where connection c's thread stands between two of those  *)
(* steps.                                                                  *)
(***************************************************************************)
EXTENDS Integers, Sequences

CONSTANTS Identifiers,  \* names operators use as their SSH username
          Conns,        \* reverse-client connections, in the relay's view
          Operators,    \* operator threads in _authenticate
          NoConn,       \* no connection
          NoId,         \* the identifier of a connection that gave none
          MaxFrames     \* bound: frames the relay writes to one connection

ASSUME NoConnAssumption == NoConn \notin Conns
ASSUME NoIdAssumption == NoId \notin Identifiers
ASSUME MaxFramesAssumption == MaxFrames \in Nat

VARIABLES clients,  \* ClientRegistry._clients: identifier -> connection
          alive,    \* RegisteredClient.alive
          ident,    \* RegisteredClient.identifier
          pc,       \* where the thread of the connection stands
          up,       \* the peer's end is open, as far as the relay's TCP knows
          wire,     \* the frames written to the connection, in order
          ref       \* the client an operator thread got and will write to

vars == <<clients, alive, ident, pc, up, wire, ref>>

Frames == {"ok", "no", "auth"}

Places == {"idle", "accepted", "adding", "rejecting", "refused", "answering",
           "serving", "handling", "stranded", "removing", "closing", "closed"}

TypeOK ==
    /\ clients \in [Identifiers -> Conns \cup {NoConn}]
    /\ alive \in [Conns -> BOOLEAN]
    /\ ident \in [Conns -> Identifiers \cup {NoId}]
    /\ pc \in [Conns -> Places]
    /\ up \in [Conns -> BOOLEAN]
    /\ wire \in [Conns -> Seq(Frames)]
    /\ ref \in [Operators -> Conns \cup {NoConn}]

Init ==
    /\ clients = [i \in Identifiers |-> NoConn]
    /\ alive = [c \in Conns |-> FALSE]
    /\ ident = [c \in Conns |-> NoId]
    /\ pc = [c \in Conns |-> "idle"]
    /\ up = [c \in Conns |-> FALSE]
    /\ wire = [c \in Conns |-> <<>>]
    /\ ref = [o \in Operators |-> NoConn]

-----------------------------------------------------------------------------
(* The registry's three critical sections. *)

\* existing and existing.alive
Occupied(i) == clients[i] # NoConn /\ alive[clients[i]]

\* mutant: the test of remove() is inverted
RemovedInverted(i, c) ==
    IF clients[i] # c THEN [clients EXCEPT ![i] = NoConn] ELSE clients

\* the dictionary remove(i, c) leaves
Removed(i, c) ==
    IF clients[i] = c THEN [clients EXCEPT ![i] = NoConn] ELSE clients

-----------------------------------------------------------------------------
(* _handle_reverse_client *)

Accept(c) ==
    /\ pc[c] = "idle"
    /\ pc' = [pc EXCEPT ![c] = "accepted"]
    /\ up' = [up EXCEPT ![c] = TRUE]
    /\ UNCHANGED <<clients, alive, ident, wire, ref>>

\* the first frame is a REGISTER with a usable identifier
RegisterFrame(c, i) ==
    /\ pc[c] = "accepted"
    /\ pc' = [pc EXCEPT ![c] = "adding"]
    /\ alive' = [alive EXCEPT ![c] = TRUE]
    /\ ident' = [ident EXCEPT ![c] = i]
    /\ UNCHANGED <<clients, up, wire, ref>>

\* any other first frame, an identifier with white space, or no frame at all
BadFirstFrame(c) ==
    /\ pc[c] = "accepted"
    /\ pc' = [pc EXCEPT ![c] = "refused"]
    /\ wire' \in {wire, [wire EXCEPT ![c] = Append(@, "no")]}
    /\ UNCHANGED <<clients, alive, ident, up, ref>>

\* mutant: add() that does not look for a live client under the identifier
AddClientAnyway(c) ==
    /\ pc[c] = "adding"
    /\ clients' = [clients EXCEPT ![ident[c]] = c]
    /\ pc' = [pc EXCEPT ![c] = "answering"]
    /\ UNCHANGED <<alive, ident, up, wire, ref>>

AddClient(c) ==
    /\ pc[c] = "adding"
    /\ ~Occupied(ident[c])
    /\ clients' = [clients EXCEPT ![ident[c]] = c]
    /\ pc' = [pc EXCEPT ![c] = "answering"]
    /\ UNCHANGED <<alive, ident, up, wire, ref>>

AddRefused(c) ==
    /\ pc[c] = "adding"
    /\ Occupied(ident[c])
    /\ pc' = [pc EXCEPT ![c] = "rejecting"]
    /\ UNCHANGED <<clients, alive, ident, up, wire, ref>>

\* REGISTER_RESULT(false), which a dead peer may keep from being sent
Reject(c) ==
    /\ pc[c] = "rejecting"
    /\ pc' = [pc EXCEPT ![c] = "refused"]
    /\ \/ wire' = [wire EXCEPT ![c] = Append(@, "no")]
       \/ ~up[c] /\ UNCHANGED wire
    /\ UNCHANGED <<clients, alive, ident, up, ref>>

\* mutant: the reader starts and no result is sent
AnswerWithoutResult(c) ==
    /\ pc[c] = "answering"
    /\ pc' = [pc EXCEPT ![c] = "serving"]
    /\ UNCHANGED <<clients, alive, ident, up, wire, ref>>

\* REGISTER_RESULT(true), then client.start()
Answer(c) ==
    /\ pc[c] = "answering"
    /\ pc' = [pc EXCEPT ![c] = "serving"]
    /\ wire' = [wire EXCEPT ![c] = Append(@, "ok")]
    /\ UNCHANGED <<clients, alive, ident, up, ref>>

\* sending REGISTER_RESULT raises: the handler closes the socket and returns
AnswerFails(c) ==
    /\ pc[c] = "answering"
    /\ ~up[c]
    /\ pc' = [pc EXCEPT ![c] = "stranded"]
    /\ UNCHANGED <<clients, alive, ident, up, wire, ref>>

-----------------------------------------------------------------------------
(* _reader_loop and close *)

\* a frame is handled, for an open channel by a write to its operator: sendall
\* has no timeout, so while that operator does not read, the reader is held up
HandleFrame(c) ==
    /\ pc[c] = "serving"
    /\ pc' = [pc EXCEPT ![c] = "handling"]
    /\ UNCHANGED <<clients, alive, ident, up, wire, ref>>

FrameHandled(c) ==
    /\ pc[c] = "handling"
    /\ pc' = [pc EXCEPT ![c] = "serving"]
    /\ UNCHANGED <<clients, alive, ident, up, wire, ref>>

\* reading a frame, or handling it, raises; close() begins
ReaderFails(c) ==
    /\ pc[c] \in {"serving", "handling"}
    /\ alive' = [alive EXCEPT ![c] = FALSE]
    /\ pc' = [pc EXCEPT ![c] = "removing"]
    /\ UNCHANGED <<clients, ident, up, wire, ref>>

CloseRemove(c) ==
    /\ pc[c] = "removing"
    /\ clients' = Removed(ident[c], c)
    /\ pc' = [pc EXCEPT ![c] = "closing"]
    /\ UNCHANGED <<alive, ident, up, wire, ref>>

CloseSocket(c) ==
    /\ pc[c] = "closing"
    /\ pc' = [pc EXCEPT ![c] = "closed"]
    /\ UNCHANGED <<clients, alive, ident, up, wire, ref>>

-----------------------------------------------------------------------------
(* An operator thread in _authenticate, and the peers of the connections *)

OperatorGet(o, i) ==
    /\ ref[o] = NoConn
    /\ Occupied(i)
    /\ ref' = [ref EXCEPT ![o] = clients[i]]
    /\ UNCHANGED <<clients, alive, ident, pc, up, wire>>

SocketOpen(c) == pc[c] \notin {"idle", "refused", "stranded", "closed"}

\* request_auth writes AUTH_REQUEST to the client it holds, or raises
OperatorSend(o) ==
    /\ ref[o] # NoConn
    /\ LET c == ref[o] IN
         \/ /\ SocketOpen(c)
            /\ Len(wire[c]) < MaxFrames
            /\ wire' = [wire EXCEPT ![c] = Append(@, "auth")]
         \/ /\ ~SocketOpen(c) \/ ~up[c]
            /\ UNCHANGED wire
    /\ ref' = [ref EXCEPT ![o] = NoConn]
    /\ UNCHANGED <<clients, alive, ident, pc, up>>

\* the peer closes, or TCP gives it up
PeerDown(c) ==
    /\ up[c]
    /\ up' = [up EXCEPT ![c] = FALSE]
    /\ UNCHANGED <<clients, alive, ident, pc, wire, ref>>

-----------------------------------------------------------------------------
Next ==
    \/ \E c \in Conns :
         \/ Accept(c)
         \/ \E i \in Identifiers : RegisterFrame(c, i)
         \/ BadFirstFrame(c)
         \/ AddClient(c) \/ AddRefused(c)
         \/ Reject(c) \/ Answer(c) \/ AnswerFails(c)
         \/ HandleFrame(c) \/ FrameHandled(c)
         \/ ReaderFails(c) \/ CloseRemove(c) \/ CloseSocket(c)
         \/ PeerDown(c)
    \/ \E o \in Operators :
         \/ \E i \in Identifiers : OperatorGet(o, i)
         \/ OperatorSend(o)

Spec == Init /\ [][Next]_vars

\* the steps a connection's own thread takes without waiting for anybody; how
\* long a frame is handled is up to the operator it is for
ThreadStep(c) ==
    \/ AddClient(c) \/ AddRefused(c) \/ Reject(c)
    \/ Answer(c) \/ AnswerFails(c)
    \/ CloseRemove(c) \/ CloseSocket(c)

\* the read of a stream whose peer is gone; what that peer had sent is finite, so
\* a reader that comes back to its read again and again gets to the end
MeetsEnd(c) == ~up[c] /\ pc[c] = "serving" /\ ReaderFails(c)

FairSpec == Spec /\ \A c \in Conns : WF_vars(ThreadStep(c)) /\ SF_vars(MeetsEnd(c))

-----------------------------------------------------------------------------
(* Properties *)

\* A connection whose REGISTER_RESULT is being sent, that is being served, or
\* whose handler died on the way, is the one its identifier leads to: no other
\* connection's add() or late remove() takes the entry of a live client away
\* (relay.py:95-106, 138-139).
LiveClientIsRegistered ==
    \A c \in Conns :
        pc[c] \in {"answering", "serving", "handling", "stranded"} =>
            clients[ident[c]] = c /\ alive[c]

\* Whatever the registry points at gave that identifier and its handler got as
\* far as add(); an entry never points at a connection that was refused, or
\* that has already removed itself (relay.py:103-106, 1011-1019).
EntriesAreAdded ==
    \A i \in Identifiers :
        clients[i] # NoConn =>
            /\ ident[clients[i]] = i
            /\ pc[clients[i]] \in {"answering", "serving", "handling", "stranded", "removing"}

\* The registry, seen through get(), implements the lease of identifiers: get
\* answers with the holder, and a connection that stopped being alive is a
\* former holder for good (relay.py:95-113, 135-139).
Holder == [i \in Identifiers |-> IF Occupied(i) THEN clients[i] ELSE NoConn]
Former == {c \in Conns : pc[c] \in {"removing", "closing", "closed"}}

Lease == INSTANCE IdentifierLease WITH holder <- Holder, former <- Former

LeaseRefinement == Lease!LeaseSpec

\* A client that is served and whose peer is gone leaves the registry, so that
\* its machine can register again, unless an operator who has stopped reading
\* holds its reader in a write for ever (relay.py:205-252, 512-514, 135-139).
DeadClientLeavesRegistry ==
    \A c \in Conns :
        []<>(pc[c] # "handling") =>
            (pc[c] \in {"serving", "handling"} /\ ~up[c])
                ~> (\A i \in Identifiers : clients[i] # c)

\* The same without that condition.  The code does not have this property.
DeadClientAlwaysLeaves ==
    \A c \in Conns :
        (pc[c] \in {"serving", "handling"} /\ ~up[c])
            ~> (\A i \in Identifiers : clients[i] # c)

\* Every connection that registered with the relay and whose peer is gone
\* leaves the registry: what the handler's log line "reverse client handshake
\* failed" (relay.py:1020) takes for granted of a handshake that failed.
\* The code does not have this property.
FailedHandshakeLeavesRegistry ==
    \A c \in Conns :
        (pc[c] = "answering" /\ ~up[c]) ~> (\A i \in Identifiers : clients[i] # c)

\* The first frame a registering client reads is its registration result: what
\* the client requires (client.py:159-160).  The code does not have this
\* property.
FirstFrameIsResult ==
    \A c \in Conns : wire[c] # <<>> => wire[c][1] # "auth"
=============================================================================
