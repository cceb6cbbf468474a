----------------------------- MODULE ClientChannels -----------------------------
(***************************************************************************)
(* A channel at the client, of either type: _handle_open_channel makes a   *)
(* SessionChannel or a DirectTCPChannel (client.py), which have in common  *)
(* the table of channels, the closed flag and the connection to the relay. *)
(***************************************************************************)
EXTENDS ClientSession, Sequences

CONSTANT MaxData  \* bound: frames of data a TCP peer sends

ASSUME MaxDataAssumption == MaxData \in Nat

VARIABLES
    kind,  \* the type of the channel
    rat, fpc, sock, shut, peer, tcpWritten, tcpChunk, out, silent

ownTcpVars == <<rat, fpc, sock, shut, peer, tcpWritten, tcpChunk, out, silent>>
ownSessionVars == <<procVars, master, sftp, outVars, at, sendsClose, timedOut, closes>>
allVars == <<kind, ownTcpVars, vars>>

Tcp == INSTANCE ClientTcpChannel WITH written <- tcpWritten, chunk <- tcpChunk

ChannelInit ==
    /\ kind \in {"session", "direct-tcpip"}
    /\ inTable = (kind = "session") /\ link = TRUE /\ alive = TRUE
    /\ closed = FALSE
    /\ OwnInit /\ (kind = "direct-tcpip" => pty = (TRUE \in Ptys))
    /\ Tcp!OwnInit

OfSession == kind = "session" /\ UNCHANGED <<kind, ownTcpVars>>
OfTcp == kind = "direct-tcpip" /\ UNCHANGED <<kind, ownSessionVars>>

ChannelNext == (OfSession /\ Next) \/ (OfTcp /\ Tcp!Next)

ChannelSpec == ChannelInit /\ [][ChannelNext]_allVars

\* The threads run, and a write to a working connection returns: that somebody
\* reads at its other end is assumed, not shown.  Nothing is assumed of processes and
\* TCP peers, and of the reader of a session not that it reads on: it finishes a
\* close it has begun, and unwinds once the connection has failed.
FairChannelSpec ==
    /\ ChannelSpec
    /\ WF_allVars(OfSession /\ ReaderGoesOn)
    /\ WF_allVars(OfSession /\ (FinishGoesOn("waiter") \/ WaiterGoesOn))
    /\ \A r \in Streams : WF_allVars(OfSession /\ OutGoesOn(r))
    /\ WF_allVars(OfTcp /\ Tcp!ReaderGoesOn)
    /\ WF_allVars(OfTcp /\ Tcp!ThreadGoesOn)

-----------------------------------------------------------------------------
(* The properties of TCP channels, of the channels that are *)

TcpFramesInOrder == Tcp!TcpFramesInOrder
PeerDataBeforeEof == Tcp!PeerDataBeforeEof
TcpThreadEnds == Tcp!TcpThreadEnds

\* A channel of either type that ends is told to the relay, as long as run() goes
\* on over a connection that works: no CLOSE is lost between the two threads that
\* may close it, each of which leaves it to the other when it finds the flag up
\* (client.py:348-369, 482-496, 528-552).
EndIsTold ==
    /\ kind = "session" => SessionEndIsTold
    /\ kind = "direct-tcpip" => Tcp!TcpEndIsTold
===============================================================================
