---------------------------- MODULE ClientTcpChannel ----------------------------
(***************************************************************************)
(* One direct-tcpip channel at the client (client.py, DirectTCPChannel).   *)
(*                                                                         *)
(* Two threads share it: the client's reader, which connects, confirms and *)
(* then handles the frames for the channel, and the thread that reads the  *)
(* TCP socket.  Nothing is locked, and either may close the socket.  The   *)
(* socket keeps the 30-second timeout it was connected with.               *)
(*                                                                         *)
(* Data is counted in frames.                                              *)
(***************************************************************************)
EXTENDS Integers, Sequences, FiniteSets

CONSTANT MaxData  \* bound: frames of data the TCP peer sends

VARIABLES
    inTable,   \* ReverseClientConnection.channels has the channel
    link,      \* the connection to the relay works
    alive,     \* ReverseClientConnection.alive: run() goes on
    closed,    \* closed
    rat,       \* where the reader stands
    fpc,       \* where the thread of the socket stands
    sock,      \* sock
    shut,      \* the socket is shut for writing
    peer,      \* the TCP peer: "up", "done" sending, or "reset"
    written,   \* frames of data the peer has sent
    chunk,     \* frames received and not yet sent
    out,       \* frames sent to the relay
    silent     \* history: 30 seconds have passed without data

baseVars == <<inTable, link, alive, closed>>
ownVars == <<rat, fpc, sock, shut, peer, written, chunk, out, silent>>
vars == <<baseVars, ownVars>>

Count(frame) == Cardinality({i \in DOMAIN out : out[i] = frame})

TypeOK ==
    /\ inTable \in BOOLEAN /\ link \in BOOLEAN /\ alive \in BOOLEAN /\ closed \in BOOLEAN
    /\ rat \in {"opening", "confirming", "refusing", "starting", "reading",
                "writing", "flag", "fd", "ended"}
    /\ fpc \in {"none", "testing", "receiving", "sending", "eof", "flag", "fd",
                "close", "ended"}
    /\ sock \in {"none", "open", "closed"} /\ shut \in BOOLEAN
    /\ peer \in {"up", "done", "reset"}
    /\ written \in 0..MaxData /\ chunk \in 0..1
    /\ out \in Seq({"confirm", "refuse", "data", "eof", "close"})
    /\ silent \in BOOLEAN

OwnInit ==
    /\ rat = "opening" /\ fpc = "none" /\ sock = "none" /\ shut = FALSE
    /\ peer = "up" /\ written = 0 /\ chunk = 0 /\ out = <<>> /\ silent = FALSE

Init == inTable = FALSE /\ link = TRUE /\ alive = TRUE /\ closed = FALSE /\ OwnInit

\* a frame is sent, or raises
Sent(frame) == link /\ out' = Append(out, frame)
Raises == ~link /\ UNCHANGED out

-----------------------------------------------------------------------------
(* The client's reader: _handle_open_channel *)

\* mutant: the thread is started before the confirmation
ConnectAndStart ==
    /\ rat = "opening"
    /\ sock' = "open" /\ inTable' = TRUE /\ rat' = "confirming" /\ fpc' = "testing"
    /\ UNCHANGED <<link, alive, closed, shut, peer, written, chunk, out, silent>>

Connect ==
    /\ rat = "opening"
    /\ sock' = "open" /\ inTable' = TRUE /\ rat' = "confirming"
    /\ UNCHANGED <<link, alive, closed, fpc, shut, peer, written, chunk, out, silent>>

\* within 30 seconds
ConnectFails ==
    /\ rat = "opening"
    /\ rat' = "refusing"
    /\ UNCHANGED <<baseVars, fpc, sock, shut, peer, written, chunk, out, silent>>

Answer ==
    /\ \/ rat = "confirming" /\ Sent("confirm") /\ rat' = "starting"
       \/ rat = "refusing" /\ Sent("refuse") /\ rat' = "reading"
       \/ rat \in {"confirming", "refusing"} /\ Raises /\ rat' = "reading"
    /\ UNCHANGED <<baseVars, fpc, sock, shut, peer, written, chunk, silent>>

StartReader ==
    /\ rat = "starting"
    /\ fpc' = IF fpc = "none" THEN "testing" ELSE fpc
    /\ rat' = "reading"
    /\ UNCHANGED <<baseVars, sock, shut, peer, written, chunk, out, silent>>

-----------------------------------------------------------------------------
(* The client's reader: frames for the channel *)

FrameArrives == rat = "reading" /\ inTable /\ link

DataArrives ==
    /\ FrameArrives
    /\ rat' = "writing"
    /\ UNCHANGED <<baseVars, fpc, sock, shut, peer, written, chunk, out, silent>>

\* run() ends: it closes the channels in the table, and leaves them there
Unwinds == alive' = FALSE /\ rat' = IF inTable THEN "flag" ELSE "ended"

\* the reader is done with on_close
Done == IF alive THEN "reading" ELSE "ended"

\* sendall works; or it raises, for a peer that is gone or does not read for 30
\* seconds or a socket that the other thread has closed, and run() ends with it
Write ==
    /\ rat = "writing"
    /\ \/ sock = "open" /\ peer # "reset" /\ ~shut /\ rat' = "reading" /\ UNCHANGED alive
       \/ Unwinds
    /\ UNCHANGED <<inTable, link, closed, fpc, sock, shut, peer, written, chunk, out, silent>>

EofArrives ==
    /\ FrameArrives
    /\ shut' = TRUE
    /\ UNCHANGED <<baseVars, rat, fpc, sock, peer, written, chunk, out, silent>>

CloseArrives ==
    /\ FrameArrives
    /\ inTable' = FALSE /\ rat' = "flag"
    /\ UNCHANGED <<link, alive, closed, fpc, sock, shut, peer, written, chunk, out, silent>>

\* the connection is gone, or handling a frame of another channel has raised
RunEnds ==
    /\ rat = "reading"
    /\ Unwinds
    /\ UNCHANGED <<inTable, link, closed, fpc, sock, shut, peer, written, chunk, out, silent>>

\* on_close(send_close=False)
CloseFlag ==
    /\ rat = "flag"
    /\ closed' = TRUE
    /\ rat' = IF closed THEN Done ELSE "fd"
    /\ UNCHANGED <<inTable, link, alive, fpc, sock, shut, peer, written, chunk, out, silent>>

CloseSocket ==
    /\ rat = "fd"
    /\ sock' = "closed" /\ rat' = Done
    /\ UNCHANGED <<baseVars, fpc, shut, peer, written, chunk, out, silent>>

-----------------------------------------------------------------------------
(* The thread of the socket: _reader_loop *)

Waiting == written - chunk - Count("data")

Test ==
    /\ fpc = "testing"
    /\ fpc' = IF closed THEN "eof" ELSE "receiving"
    /\ UNCHANGED <<baseVars, rat, sock, shut, peer, written, chunk, out, silent>>

Receive ==
    /\ fpc = "receiving"
    /\ sock = "open" /\ Waiting > 0 /\ peer # "reset"
    /\ chunk' = 1 /\ fpc' = "sending"
    /\ UNCHANGED <<baseVars, rat, sock, shut, peer, written, out, silent>>

\* the end of the peer's data, a reset, or news on a socket that is closed by
\* now: closing it does not wake recv
ReceiveEnds ==
    /\ fpc = "receiving"
    /\ \/ peer = "done" /\ Waiting = 0
       \/ peer = "reset"
       \/ sock = "closed" /\ Waiting > 0
    /\ fpc' = "eof"
    /\ UNCHANGED <<baseVars, rat, sock, shut, peer, written, chunk, out, silent>>

\* mutant: no timeout
NeverTimesOut == FALSE /\ UNCHANGED vars

TimesOut ==
    /\ fpc = "receiving" /\ Waiting = 0 /\ peer = "up"
    /\ fpc' = "eof" /\ silent' = TRUE
    /\ UNCHANGED <<baseVars, rat, sock, shut, peer, written, chunk, out>>

\* mutant: what was read is taken for the last of it
SendLast ==
    /\ fpc = "sending"
    /\ (Sent("data") \/ Raises) /\ fpc' = "eof"
    /\ chunk' = 0
    /\ UNCHANGED <<baseVars, rat, sock, shut, peer, written, silent>>

Send ==
    /\ fpc = "sending"
    /\ \/ Sent("data") /\ fpc' = "testing"
       \/ Raises /\ fpc' = "eof"
    /\ chunk' = 0
    /\ UNCHANGED <<baseVars, rat, sock, shut, peer, written, silent>>

\* finally: EOF, which may raise, and on_close(send_close=True)
SendEof ==
    /\ fpc = "eof"
    /\ \/ Sent("eof") /\ fpc' = "flag"
       \/ Raises /\ fpc' = "ended"
    /\ UNCHANGED <<baseVars, rat, sock, shut, peer, written, chunk, silent>>

EndFlag ==
    /\ fpc = "flag"
    /\ closed' = TRUE
    /\ fpc' = IF closed THEN "ended" ELSE "fd"
    /\ UNCHANGED <<inTable, link, alive, rat, sock, shut, peer, written, chunk, out, silent>>

EndSocket ==
    /\ fpc = "fd"
    /\ sock' = "closed" /\ fpc' = "close"
    /\ UNCHANGED <<baseVars, rat, shut, peer, written, chunk, out, silent>>

SendClose ==
    /\ fpc = "close"
    /\ \/ Sent("close") /\ inTable' = FALSE
       \/ Raises /\ UNCHANGED inTable
    /\ fpc' = "ended"
    /\ UNCHANGED <<link, alive, closed, rat, sock, shut, peer, written, chunk, silent>>

-----------------------------------------------------------------------------
(* The TCP peer, and the connection to the relay *)

PeerSends ==
    /\ sock # "none" /\ peer = "up" /\ written < MaxData
    /\ written' = written + 1
    /\ UNCHANGED <<baseVars, rat, fpc, sock, shut, peer, chunk, out, silent>>

PeerEnds ==
    /\ sock # "none" /\ peer # "reset"
    /\ peer' \in {"done", "reset"}
    /\ UNCHANGED <<baseVars, rat, fpc, sock, shut, written, chunk, out, silent>>

LinkFails ==
    /\ link
    /\ link' = FALSE
    /\ UNCHANGED <<inTable, alive, closed, ownVars>>

-----------------------------------------------------------------------------
ReaderGoesOn ==
    \/ Connect \/ ConnectFails \/ Answer \/ StartReader \/ Write
    \/ CloseFlag \/ CloseSocket \/ (~link /\ RunEnds)
ThreadGoesOn ==
    \/ Test \/ Receive \/ ReceiveEnds \/ TimesOut \/ Send \/ SendEof
    \/ EndFlag \/ EndSocket \/ SendClose

Next ==
    \/ ReaderGoesOn \/ RunEnds
    \/ DataArrives \/ EofArrives \/ CloseArrives
    \/ ThreadGoesOn
    \/ PeerSends \/ PeerEnds \/ LinkFails

Spec == Init /\ [][Next]_vars

-----------------------------------------------------------------------------
(* Properties *)

\* The relay sees the channel's frames in their order: the confirmation first,
\* data, one EOF, and at most one CLOSE, which is the last (client.py:232-248,
\* 528-552).
TcpFramesInOrder ==
    \A i, j \in DOMAIN out : i < j =>
        /\ out[i] \notin {"refuse", "close"}
        /\ out[i] = "eof" => out[j] = "close"
        /\ out[j] \notin {"confirm", "refuse"}
        /\ i = 1 => out[i] = "confirm"

\* When EOF is sent for a channel that nobody has closed, the relay has all the
\* peer sent, unless the peer reset the connection or was silent for too long
\* (client.py:543-551).
PeerDataBeforeEof ==
    fpc = "eof" /\ link /\ ~closed /\ ~silent /\ peer # "reset" =>
        Count("data") = written

\* As long as run() goes on, over a connection that works, a channel that was
\* closed is off the table, because the relay closed it or has the CLOSE, or the
\* thread is about to send it (client.py:229-230, 528-552).  And a thread that is
\* done has left the channel closed.  Of what run() itself closes, when it ends, the
\* relay is told nothing (client.py:207-210).
TcpEndIsTold ==
    /\ closed /\ inTable /\ link /\ alive => fpc \in {"fd", "close"}
    /\ fpc = "ended" /\ link => closed

\* Once the channel is closed, its thread ends, although closing the socket does
\* not wake it (client.py:509, 528-552).
TcpThreadEnds == (closed /\ fpc # "none") ~> (fpc = "ended")

\* What the operator still sends reaches a peer that has ended its own sending
\* but reads on: "forwarding channels" (README.md:18).  The code does not have
\* this property: the end of the peer's data closes the channel.
HalfCloseKept == peer = "done" /\ ~shut /\ link => sock # "closed"
=============================================================================
