------------------------------- MODULE FrameLink -------------------------------
(***************************************************************************)
(* Frames of the private protocol over a WebSocket, in one direction       *)
(* (private_protocol.py, FrameSocket; websocket.py, WebSocketStream): the  *)
(* sending end, where several threads write under the frame lock and the   *)
(* reader answers pings and closes without it; the stream between; and the *)
(* receiving end.  Before that comes the upgrade from HTTP.                *)
(*                                                                         *)
(* The relay has two FrameSockets over a connection, with a lock each: one *)
(* with which it registers the client (relay.py:998), and that of the      *)
(* RegisteredClient (122), with which operators send from add() on (1011). *)
(* So REGISTER_RESULT (1016) may fall into a frame of theirs.              *)
(*                                                                         *)
(* A frame travels as two pieces, since sendall of a large one is several  *)
(* writes; one WebSocket frame holds them, or, if a proxy has split it,    *)
(* two fragments hold one each.  A piece is also what read_frame reads:    *)
(* the length, and then the body.  REGISTER_RESULT is short and goes out   *)
(* in one write, as pongs and CLOSE do.  Proxies send pings and CLOSE;     *)
(* neither end of this code pings.                                         *)
(***************************************************************************)
EXTENDS Integers, Sequences

CONSTANTS Writers,     \* threads of the sending end that send frames
          SendingEnds, \* which end sends: a subset of {"client", "relay"}
          MaxFrames,   \* bound: frames
          MaxControl   \* bound: pings that reach each end

ASSUME LinkAssumption ==
    /\ "none" \notin Writers
    /\ SendingEnds \subseteq {"client", "relay"} /\ SendingEnds # {}
    /\ MaxFrames \in Nat /\ MaxControl \in Nat

VARIABLES
    sender,    \* the end that sends
    upgrade,   \* how far the client and the relay are with HTTP
    lock,      \* FrameSocket._send_lock, of the FrameSocket that the writers share
    begun,     \* frames that were begun
    left,      \* pieces a writer has yet to write of its frame
    current,   \* its frame
    closed,    \* the sender's WebSocketStream.closed
    readerAt,  \* where the sender's reader stands
    socket,    \* the sender's socket: "open", "closed"
    controls,  \* control frames the sender has written
    result,    \* the relay's REGISTER_RESULT: "due", "sent", "read"; a client has "none"
    wire,      \* pieces on the way
    coming,    \* pieces read of a WebSocket frame that has not come whole
    inbox,     \* WebSocket frames for the receiver
    parts,     \* its _read_next_message: fragments so far
    buffer,    \* its WebSocketStream.buffer
    rclosed,   \* its WebSocketStream.closed
    header,    \* the frame of which its read_frame has the length, or 0
    receiver,  \* "reading", "ended"
    got,       \* frames that read_frame has returned; 0 is garbage
    pings,     \* pings a proxy has sent to the receiver
    astray     \* the receiver's stream is out of step

sendVars == <<lock, begun, left, current>>
closeVars == <<closed, readerAt, socket, controls>>
recvVars == <<inbox, parts, buffer, rclosed, header, receiver, got, pings>>
netVars == <<wire, coming, astray>>
linkVars == <<sender, upgrade, result, sendVars, closeVars, recvVars, netVars>>

NoWriter == "none"
Frames == 1..MaxFrames
Pieces == Frames \X {1, 2}
Pong == <<0, 1>>
CloseFrame == <<0, 2>>
Result == <<0, 3>>
Others == {Pong, CloseFrame, Result} \* what is written without the frame lock
OtherItems == {<<"pong", 0>>, <<"close", 0>>, <<"ping", 0>>, <<"result", 0>>}
Items == {"whole", "first", "rest"} \X Frames \cup OtherItems

LinkTypeOK ==
    /\ sender \in SendingEnds
    /\ upgrade \in {"requested", "answered", "refused", "open", "failed"}
    /\ lock \in Writers \cup {NoWriter}
    /\ begun \in 0..MaxFrames
    /\ left \in [Writers -> 0..2] /\ current \in [Writers -> 0..MaxFrames]
    /\ closed \in BOOLEAN /\ rclosed \in BOOLEAN /\ astray \in BOOLEAN
    /\ readerAt \in {"reading", "marked", "said", "ended"}
    /\ socket \in {"open", "closed"}
    /\ controls \in Nat /\ pings \in 0..MaxControl
    /\ result \in {"none", "due", "sent", "read"}
    /\ wire \in Seq(Pieces \cup Others) /\ coming \in Seq(Pieces)
    /\ inbox \in Seq(Items)
    /\ parts \in Seq(Pieces) /\ buffer \in Seq(Pieces)
    /\ header \in 0..MaxFrames
    /\ receiver \in {"reading", "ended"}
    /\ got \in Seq(0..MaxFrames)

LinkInit ==
    /\ sender \in SendingEnds
    /\ upgrade = "requested"
    /\ result = IF sender = "relay" THEN "due" ELSE "none"
    /\ lock = NoWriter /\ begun = 0
    /\ left = [w \in Writers |-> 0] /\ current = [w \in Writers |-> 0]
    /\ closed = FALSE /\ readerAt = "reading" /\ socket = "open" /\ controls = 0
    /\ wire = <<>> /\ coming = <<>> /\ astray = FALSE
    /\ inbox = <<>> /\ parts = <<>> /\ buffer = <<>> /\ rclosed = FALSE
    /\ header = 0 /\ receiver = "reading" /\ got = <<>> /\ pings = 0

-----------------------------------------------------------------------------
(* The upgrade.  _read_http_header reads in portions of 4096 bytes, and     *)
(* what it has read behind the header is lost.                              *)

ReadsHeader(end) == wire' \in IF end = sender THEN {wire} ELSE {wire, <<>>}

RelayAccepts ==
    /\ upgrade = "requested"
    /\ upgrade' = "answered"
    /\ ReadsHeader("relay")
    /\ UNCHANGED <<sender, result, sendVars, closeVars, recvVars, coming, astray>>

\* another path, or not an upgrade: an HTTP error, and the socket is closed
RelayRefuses ==
    /\ upgrade = "requested"
    /\ upgrade' = "refused"
    /\ UNCHANGED <<sender, result, sendVars, closeVars, recvVars, netVars>>

ClientOpens ==
    /\ upgrade = "answered"
    /\ upgrade' = "open"
    /\ ReadsHeader("client")
    /\ UNCHANGED <<sender, result, sendVars, closeVars, recvVars, coming, astray>>

\* mutant: no timeout
ClientWaitsOn ==
    /\ upgrade = "refused"
    /\ upgrade' = "failed"
    /\ UNCHANGED <<sender, result, sendVars, closeVars, recvVars, netVars>>

\* no 101, or 30 seconds without an answer, which may have been lost
ClientGivesUp ==
    /\ upgrade \in {"requested", "answered", "refused"}
    /\ upgrade' = "failed"
    /\ UNCHANGED <<sender, result, sendVars, closeVars, recvVars, netVars>>

-----------------------------------------------------------------------------
(* The sending end: send_frame *)

\* frames follow REGISTER, which the client sends when it has read the 101
MaySend == upgrade = "open"

Begins(w) ==
    /\ MaySend
    /\ left[w] = 0 /\ begun < MaxFrames
    /\ ~closed
    /\ begun' = begun + 1
    /\ current' = [current EXCEPT ![w] = begun']
    /\ left' = [left EXCEPT ![w] = 2]
    /\ UNCHANGED <<sender, upgrade, result, closeVars, recvVars, netVars>>

\* mutant: the frame lock is not taken
BeginUnlocked(w) == Begins(w) /\ UNCHANGED lock

\* after close(), sendall raises before anything is written
Begin(w) ==
    /\ lock = NoWriter /\ lock' = w
    /\ Begins(w)

\* sendall goes on, or raises because the socket has been closed
WritePiece(w) ==
    /\ left[w] > 0
    /\ IF socket = "open"
       THEN /\ wire' = Append(wire, <<current[w], 3 - left[w]>>)
            /\ left' = [left EXCEPT ![w] = @ - 1]
       ELSE left' = [left EXCEPT ![w] = 0] /\ UNCHANGED wire
    /\ lock' = IF left'[w] = 0 /\ lock = w THEN NoWriter ELSE lock
    /\ UNCHANGED <<sender, upgrade, result, begun, current, closeVars, recvVars, coming, astray>>

\* The relay's handler of the connection writes REGISTER_RESULT with a FrameSocket
\* of its own: whoever holds the lock of the other one does not keep it.
WriteResult ==
    /\ MaySend
    /\ result = "due" /\ ~closed
    /\ result' = "sent"
    /\ wire' = Append(wire, Result)
    /\ UNCHANGED <<sender, upgrade, sendVars, closeVars, recvVars, coming, astray>>

-----------------------------------------------------------------------------
(* The sending end: its reader *)

\* On the relay the handler reads until REGISTER comes, and starts the reader
\* when it has written the result.
ReaderRuns ==
    /\ upgrade = "open" /\ readerAt = "reading"
    /\ result = "due" => begun = 0

\* a ping is answered at once
WritePong ==
    /\ ReaderRuns /\ socket = "open"
    /\ controls < MaxControl
    /\ wire' = Append(wire, Pong)
    /\ controls' = controls + 1
    /\ UNCHANGED <<sender, upgrade, result, sendVars, closed, readerAt, socket, recvVars, coming, astray>>

\* CLOSE from the other side ends the reader; the relay's close() then finds
\* closed set, and leaves the socket to the garbage collector
CloseReceived ==
    /\ ReaderRuns
    /\ closed' = TRUE /\ readerAt' = "ended"
    /\ UNCHANGED <<sender, upgrade, result, sendVars, socket, controls, recvVars, netVars>>

\* the relay's reader ends for another reason: RegisteredClient.close, which
\* ends in WebSocketStream.close, as the close of a client that is refused does
MarkClosed ==
    /\ ReaderRuns /\ sender = "relay"
    /\ closed' = TRUE /\ readerAt' = "marked"
    /\ UNCHANGED <<sender, upgrade, result, sendVars, socket, controls, recvVars, netVars>>

SayClose ==
    /\ readerAt = "marked"
    /\ wire' = Append(wire, CloseFrame)
    /\ controls' = controls + 1
    /\ readerAt' = "said"
    /\ UNCHANGED <<sender, upgrade, result, sendVars, closed, socket, recvVars, coming, astray>>

\* mutant: the socket is left open
KeepSocket ==
    /\ readerAt = "said"
    /\ readerAt' = "ended"
    /\ UNCHANGED <<sender, upgrade, result, sendVars, closed, socket, controls, recvVars, netVars>>

CloseSocket ==
    /\ readerAt = "said"
    /\ socket' = "closed" /\ readerAt' = "ended"
    /\ UNCHANGED <<sender, upgrade, result, sendVars, closed, controls, recvVars, netVars>>

-----------------------------------------------------------------------------
(* The stream.  A WebSocket frame is read by its length, by a proxy or by   *)
(* the receiver's _read_frame: if another one lies within, all that follows *)
(* is taken for something else.                                             *)

ItemOf(p) == CASE p = Pong -> <<"pong", 0>> [] p = CloseFrame -> <<"close", 0>> [] OTHER -> <<"result", 0>>

Arrive ==
    /\ wire # <<>> /\ ~astray
    /\ LET p == Head(wire)
           torn == coming # <<>> /\ p # <<coming[1][1], 2>>
       IN /\ astray' = torn
          /\ coming' = IF ~torn /\ p[1] > 0 /\ p[2] = 1 THEN <<p>> ELSE <<>>
          /\ \/ torn /\ inbox' = inbox
             \/ /\ ~torn
                /\ \/ p \in Others /\ inbox' = Append(inbox, ItemOf(p))
                   \/ p[1] > 0 /\ p[2] = 1 /\ inbox' = inbox
                   \/ p[1] > 0 /\ p[2] = 2 /\ inbox' = Append(inbox, <<"whole", p[1]>>)
                   \/ p[1] > 0 /\ p[2] = 2 /\ inbox' = inbox \o <<<<"first", p[1]>>, <<"rest", p[1]>>>>
    /\ wire' = Tail(wire)
    /\ UNCHANGED <<sender, upgrade, result, sendVars, closeVars, parts, buffer, rclosed, header,
                   receiver, got, pings>>

\* a proxy pings the receiver, between any two WebSocket frames
ProxyPings ==
    /\ upgrade = "open" /\ pings < MaxControl /\ receiver = "reading" /\ ~astray
    /\ pings' = pings + 1
    /\ \E i \in 0..Len(inbox) :
          inbox' = SubSeq(inbox, 1, i) \o <<<<"ping", 0>>>> \o SubSeq(inbox, i + 1, Len(inbox))
    /\ UNCHANGED <<sender, upgrade, result, sendVars, closeVars, parts, buffer, rclosed, header,
                   receiver, got, netVars>>

-----------------------------------------------------------------------------
(* The receiving end *)

\* mutant: a ping ends the message it comes in
OnControlForgets(op) == parts' = <<>> /\ rclosed' = (op = "close")

\* a ping is answered, a pong skipped, and CLOSE noted
OnControl(op) == UNCHANGED parts /\ rclosed' = (op = "close")

\* recv finds its buffer empty: _read_next_message.  REGISTER_RESULT is at once a
\* message and a frame.
ReadMessage ==
    /\ receiver = "reading" /\ buffer = <<>> /\ ~rclosed
    /\ inbox # <<>>
    /\ LET op == Head(inbox)[1]
           n == Head(inbox)[2]
       IN CASE op = "whole" -> buffer' = parts \o <<<<n, 1>>, <<n, 2>>>> /\ parts' = <<>> /\ UNCHANGED rclosed
            [] op = "first" -> parts' = Append(parts, <<n, 1>>) /\ UNCHANGED <<buffer, rclosed>>
            [] op = "rest" -> buffer' = Append(parts, <<n, 2>>) /\ parts' = <<>> /\ UNCHANGED rclosed
            [] op = "result" -> UNCHANGED <<buffer, parts, rclosed>>
            [] OTHER -> OnControl(op) /\ UNCHANGED buffer
    /\ result' = IF Head(inbox) = <<"result", 0>> THEN "read" ELSE result
    /\ inbox' = Tail(inbox)
    /\ UNCHANGED <<sender, upgrade, sendVars, closeVars, netVars, header, receiver, got, pings>>

\* read_frame takes the length, and then the body
ReadFrame ==
    /\ receiver = "reading" /\ buffer # <<>>
    /\ LET p == Head(buffer)
       IN IF header = 0 /\ p[2] = 1 THEN header' = p[1] /\ UNCHANGED got
          ELSE header' = 0 /\ got' = Append(got, IF p = <<header, 2>> THEN header ELSE 0)
    /\ buffer' = Tail(buffer)
    /\ UNCHANGED <<sender, upgrade, result, sendVars, closeVars, netVars, inbox, parts, rclosed,
                   receiver, pings>>

\* recv returns nothing: CLOSE has come, or the stream has ended
SeeEnd ==
    /\ receiver = "reading" /\ buffer = <<>>
    /\ rclosed \/ (socket = "closed" /\ inbox = <<>> /\ (wire = <<>> \/ astray))
    /\ receiver' = "ended"
    /\ UNCHANGED <<sender, upgrade, result, sendVars, closeVars, netVars, inbox, parts, buffer,
                   rclosed, header, got, pings>>

\* out of step, the reader meets an unknown opcode, an absurd length or type,
\* which raises, or something that looks like a frame
ReadAstray ==
    /\ receiver = "reading" /\ astray /\ inbox = <<>> /\ buffer = <<>>
    /\ \/ receiver' = "ended" /\ UNCHANGED got
       \/ Len(got) < MaxFrames /\ got' = Append(got, 0) /\ UNCHANGED receiver
    /\ UNCHANGED <<sender, upgrade, result, sendVars, closeVars, netVars, inbox, parts, buffer,
                   rclosed, header, pings>>

-----------------------------------------------------------------------------
Upgrading == RelayAccepts \/ RelayRefuses \/ ClientOpens \/ ClientGivesUp
Closing == MarkClosed \/ SayClose \/ CloseSocket
Receiving == Arrive \/ ReadMessage \/ ReadFrame \/ SeeEnd

LinkNext ==
    \/ Upgrading
    \/ \E w \in Writers : Begin(w) \/ WritePiece(w)
    \/ WriteResult \/ WritePong \/ CloseReceived \/ Closing
    \/ ProxyPings \/ Receiving \/ ReadAstray

LinkSpec == LinkInit /\ [][LinkNext]_linkVars

\* Threads run, and what is written arrives.  That the relay answers is not
\* assumed, nor that writers have anything to send.
FairLinkSpec ==
    /\ LinkSpec
    /\ WF_linkVars(ClientOpens \/ ClientGivesUp)
    /\ \A w \in Writers : WF_linkVars(WritePiece(w))
    /\ WF_linkVars(SayClose \/ CloseSocket)
    /\ WF_linkVars(Receiving)

-----------------------------------------------------------------------------
(* Properties *)

Stream == INSTANCE FrameStream
          WITH accepted <- begun, delivered <- got, notice <- result, foreign <- controls,
               broken <- astray, stopped <- closed, over <- receiver = "ended"

\* Frames arrive whole and in the order of the frame lock, from the first one
\* after the upgrade on, however proxies split them and ping in between.  Only a
\* control frame can break the stream, and a REGISTER_RESULT, which the relay
\* writes under another lock and which then never arrives.  Unless it is broken,
\* the reader meets its end only when the sender has closed; it has read the
\* result by then if one was sent, and misses at most the frame that a thread was
\* in (private_protocol.py:36-51, websocket.py:25-72, 189-198, relay.py:998-1016).
FramesArriveInOrder == Stream!StreamSpec

\* When the relay closes, the client's reader ends, also if the CLOSE has torn a
\* frame apart (websocket.py:42-53, relay.py:135-146).
CloseIsSeen == (readerAt \in {"marked", "said"}) ~> (receiver = "ended")

\* A client that asks for the upgrade is not left waiting, whether or not the
\* relay answers (websocket.py:108-144, client.py:568).
UpgradeDecided == (upgrade # "open") ~> (upgrade \in {"open", "failed"})

\* What several threads send, and what the reader answers, stays apart: the
\* client and the relay share a "private length-prefixed protocol"
\* (README.md:18-19).  The code does not have this property: a pong, a CLOSE or
\* the relay's REGISTER_RESULT may fall into a frame.
NothingTorn == ~astray
=============================================================================
