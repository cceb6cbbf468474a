------------------------------ MODULE Backpressure ------------------------------
(***************************************************************************)
(* A session whose process answers what it is sent, from the operator's    *)
(* SSH client through the relay to the process and back: the composition   *)
(* of the flow control of ChannelWindow with the blocking writes of the    *)
(* relay (relay.py) and of the client (client.py).                         *)
(*                                                                         *)
(* Every connection and pipe holds so many units, and a thread that writes *)
(* to a full one waits.  The relay has one thread for the operator, which  *)
(* reads data and window adjustments in the order they were sent, and one  *)
(* for the client; the client has one reader, and one thread for the       *)
(* output of the process.  Everybody reads what comes: the operator what   *)
(* it is sent, and the process its input, which it writes back.            *)
(***************************************************************************)
EXTENDS Integers, Sequences

CONSTANTS Window,  \* units the operator's SSH client lets the relay send
          Ahead,   \* units of data an operator has on the way to the relay
          Room,    \* units a connection or a pipe holds
          Total    \* bound: units the operator sends

VARIABLES
    given,     \* units the operator has sent
    fromOp,    \* messages on the way from the operator: data, adjustments
    toOp,      \* units on the way to the operator
    sshHas,    \* the operator's thread stands in send_frame with a unit
    toClient,  \* units on the way to the client
    readerHas, \* the client's reader stands in stdin.write with a unit
    stdin,     \* units in the pipe to the process
    procHas,   \* the process has a unit to write
    stdout,    \* units in the pipe from the process
    outHas,    \* the output thread stands in send_frame with a unit
    toRelay,   \* units on the way to the relay
    relayHas,  \* the client's reader at the relay has a unit for the operator
    window,    \* remote_window
    alive      \* RegisteredClient.alive

vars == <<given, fromOp, toOp, sshHas, toClient, readerHas, stdin, procHas, stdout,
          outHas, toRelay, relayHas, window, alive>>

Holds == {0, 1}

TypeOK ==
    /\ given \in 0..Total
    /\ fromOp \in Seq({"data", "adjust"})
    /\ toOp \in Nat
    /\ toClient \in 0..Room /\ stdin \in 0..Room /\ stdout \in 0..Room /\ toRelay \in 0..Room
    /\ sshHas \in Holds /\ readerHas \in Holds /\ procHas \in Holds
    /\ outHas \in Holds /\ relayHas \in Holds
    /\ window \in Nat /\ alive \in BOOLEAN

Init ==
    /\ given = 0 /\ fromOp = <<>> /\ toOp = 0
    /\ sshHas = 0 /\ toClient = 0 /\ readerHas = 0 /\ stdin = 0 /\ procHas = 0
    /\ stdout = 0 /\ outHas = 0 /\ toRelay = 0 /\ relayHas = 0
    /\ window = Window /\ alive = TRUE

DataAhead == Len(SelectSeq(fromOp, LAMBDA m : m = "data"))

-----------------------------------------------------------------------------
(* The operator's SSH client *)

OperatorSends ==
    /\ given < Total /\ DataAhead < Ahead
    /\ given' = given + 1
    /\ fromOp' = Append(fromOp, "data")
    /\ UNCHANGED <<toOp, sshHas, toClient, readerHas, stdin, procHas, stdout, outHas,
                   toRelay, relayHas, window, alive>>

OperatorReads ==
    /\ toOp > 0
    /\ toOp' = toOp - 1
    /\ fromOp' = Append(fromOp, "adjust")
    /\ UNCHANGED <<given, sshHas, toClient, readerHas, stdin, procHas, stdout, outHas,
                   toRelay, relayHas, window, alive>>

-----------------------------------------------------------------------------
(* The relay *)

\* the operator's thread, in _connection_loop: WINDOW_ADJUST ...
SshAdjusts ==
    /\ sshHas = 0 /\ fromOp # <<>> /\ Head(fromOp) = "adjust"
    /\ fromOp' = Tail(fromOp)
    /\ window' = window + 1
    /\ UNCHANGED <<given, toOp, sshHas, toClient, readerHas, stdin, procHas, stdout,
                   outHas, toRelay, relayHas, alive>>

\* ... or DATA, for which on_ssh_data calls send_frame
SshTakes ==
    /\ sshHas = 0 /\ fromOp # <<>> /\ Head(fromOp) = "data"
    /\ fromOp' = Tail(fromOp)
    /\ sshHas' = 1
    /\ UNCHANGED <<given, toOp, toClient, readerHas, stdin, procHas, stdout, outHas,
                   toRelay, relayHas, window, alive>>

SshForwards ==
    /\ sshHas = 1 /\ toClient < Room
    /\ sshHas' = 0 /\ toClient' = toClient + 1
    /\ UNCHANGED <<given, fromOp, toOp, readerHas, stdin, procHas, stdout, outHas,
                   toRelay, relayHas, window, alive>>

\* the client's reader: CHANNEL_DATA, for which remote_data reserves a window
RelayTakes ==
    /\ relayHas = 0 /\ toRelay > 0
    /\ toRelay' = toRelay - 1 /\ relayHas' = 1
    /\ UNCHANGED <<given, fromOp, toOp, sshHas, toClient, readerHas, stdin, procHas,
                   stdout, outHas, window, alive>>

RelayWrites ==
    /\ relayHas = 1 /\ window > 0
    /\ relayHas' = 0 /\ window' = window - 1 /\ toOp' = toOp + 1
    /\ UNCHANGED <<given, fromOp, sshHas, toClient, readerHas, stdin, procHas, stdout,
                   outHas, toRelay, alive>>

-----------------------------------------------------------------------------
(* The client, and the process *)

ReaderTakes ==
    /\ readerHas = 0 /\ toClient > 0
    /\ toClient' = toClient - 1 /\ readerHas' = 1
    /\ UNCHANGED <<given, fromOp, toOp, sshHas, stdin, procHas, stdout, outHas, toRelay,
                   relayHas, window, alive>>

ReaderWrites ==
    /\ readerHas = 1 /\ stdin < Room
    /\ readerHas' = 0 /\ stdin' = stdin + 1
    /\ UNCHANGED <<given, fromOp, toOp, sshHas, toClient, procHas, stdout, outHas,
                   toRelay, relayHas, window, alive>>

ProcReads ==
    /\ procHas = 0 /\ stdin > 0
    /\ stdin' = stdin - 1 /\ procHas' = 1
    /\ UNCHANGED <<given, fromOp, toOp, sshHas, toClient, readerHas, stdout, outHas,
                   toRelay, relayHas, window, alive>>

ProcWrites ==
    /\ procHas = 1 /\ stdout < Room
    /\ procHas' = 0 /\ stdout' = stdout + 1
    /\ UNCHANGED <<given, fromOp, toOp, sshHas, toClient, readerHas, stdin, outHas,
                   toRelay, relayHas, window, alive>>

OutReads ==
    /\ outHas = 0 /\ stdout > 0
    /\ stdout' = stdout - 1 /\ outHas' = 1
    /\ UNCHANGED <<given, fromOp, toOp, sshHas, toClient, readerHas, stdin, procHas,
                   toRelay, relayHas, window, alive>>

OutSends ==
    /\ outHas = 1 /\ toRelay < Room
    /\ outHas' = 0 /\ toRelay' = toRelay + 1
    /\ UNCHANGED <<given, fromOp, toOp, sshHas, toClient, readerHas, stdin, procHas,
                   stdout, relayHas, window, alive>>

-----------------------------------------------------------------------------
\* the waits for which somebody else has to move on
Blocked ==
    /\ toOp = 0 /\ (given = Total \/ DataAhead >= Ahead)
    /\ (sshHas = 1 /\ toClient = Room) \/ (sshHas = 0 /\ fromOp = <<>>)
    /\ (readerHas = 1 /\ stdin = Room) \/ (readerHas = 0 /\ toClient = 0)
    /\ (procHas = 1 /\ stdout = Room) \/ (procHas = 0 /\ stdin = 0)
    /\ (outHas = 1 /\ toRelay = Room) \/ (outHas = 0 /\ stdout = 0)
    /\ relayHas = 1 /\ window = 0

\* reserve_window gives up after 60 seconds.  That is taken to be longer than
\* anybody needs who can move on at all.  The exception ends the client's
\* reader, and with it the client: _reader_loop, close
WaitTimesOut ==
    /\ alive /\ Blocked
    /\ alive' = FALSE
    /\ UNCHANGED <<given, fromOp, toOp, sshHas, toClient, readerHas, stdin, procHas,
                   stdout, outHas, toRelay, relayHas, window>>

Works ==
    \/ OperatorSends \/ OperatorReads
    \/ SshAdjusts \/ SshTakes \/ SshForwards \/ RelayTakes \/ RelayWrites
    \/ ReaderTakes \/ ReaderWrites \/ ProcReads \/ ProcWrites \/ OutReads \/ OutSends

Next == (alive /\ Works) \/ WaitTimesOut

Spec == Init /\ [][Next]_vars

-----------------------------------------------------------------------------
(* Properties *)

\* The relay ends a client only because the client is gone: what it logs is
\* "client %s disconnected" (relay.py:250).  Here the client is there, and so is
\* everybody else.  The code does not have this property: the adjustment that
\* the reader waits for lies behind data that the operator's thread cannot get
\* rid of before the reader goes on.
ClientOutlastsFullPipes == alive
=============================================================================
