------------------------------ MODULE TcpForward ------------------------------
(***************************************************************************)
(* Remote forwarding (ssh -R) of one SSH connection at the relay           *)
(* (relay.py, ForwardListener, TCPForwardedChannel and the handlers of     *)
(* SSHConnection that serve them).                                         *)
(*                                                                         *)
(* The SSH thread enables and cancels listeners and handles what the       *)
(* operator says about their channels.  Every listener has a thread that   *)
(* accepts; every accepted TCP connection, called a stream here, has a     *)
(* thread that asks the operator to open a channel for it and, once that   *)
(* is confirmed, one that reads it (the same thread in this model: one     *)
(* ends where the other starts).  A stream also names its channel:         *)
(* channel ids are never reused, and handing one out is a step of its own. *)
(***************************************************************************)
EXTENDS Integers

CONSTANTS Listeners,   \* ForwardListener objects
          NoListener,  \* no entry in forwards
          Keys,        \* (address, port) pairs that operators ask for
          AnyPort,     \* the keys among them with port 0
          Streams,     \* TCP connections made to the listeners
          NoStream,    \* the SSH thread is at none of them
          MaxData      \* bound: reads of one stream

ASSUME NoListenerAssumption == NoListener \notin Listeners
ASSUME NoStreamAssumption == NoStream \notin Streams
ASSUME AnyPortAssumption == AnyPort \subseteq Keys
ASSUME MaxDataAssumption == MaxData \in Nat

VARIABLES
    here,      \* the operator's SSH client is connected
    spc,       \* where the SSH thread stands
    scur,      \* the stream it is at
    forwards,  \* SSHConnection.forwards
    lkey,      \* the key a listener was enabled under
    lstate,    \* ForwardListener.alive and its socket
    lpc,       \* where its _accept_loop stands
    table,     \* SSHConnection.channels: the streams in it
    tcp,       \* the TCP connection
    from,      \* the listener that accepted it
    hpc,       \* where its thread stands
    result,    \* open_event and open_ok
    bound,     \* recipient is set
    closed,    \* _closed
    got,       \* reads of the stream
    opView,    \* what the operator was told about the channel
    opClosed,  \* the operator sent CLOSE
    late,      \* history: streams accepted by a listener already closed
    strays     \* history: messages the operator got out of place

sshVars == <<here, spc, scur>>
listenerVars == <<forwards, lkey, lstate, lpc, late>>
streamVars == <<tcp, from, hpc, got>>
channelVars == <<table, result, bound, closed>>
operatorVars == <<opView, opClosed, strays>>
vars == <<sshVars, listenerVars, streamVars, channelVars, operatorVars>>

SPlaces == {"loop", "close_reply", "finishing", "ended"}
Opening == {"creating", "naming", "opening", "waiting", "dropping"}
Relaying == {"reading", "reserving", "sending", "eof", "closing", "close"}
HPlaces == Opening \cup Relaying \cup {"none", "ended"}

TypeOK ==
    /\ here \in BOOLEAN
    /\ spc \in SPlaces
    /\ scur \in Streams \cup {NoStream}
    /\ forwards \in [Keys -> Listeners \cup {NoListener}]
    /\ lkey \in [Listeners -> Keys]
    /\ lstate \in [Listeners -> {"new", "listening", "closed"}]
    /\ lpc \in [Listeners -> {"none", "accepting", "checking", "ended"}]
    /\ table \subseteq Streams /\ late \subseteq Streams
    /\ tcp \in [Streams -> {"none", "open", "finished", "reset", "closed"}]
    /\ from \in [Streams -> Listeners \cup {NoListener}]
    /\ hpc \in [Streams -> HPlaces]
    /\ result \in [Streams -> {"unset", "ok", "failed"}]
    /\ bound \in [Streams -> BOOLEAN] /\ closed \in [Streams -> BOOLEAN]
    /\ got \in [Streams -> 0..MaxData]
    /\ opView \in [Streams -> {"none", "asked", "open", "refused", "closed"}]
    /\ opClosed \in [Streams -> BOOLEAN]
    /\ strays \subseteq {"data", "eof", "close"}

Init ==
    /\ here = TRUE /\ spc = "loop" /\ scur = NoStream
    /\ forwards = [k \in Keys |-> NoListener]
    /\ lkey \in [Listeners -> Keys]
    /\ lstate = [l \in Listeners |-> "new"]
    /\ lpc = [l \in Listeners |-> "none"]
    /\ table = {} /\ late = {}
    /\ tcp = [s \in Streams |-> "none"]
    /\ from = [s \in Streams |-> NoListener]
    /\ hpc = [s \in Streams |-> "none"]
    /\ result = [s \in Streams |-> "unset"]
    /\ bound = [s \in Streams |-> FALSE]
    /\ closed = [s \in Streams |-> FALSE]
    /\ got = [s \in Streams |-> 0]
    /\ opView = [s \in Streams |-> "none"]
    /\ opClosed = [s \in Streams |-> FALSE]
    /\ strays = {}

-----------------------------------------------------------------------------
(* Writing to the operator *)

\* a message about a channel that the operator has open
Written(s, msg) ==
    /\ spc # "ended"
    /\ opView' = [opView EXCEPT ![s] = IF here /\ msg = "close" THEN "closed" ELSE @]
    /\ strays' = IF here /\ opView[s] # "open" THEN strays \cup {msg} ELSE strays
    /\ UNCHANGED opClosed

WriteFails == ~here \/ spc = "ended"

-----------------------------------------------------------------------------
(* The SSH thread: listeners *)

\* binding fails when a socket still listens on the same port
Bindable(k) ==
    k \in AnyPort \/ \A l \in Listeners : lkey[l] = k => lstate[l] # "listening"

\* tcpip-forward; a request that fails with an OSError changes nothing
Enable(l) ==
    /\ spc = "loop" /\ here
    /\ lstate[l] = "new"
    /\ Bindable(lkey[l])
    /\ lstate' = [lstate EXCEPT ![l] = "listening"]
    /\ lpc' = [lpc EXCEPT ![l] = "accepting"]
    /\ forwards' = [forwards EXCEPT ![lkey[l]] = l]
    /\ UNCHANGED <<sshVars, lkey, late, streamVars, channelVars, operatorVars>>

\* start() raises something else (OverflowError for a port that is none, UnicodeError
\* for a host that is none), and that ends run()
EnableRaises ==
    /\ spc = "loop" /\ here
    /\ spc' = "finishing"
    /\ UNCHANGED <<here, scur, listenerVars, streamVars, channelVars, operatorVars>>

\* mutant: the listener is dropped from the table and not closed
CancelForgets(k) ==
    /\ spc = "loop" /\ here
    /\ forwards[k] # NoListener
    /\ forwards' = [forwards EXCEPT ![k] = NoListener]
    /\ UNCHANGED <<sshVars, lkey, lpc, lstate, late, streamVars, channelVars,
                   operatorVars>>

\* cancel-tcpip-forward, answered with success whatever it finds
Cancel(k) ==
    /\ spc = "loop" /\ here
    /\ forwards[k] # NoListener
    /\ lstate' = [lstate EXCEPT ![forwards[k]] = "closed"]
    /\ forwards' = [forwards EXCEPT ![k] = NoListener]
    /\ UNCHANGED <<sshVars, lkey, lpc, late, streamVars, channelVars, operatorVars>>

\* the operator disconnects; run() ends, also after an exception
OperatorLeaves ==
    /\ here
    /\ here' = FALSE
    /\ UNCHANGED <<spc, scur, listenerVars, streamVars, channelVars, operatorVars>>

LoopEnds ==
    /\ spc = "loop" /\ ~here
    /\ spc' = "finishing"
    /\ UNCHANGED <<here, scur, listenerVars, streamVars, channelVars, operatorVars>>

Finish ==
    /\ spc = "finishing"
    /\ spc' = "ended"
    /\ here' = FALSE
    /\ lstate' = [l \in Listeners |->
                    IF forwards[lkey[l]] = l THEN "closed" ELSE lstate[l]]
    /\ UNCHANGED <<scur, forwards, lkey, lpc, late, streamVars, channelVars,
                   operatorVars>>

-----------------------------------------------------------------------------
(* The SSH thread: channels *)

\* CHANNEL_OPEN_CONFIRMATION
Confirm(s) ==
    /\ spc = "loop" /\ here
    /\ opView[s] = "asked"
    /\ opView' = [opView EXCEPT ![s] = "open"]
    /\ IF s \in table
       THEN /\ bound' = [bound EXCEPT ![s] = TRUE]
            /\ result' = [result EXCEPT ![s] = "ok"]
       ELSE UNCHANGED <<bound, result>>
    /\ UNCHANGED <<sshVars, listenerVars, streamVars, table, closed, opClosed,
                   strays>>

\* CHANNEL_OPEN_FAILURE
Refuse(s) ==
    /\ spc = "loop" /\ here
    /\ opView[s] = "asked"
    /\ opView' = [opView EXCEPT ![s] = "refused"]
    /\ table' = table \ {s}
    /\ result' = IF s \in table THEN [result EXCEPT ![s] = "failed"] ELSE result
    /\ UNCHANGED <<sshVars, listenerVars, streamVars, bound, closed, opClosed,
                   strays>>

\* the operator may use a channel until it learns of a CLOSE
FromOperator(s) ==
    /\ spc = "loop" /\ here
    /\ opView[s] \in {"open", "closed"} /\ ~opClosed[s]

\* CHANNEL_DATA: sendall raises on a TCP connection that the peer has reset or that
\* the relay has closed, and that ends run().  Data that is passed on, or has no
\* entry, changes nothing here.
OperatorData(s) ==
    /\ FromOperator(s)
    /\ s \in table /\ tcp[s] \in {"reset", "closed"}
    /\ spc' = "finishing"
    /\ UNCHANGED <<here, scur, listenerVars, streamVars, channelVars, operatorVars>>

\* CHANNEL_CLOSE: out of the table, marked closed, the TCP connection closed ...
OperatorCloses(s) ==
    /\ FromOperator(s)
    /\ opClosed' = [opClosed EXCEPT ![s] = TRUE]
    /\ table' = table \ {s}
    /\ IF s \in table
       THEN /\ closed' = [closed EXCEPT ![s] = TRUE]
            /\ tcp' = [tcp EXCEPT ![s] = "closed"]
            /\ spc' = "close_reply" /\ scur' = s
       ELSE UNCHANGED <<closed, tcp, spc, scur>>
    /\ UNCHANGED <<here, listenerVars, from, hpc, got, result, bound, opView,
                   strays>>

\* ... and answered with CLOSE
CloseReply ==
    /\ spc = "close_reply"
    /\ \/ Written(scur, "close") /\ spc' = "loop"
       \/ WriteFails /\ spc' = "finishing" /\ UNCHANGED operatorVars
    /\ scur' = NoStream
    /\ UNCHANGED <<here, listenerVars, streamVars, channelVars>>

SshGoesOn == CloseReply \/ LoopEnds \/ Finish

-----------------------------------------------------------------------------
(* A listener's thread.  Closing its socket does not wake it from accept(): *)
(* the call may still return one connection.                                *)

Accept(l, s) ==
    /\ lpc[l] = "accepting"
    /\ tcp[s] = "none"
    /\ tcp' = [tcp EXCEPT ![s] = "open"]
    /\ from' = [from EXCEPT ![s] = l]
    /\ hpc' = [hpc EXCEPT ![s] = "creating"]
    /\ lpc' = [lpc EXCEPT ![l] = "checking"]
    /\ late' = IF lstate[l] = "closed" THEN late \cup {s} ELSE late
    /\ UNCHANGED <<sshVars, forwards, lkey, lstate, got, channelVars, operatorVars>>

AcceptFails(l) ==
    /\ lpc[l] = "accepting"
    /\ lstate[l] = "closed"
    /\ lpc' = [lpc EXCEPT ![l] = "ended"]
    /\ UNCHANGED <<sshVars, forwards, lkey, lstate, late, streamVars, channelVars,
                   operatorVars>>

\* while self.alive
CheckAlive(l) ==
    /\ lpc[l] = "checking"
    /\ lpc' = [lpc EXCEPT ![l] = IF lstate[l] = "listening" THEN "accepting"
                                 ELSE "ended"]
    /\ UNCHANGED <<sshVars, forwards, lkey, lstate, late, streamVars, channelVars,
                   operatorVars>>

-----------------------------------------------------------------------------
(* _handle_conn *)

Goes(s, place) == hpc' = [hpc EXCEPT ![s] = place]

\* create_forwarded_channel
Create(s) ==
    /\ hpc[s] = "creating"
    /\ table' = table \cup {s}
    /\ Goes(s, "naming")
    /\ UNCHANGED <<sshVars, listenerVars, tcp, from, got, result, bound, closed,
                   operatorVars>>

\* mutant: the connected port is taken from the request
NameFromRequest(s) ==
    /\ hpc[s] = "naming"
    /\ Goes(s, "opening")
    /\ UNCHANGED <<sshVars, listenerVars, tcp, from, got, channelVars, operatorVars>>

\* self.sock.getsockname(), which raises once the listener is closed
Name(s) ==
    /\ hpc[s] = "naming"
    /\ Goes(s, IF lstate[from[s]] = "closed" THEN "ended" ELSE "opening")
    /\ UNCHANGED <<sshVars, listenerVars, tcp, from, got, channelVars, operatorVars>>

\* CHANNEL_OPEN
Open(s) ==
    /\ hpc[s] = "opening"
    /\ \/ /\ spc # "ended"
          /\ opView' = [opView EXCEPT ![s] = IF here THEN "asked" ELSE @]
          /\ Goes(s, "waiting")
       \/ /\ WriteFails
          /\ Goes(s, "ended") /\ UNCHANGED opView
    /\ UNCHANGED <<sshVars, listenerVars, tcp, from, got, channelVars, opClosed,
                   strays>>

Answered(s) ==
    /\ hpc[s] = "waiting"
    /\ result[s] # "unset"
    /\ Goes(s, IF result[s] = "ok" THEN "reading" ELSE "dropping")
    /\ UNCHANGED <<sshVars, listenerVars, tcp, from, got, channelVars, operatorVars>>

\* mutant: there is no timeout
NeverExpires(s) == FALSE /\ UNCHANGED vars

\* 30 seconds without an answer
Expires(s) ==
    /\ hpc[s] = "waiting"
    /\ result[s] = "unset"
    /\ Goes(s, "dropping")
    /\ UNCHANGED <<sshVars, listenerVars, tcp, from, got, channelVars, operatorVars>>

\* on_ssh_close; the entry stays in the table
Drop(s) ==
    /\ hpc[s] = "dropping"
    /\ closed' = [closed EXCEPT ![s] = TRUE]
    /\ tcp' = [tcp EXCEPT ![s] = "closed"]
    /\ Goes(s, "ended")
    /\ UNCHANGED <<sshVars, listenerVars, from, got, table, result, bound,
                   operatorVars>>

-----------------------------------------------------------------------------
(* TCPForwardedChannel._reader_loop *)

RecvData(s) ==
    /\ hpc[s] = "reading"
    /\ tcp[s] = "open" /\ got[s] < MaxData
    /\ got' = [got EXCEPT ![s] = @ + 1]
    /\ Goes(s, "reserving")
    /\ UNCHANGED <<sshVars, listenerVars, tcp, from, channelVars, operatorVars>>

RecvEnds(s) ==
    /\ hpc[s] = "reading"
    /\ tcp[s] # "open"
    /\ Goes(s, "eof")
    /\ UNCHANGED <<sshVars, listenerVars, tcp, from, got, channelVars, operatorVars>>

\* mutant: what reserve_window raises ends the thread without the finally clause
ReserveWindowOrDie(s) ==
    /\ hpc[s] = "reserving"
    /\ (~closed[s] /\ Goes(s, "sending")) \/ Goes(s, "ended")
    /\ UNCHANGED <<sshVars, listenerVars, tcp, from, got, channelVars, operatorVars>>

\* send_channel_data: reserve_window, which raises when the channel is closed or
\* when the operator gives no window for a minute ...
ReserveWindow(s) ==
    /\ hpc[s] = "reserving"
    /\ (~closed[s] /\ Goes(s, "sending")) \/ Goes(s, "eof")
    /\ UNCHANGED <<sshVars, listenerVars, tcp, from, got, channelVars, operatorVars>>

\* ... and then the write: a CLOSE may have been answered between the two
SendData(s) ==
    /\ hpc[s] = "sending"
    /\ \/ Written(s, "data") /\ Goes(s, "reading")
       \/ WriteFails /\ Goes(s, "eof") /\ UNCHANGED operatorVars
    /\ UNCHANGED <<sshVars, listenerVars, tcp, from, got, channelVars>>

\* a write in the finally clause: works and goes on, or ends the thread
LastWrite(s, place, msg, next) ==
    /\ hpc[s] = place
    /\ \/ Written(s, msg) /\ Goes(s, next)
       \/ WriteFails /\ Goes(s, "ended") /\ UNCHANGED operatorVars
    /\ UNCHANGED <<sshVars, listenerVars, tcp, from, got, channelVars>>

SendEof(s) == LastWrite(s, "eof", "eof", "closing")

Unroute(s) ==
    /\ hpc[s] = "closing"
    /\ closed' = [closed EXCEPT ![s] = TRUE]
    /\ table' = table \ {s}
    /\ Goes(s, "close")
    /\ UNCHANGED <<sshVars, listenerVars, tcp, from, got, result, bound, operatorVars>>

SendClose(s) == LastWrite(s, "close", "close", "ended")

HandlerGoesOn(s) ==
    \/ Create(s) \/ Name(s) \/ Open(s) \/ Answered(s) \/ Expires(s) \/ Drop(s)
    \/ RecvEnds(s) \/ ReserveWindow(s) \/ SendData(s) \/ SendEof(s) \/ Unroute(s) \/ SendClose(s)

\* the TCP peer shuts its end down, or resets the connection
PeerEnds(s) ==
    /\ tcp[s] \in {"open", "finished"}
    /\ \E state \in {"finished", "reset"} : tcp' = [tcp EXCEPT ![s] = state]
    /\ tcp' # tcp
    /\ UNCHANGED <<sshVars, listenerVars, from, hpc, got, channelVars, operatorVars>>

-----------------------------------------------------------------------------
Next ==
    \/ \E l \in Listeners :
         \/ Enable(l) \/ AcceptFails(l) \/ CheckAlive(l)
         \/ \E s \in Streams : Accept(l, s)
    \/ \E k \in Keys : Cancel(k)
    \/ \E s \in Streams :
         \/ Confirm(s) \/ Refuse(s) \/ OperatorData(s) \/ OperatorCloses(s)
         \/ RecvData(s) \/ HandlerGoesOn(s) \/ PeerEnds(s)
    \/ OperatorLeaves \/ EnableRaises \/ SshGoesOn

Spec == Init /\ [][Next]_vars

\* The threads of the relay run; a wait for the operator ends after 30 seconds.
FairSpec ==
    /\ Spec
    /\ WF_vars(SshGoesOn)
    /\ \A s \in Streams : WF_vars(HandlerGoesOn(s))

-----------------------------------------------------------------------------
(* Properties *)

\* A connection that a listener accepts when it is closed already never reaches the
\* operator (relay.py:429-441, 784-790).  One that was accepted and named before may
\* still ask the operator for a channel after the cancellation.
LateConnectionsStayOut == \A s \in late : opView[s] = "none"

\* A stream is relayed only over a channel the operator confirmed and before
\* its opening expired; its data always has a recipient (relay.py:455-459,
\* 868-877, 892-894).
RelayedIsConfirmed ==
    \A s \in Streams :
        hpc[s] \in Relaying =>
            /\ bound[s] /\ result[s] = "ok"
            /\ opView[s] \in {"open", "closed"} \/ ~here

\* The end of a connection whose channel the operator confirmed is told the operator
\* with a CLOSE, also when it ends while data is held up for want of a window and
\* whatever the operator's own CLOSE does meanwhile, unless the operator has gone
\* or the relay has closed the connection: because the operator asked it to, or
\* because the confirmation came after the timeout (relay.py:373-383, 455-459,
\* 748-752, 923-928).
StreamEndsAreTold ==
    \A s \in Streams :
        (tcp[s] \in {"finished", "reset"} /\ result[s] = "ok")
            ~> (opView[s] = "closed" \/ tcp[s] = "closed" \/ ~here)

\* What is said about a forwarded connection ends the whole SSH connection only when
\* the peer has broken that one.  The code does not have this property: the channel
\* of a connection it gave up stays in the table, and data after a late
\* confirmation is written to the closed socket (relay.py:386, 456-457, 726-732,
\* 872-877); and a request for a port that is none ends the SSH connection
\* (768-783).
OnlyPeersEndIt ==
    spc = "finishing" /\ here => \E s \in Streams : tcp[s] = "reset"

\* Listeners end with their connection, except one whose entry a second
\* request for port 0 at its address replaced (relay.py:504-506, 769-771).
ListenersEndWithConnection ==
    spc = "ended" =>
        \A l \in Listeners :
            lstate[l] = "listening" =>
                /\ lkey[l] \in AnyPort
                /\ \E m \in Listeners \ {l} : lkey[m] = lkey[l] /\ lstate[m] # "new"

\* An accepted connection is relayed, or closed, whatever the operator answers or
\* does not answer.  It is left as it is, its socket open and its entry in the table,
\* only when its listener was closed before it asked for the port, or the
\* operator has gone: then its thread dies (relay.py:438-459).
ConnectionsAreDecided ==
    \A s \in Streams :
        (hpc[s] \in Opening) ~>
            \/ hpc[s] \in Relaying
            \/ tcp[s] = "closed"
            \/ hpc[s] = "ended" /\ (lstate[from[s]] = "closed" \/ ~here)

\* The safety core of that: the operator's answer is never lost on a connection
\* that still waits for it, though the table is searched for it and three threads
\* take entries out of the table (relay.py:455-457, 868-885).
AnswerIsHeard ==
    \A s \in Streams :
        hpc[s] = "waiting" /\ opView[s] \in {"open", "refused", "closed"} =>
            result[s] # "unset"

\* No message about a channel follows its CLOSE: "The relay terminates SSHv2
\* for OpenSSH clients" (README.md:17).  The code does not have this property.
ForwardMessagesInPlace == strays = {}
=============================================================================
