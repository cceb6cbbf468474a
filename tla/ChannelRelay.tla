----------------------------- MODULE ChannelRelay -----------------------------
(***************************************************************************)
(* Channels of operators, relayed to one registered reverse client.        *)
(*                                                                         *)
(* Three kinds of thread meet here.  An SSH connection's thread (relay.py, *)
(* SSHConnection._connection_loop) opens channels at the client and passes *)
(* on what its operator sends.  The client's reader (RegisteredClient      *)
(* ._reader_loop) passes on what the client sends, for all operators, and  *)
(* writes to their sockets itself.  The client (client.py,                 *)
(* ReverseClientConnection.run) answers, and its channels' threads send.   *)
(* Each entry of spc and rpc is a place between two steps at which other   *)
(* threads may run: the code's locks cover single table updates only.      *)
(*                                                                         *)
(* A channel is named by the id the client connection gave it; ids are     *)
(* never reused.  The numbers that an operator and the relay have for it   *)
(* are not modelled: where the relay takes one for the other (SendFailure) *)
(* the message may be about any channel of that operator.  Operators are   *)
(* modelled by what they have been told (opView): what an operator sends   *)
(* is picked up when its thread is in its loop.  Windows count packets.    *)
(***************************************************************************)
EXTENDS Integers, Sequences

CONSTANTS Conns,         \* SSH connections of operators
          NoOwner,       \* the owner of a channel not yet opened
          Kinds,         \* channel types operators open
          MaxChannels,   \* bound: channels opened
          MaxData,       \* bound: data frames the client sends on a channel
          MaxSent,       \* bound: data frames the operator sends on a channel
          MaxGrants,     \* bound: window adjustments for a channel
          Leavers,       \* bound: the operators that may disconnect
          LinkMayFail,   \* bound: whether the link to the client may fail
          InitialWindow  \* packets an operator lets the relay send at first

ASSUME NoOwnerAssumption == NoOwner \notin Conns
ASSUME KindsAssumption == Kinds \subseteq {"session", "direct-tcpip"}
ASSUME BoundsAssumption ==
    /\ MaxChannels \in Nat /\ MaxData \in Nat /\ MaxSent \in Nat
    /\ MaxGrants \in Nat /\ InitialWindow \in Nat
    /\ Leavers \subseteq Conns /\ LinkMayFail \in BOOLEAN

Chans == 1..MaxChannels

VARIABLES
  \* the registered client, at the relay
    alive,          \* RegisteredClient.alive
    channelCounter, \* RegisteredClient._channel_counter
    channels,       \* RegisteredClient.channels
    pendingOpen,    \* RegisteredClient._pending_open
    answer,         \* PendingValue of open_channel: "unset", "ok", "failed"
  \* the channel objects, and the tables of the SSH connections
    owner,          \* SSHChannelBase.ssh
    kind,           \* channel type
    bound,          \* SSHChannelBase.recipient is set
    window,         \* SSHChannelBase.remote_window
    closed,         \* SSHChannelBase._closed
    sshChannels,    \* SSHConnection.channels, of all connections
  \* threads
    spc,            \* where the thread of an SSH connection stands
    scur,           \* the channel it is at
    rpc,            \* where the client's reader stands
    rch,            \* the channel it is at
    todo,           \* the channels close() has yet to tell
  \* the connection to the client, and the client
    link,           \* the connection is up
    toClient,       \* frames on the way to the client
    toRelay,        \* frames on the way to the relay
    end,            \* the client's end of a channel
    started,        \* a session has been given something to run
    emitted,        \* data frames the client's end has sent
  \* operators, and history
    here,           \* the operator's SSH client is connected
    opView,         \* what the operator was told about a channel
    opClosed,       \* the operator sent CLOSE
    opSent,         \* data frames the operator sent
    grants,         \* window adjustments the operator sent
    strays,         \* messages the operator got out of place
    early,          \* channels with frames dropped before they were bound
    missed          \* channels with frames dropped for want of an entry

clientVars == <<alive, channelCounter, channels, pendingOpen, answer>>
chanVars == <<owner, kind, bound, window, closed, sshChannels>>
sshVars == <<spc, scur>>
readerVars == <<rpc, rch, todo>>
netVars == <<link, toClient, toRelay>>
endVars == <<end, started, emitted>>
opVars == <<here, opClosed, opSent, grants>>
viewVars == <<opView, strays>>
lossVars == <<early, missed>>
vars == <<clientVars, chanVars, sshVars, readerVars, netVars, endVars,
          opVars, viewVars, lossVars>>

SPlaces == {"loop", "open_send", "open_wait", "open_expired", "open_bind",
            "open_insert", "open_confirm", "open_refuse", "send_reply",
            "send_failure",
            "close_send", "close_forget", "close_reply", "ended"}
RPlaces == {"reading", "reserving", "writing", "writing_eof", "unrouting",
            "closing", "forgetting", "failing", "listing", "telling", "dead"}
Views == {"none", "asked", "open", "refused", "closed"}
Messages == {"opened", "refused", "data", "eof", "close", "reply", "failure"}
Frames == {"open", "data", "close", "confirm", "fail", "eof"}

TypeOK ==
    /\ alive \in BOOLEAN
    /\ channelCounter \in Nat
    /\ channels \subseteq Chans /\ pendingOpen \subseteq Chans
    /\ answer \in [Chans -> {"unset", "ok", "failed"}]
    /\ owner \in [Chans -> Conns \cup {NoOwner}]
    /\ kind \in [Chans -> {"session", "direct-tcpip"}]
    /\ bound \in [Chans -> BOOLEAN]
    /\ window \in [Chans -> Nat]
    /\ closed \in [Chans -> BOOLEAN]
    /\ sshChannels \subseteq Chans
    /\ spc \in [Conns -> SPlaces] /\ scur \in [Conns -> Nat]
    /\ rpc \in RPlaces /\ rch \in Nat /\ todo \subseteq Chans
    /\ link \in BOOLEAN
    /\ toClient \in Seq(Frames \X Chans) /\ toRelay \in Seq(Frames \X Chans)
    /\ end \in [Chans -> {"none", "open", "refused", "closed", "finished"}]
    /\ started \in [Chans -> BOOLEAN]
    /\ emitted \in [Chans -> Nat]
    /\ here \in [Conns -> BOOLEAN]
    /\ opView \in [Chans -> Views]
    /\ opClosed \in [Chans -> BOOLEAN]
    /\ opSent \in [Chans -> Nat] /\ grants \in [Chans -> Nat]
    /\ strays \subseteq Messages \X Views
    /\ early \subseteq Chans /\ missed \subseteq Chans

Init ==
    /\ alive = TRUE
    /\ channelCounter = 1
    /\ channels = {} /\ pendingOpen = {}
    /\ answer = [ch \in Chans |-> "unset"]
    /\ owner = [ch \in Chans |-> NoOwner]
    /\ kind = [ch \in Chans |-> "session"]
    /\ bound = [ch \in Chans |-> FALSE]
    /\ window = [ch \in Chans |-> 0]
    /\ closed = [ch \in Chans |-> FALSE]
    /\ sshChannels = {}
    /\ spc = [s \in Conns |-> "loop"] /\ scur = [s \in Conns |-> 0]
    /\ rpc = "reading" /\ rch = 0 /\ todo = {}
    /\ link = TRUE
    /\ toClient = <<>> /\ toRelay = <<>>
    /\ end = [ch \in Chans |-> "none"]
    /\ started = [ch \in Chans |-> FALSE]
    /\ emitted = [ch \in Chans |-> 0]
    /\ here = [s \in Conns |-> TRUE]
    /\ opView = [ch \in Chans |-> "none"]
    /\ opClosed = [ch \in Chans |-> FALSE]
    /\ opSent = [ch \in Chans |-> 0] /\ grants = [ch \in Chans |-> 0]
    /\ strays = {} /\ early = {} /\ missed = {}

-----------------------------------------------------------------------------
(* Writing to sockets *)

\* what an SSH client makes of a message about one of its channels
InPlace(msg, view) ==
    CASE msg \in {"opened", "refused"} -> view = "asked"
      [] OTHER -> view = "open"

After(msg, view) ==
    CASE msg = "opened" -> "open"
      [] msg = "refused" -> "refused"
      [] msg = "close" -> "closed"
      [] OTHER -> view

Told(ch, msg) ==
    /\ opView' = [opView EXCEPT ![ch] = After(msg, @)]
    /\ strays' = IF InPlace(msg, opView[ch]) THEN strays
                 ELSE strays \cup {<<msg, opView[ch]>>}

\* send_payload of an SSH connection works; nothing arrives once the operator
\* has gone
Written(s, ch, msg) ==
    /\ spc[s] # "ended"
    /\ IF here[s] THEN Told(ch, msg) ELSE UNCHANGED viewVars

\* send_payload of an SSH connection raises
WriteFails(s) == ~here[s] \/ spc[s] = "ended"

\* send_frame to the client works, for nothing if the link has just failed;
\* or raises
Framed(type, ch) ==
    \/ link /\ toClient' = Append(toClient, <<type, ch>>)
    \/ ~link /\ alive /\ UNCHANGED toClient
FrameFails == ~link

SpcTo(s, place) == spc' = [spc EXCEPT ![s] = place]

-----------------------------------------------------------------------------
(* The thread of an SSH connection: _handle_channel_open and open_channel *)

\* mutant: the recipient is set before the client is asked
OpenRegisterBound(s, k) ==
    LET ch == channelCounter IN
    /\ spc[s] = "loop" /\ here[s]
    /\ ch \in Chans
    /\ channelCounter' = channelCounter + 1
    /\ channels' = channels \cup {ch}
    /\ pendingOpen' = pendingOpen \cup {ch}
    /\ owner' = [owner EXCEPT ![ch] = s]
    /\ kind' = [kind EXCEPT ![ch] = k]
    /\ opView' = [opView EXCEPT ![ch] = "asked"]
    /\ bound' = [bound EXCEPT ![ch] = TRUE]
    /\ SpcTo(s, "open_send")
    /\ scur' = [scur EXCEPT ![s] = ch]
    /\ UNCHANGED <<alive, answer, window, closed, sshChannels,
                   readerVars, netVars, endVars, opVars, strays, lossVars>>

\* CHANNEL_OPEN is read, and open_channel registers the channel
OpenRegister(s, k) ==
    LET ch == channelCounter IN
    /\ spc[s] = "loop" /\ here[s]
    /\ ch \in Chans
    /\ channelCounter' = channelCounter + 1
    /\ channels' = channels \cup {ch}
    /\ pendingOpen' = pendingOpen \cup {ch}
    /\ owner' = [owner EXCEPT ![ch] = s]
    /\ kind' = [kind EXCEPT ![ch] = k]
    /\ opView' = [opView EXCEPT ![ch] = "asked"]
    /\ SpcTo(s, "open_send")
    /\ scur' = [scur EXCEPT ![s] = ch]
    /\ UNCHANGED <<alive, answer, bound, window, closed, sshChannels,
                   readerVars, netVars, endVars, opVars, strays, lossVars>>

OpenSend(s) ==
    /\ spc[s] = "open_send"
    /\ \/ Framed("open", scur[s]) /\ SpcTo(s, "open_wait")
       \/ FrameFails /\ SpcTo(s, "ended") /\ UNCHANGED toClient
    /\ UNCHANGED <<clientVars, chanVars, scur, readerVars, link, toRelay,
                   endVars, opVars, viewVars, lossVars>>

\* mutant: the channel leaves the table whatever the answer
OpenAnsweredPops(s) ==
    /\ spc[s] = "open_wait"
    /\ answer[scur[s]] # "unset"
    /\ SpcTo(s, IF answer[scur[s]] = "ok" THEN "open_bind" ELSE "open_refuse")
    /\ channels' = channels \ {scur[s]}
    /\ UNCHANGED <<alive, channelCounter, pendingOpen, answer, chanVars, scur,
                   readerVars, netVars, endVars, opVars, viewVars, lossVars>>

\* pending.event.wait returns True
OpenAnswered(s) ==
    /\ spc[s] = "open_wait"
    /\ answer[scur[s]] # "unset"
    /\ IF answer[scur[s]] = "ok"
       THEN SpcTo(s, "open_bind") /\ UNCHANGED channels
       ELSE SpcTo(s, "open_refuse") /\ channels' = channels \ {scur[s]}
    /\ UNCHANGED <<alive, channelCounter, pendingOpen, answer, chanVars, scur,
                   readerVars, netVars, endVars, opVars, viewVars, lossVars>>

\* mutant: no timeout
OpenNeverExpires(s) ==
    FALSE /\ UNCHANGED vars

\* pending.event.wait(30) returns False ...
OpenExpires(s) ==
    /\ spc[s] = "open_wait"
    /\ answer[scur[s]] = "unset"
    /\ SpcTo(s, "open_expired")
    /\ UNCHANGED <<clientVars, chanVars, scur, readerVars, netVars, endVars,
                   opVars, viewVars, lossVars>>

\* mutant: the expired channel stays in the client's table
OpenExpiredKept(s) ==
    /\ spc[s] = "open_expired"
    /\ pendingOpen' = pendingOpen \ {scur[s]}
    /\ SpcTo(s, "open_refuse")
    /\ UNCHANGED <<channels, alive, channelCounter, answer, chanVars, scur,
                   readerVars, netVars, endVars, opVars, viewVars, lossVars>>

\* ... and then the channel is taken out of the tables
OpenForget(s) ==
    /\ spc[s] = "open_expired"
    /\ channels' = channels \ {scur[s]}
    /\ pendingOpen' = pendingOpen \ {scur[s]}
    /\ SpcTo(s, "open_refuse")
    /\ UNCHANGED <<alive, channelCounter, answer, chanVars, scur, readerVars,
                   netVars, endVars, opVars, viewVars, lossVars>>

\* a write of this thread to its operator: works and goes on, or ends the thread
Reply(s, msg, next) ==
    \/ Written(s, scur[s], msg) /\ SpcTo(s, next)
    \/ WriteFails(s) /\ SpcTo(s, "ended") /\ UNCHANGED viewVars

OpenRefuse(s) ==
    /\ spc[s] = "open_refuse"
    /\ Reply(s, "refused", "loop")
    /\ UNCHANGED <<clientVars, chanVars, scur, readerVars, netVars, endVars,
                   opVars, lossVars>>

\* set_recipient
OpenBind(s) ==
    /\ spc[s] = "open_bind"
    /\ bound' = [bound EXCEPT ![scur[s]] = TRUE]
    /\ window' = [window EXCEPT ![scur[s]] = InitialWindow]
    /\ SpcTo(s, "open_insert")
    /\ UNCHANGED <<clientVars, owner, kind, closed, sshChannels, scur,
                   readerVars, netVars, endVars, opVars, viewVars, lossVars>>

OpenInsert(s) ==
    /\ spc[s] = "open_insert"
    /\ sshChannels' = sshChannels \cup {scur[s]}
    /\ SpcTo(s, "open_confirm")
    /\ UNCHANGED <<clientVars, owner, kind, bound, window, closed, scur,
                   readerVars, netVars, endVars, opVars, viewVars, lossVars>>

OpenConfirm(s) ==
    /\ spc[s] = "open_confirm"
    /\ Reply(s, "opened", "loop")
    /\ UNCHANGED <<clientVars, chanVars, scur, readerVars, netVars, endVars,
                   opVars, lossVars>>

-----------------------------------------------------------------------------
(* The thread of an SSH connection: messages for a channel.  A message that *)
(* the operator sent before it learned of a CLOSE still arrives.            *)

FromOperator(s, ch) ==
    /\ spc[s] = "loop"
    /\ owner[ch] = s
    /\ opView[ch] \in {"open", "closed"} /\ ~opClosed[ch]

\* DATA, EOF or a channel request: one frame to the client ...
OperatorSends(s, ch) ==
    /\ FromOperator(s, ch) /\ here[s]
    /\ opSent[ch] < MaxSent
    /\ opSent' = [opSent EXCEPT ![ch] = @ + 1]
    /\ scur' = [scur EXCEPT ![s] = ch]
    /\ IF ch \in sshChannels
       THEN \/ Framed("data", ch) /\ SpcTo(s, "send_reply")
            \/ FrameFails /\ SpcTo(s, "ended") /\ UNCHANGED toClient
       ELSE (SpcTo(s, "send_failure") \/ UNCHANGED spc) /\ UNCHANGED toClient
    /\ UNCHANGED <<clientVars, chanVars, readerVars, link, toRelay,
                   endVars, here, opClosed, grants, viewVars, lossVars>>

\* ... and what answers DATA and a request that wants it: a window adjustment,
\* SUCCESS or FAILURE.  An EOF and other requests have no answer.
SendReply(s) ==
    /\ spc[s] = "send_reply"
    /\ \/ Reply(s, "reply", "loop")
       \/ SpcTo(s, "loop") /\ UNCHANGED viewVars
    /\ UNCHANGED <<clientVars, chanVars, scur, readerVars, netVars, endVars,
                   opVars, lossVars>>

\* A request about a channel that is in no table, and that wants an answer, is
\* answered CHANNEL_FAILURE with the relay's number of the channel in the place of
\* the operator's: whichever channel the operator has or had under that number, if
\* any, is the one it hears of.
SendFailure(s) ==
    /\ spc[s] = "send_failure"
    /\ \/ \E ch \in Chans : owner[ch] = s /\ Written(s, ch, "failure") /\ SpcTo(s, "loop")
       \/ SpcTo(s, "loop") /\ UNCHANGED viewVars
       \/ WriteFails(s) /\ SpcTo(s, "ended") /\ UNCHANGED viewVars
    /\ UNCHANGED <<clientVars, chanVars, scur, readerVars, netVars, endVars,
                   opVars, lossVars>>

\* WINDOW_ADJUST
OperatorGrants(s, ch) ==
    /\ FromOperator(s, ch) /\ here[s]
    /\ grants[ch] < MaxGrants
    /\ grants' = [grants EXCEPT ![ch] = @ + 1]
    /\ window' = IF ch \in sshChannels THEN [window EXCEPT ![ch] = @ + 1]
                 ELSE window
    /\ UNCHANGED <<clientVars, owner, kind, bound, closed, sshChannels,
                   sshVars, readerVars, netVars, endVars, here, opClosed,
                   opSent, viewVars, lossVars>>

\* mutant: on_ssh_close does not tell the client
OperatorClosesSilently(s, ch) ==
    /\ FromOperator(s, ch) /\ here[s]
    /\ opClosed' = [opClosed EXCEPT ![ch] = TRUE]
    /\ IF ch \in sshChannels
       THEN /\ sshChannels' = sshChannels \ {ch}
            /\ closed' = [closed EXCEPT ![ch] = TRUE]
            /\ SpcTo(s, "close_forget")
            /\ scur' = [scur EXCEPT ![s] = ch]
       ELSE UNCHANGED <<sshChannels, closed, spc, scur>>
    /\ UNCHANGED <<clientVars, owner, kind, bound, window, readerVars, netVars,
                   endVars, here, opSent, grants, viewVars, lossVars>>

\* CLOSE: the channel leaves the connection's table and is marked closed
OperatorCloses(s, ch) ==
    /\ FromOperator(s, ch) /\ here[s]
    /\ opClosed' = [opClosed EXCEPT ![ch] = TRUE]
    /\ IF ch \in sshChannels
       THEN /\ sshChannels' = sshChannels \ {ch}
            /\ closed' = [closed EXCEPT ![ch] = TRUE]
            /\ SpcTo(s, "close_send")
            /\ scur' = [scur EXCEPT ![s] = ch]
       ELSE UNCHANGED <<sshChannels, closed, spc, scur>>
    /\ UNCHANGED <<clientVars, owner, kind, bound, window, readerVars, netVars,
                   endVars, here, opSent, grants, viewVars, lossVars>>

CloseSend(s) ==
    /\ spc[s] = "close_send"
    /\ \/ Framed("close", scur[s]) /\ SpcTo(s, "close_forget")
       \/ FrameFails /\ SpcTo(s, "ended") /\ UNCHANGED toClient
    /\ UNCHANGED <<clientVars, chanVars, scur, readerVars, link, toRelay,
                   endVars, opVars, viewVars, lossVars>>

CloseForget(s) ==
    /\ spc[s] = "close_forget"
    /\ channels' = channels \ {scur[s]}
    /\ SpcTo(s, "close_reply")
    /\ UNCHANGED <<alive, channelCounter, pendingOpen, answer, chanVars, scur,
                   readerVars, netVars, endVars, opVars, viewVars, lossVars>>

CloseReply(s) ==
    /\ spc[s] = "close_reply"
    /\ Reply(s, "close", "loop")
    /\ UNCHANGED <<clientVars, chanVars, scur, readerVars, netVars, endVars,
                   opVars, lossVars>>

\* the operator disconnects, and its thread reads the end of the stream
OperatorLeaves(s) ==
    /\ here[s] /\ s \in Leavers
    /\ here' = [here EXCEPT ![s] = FALSE]
    /\ UNCHANGED <<clientVars, chanVars, sshVars, readerVars, netVars, endVars,
                   opClosed, opSent, grants, viewVars, lossVars>>

LoopEnds(s) ==
    /\ spc[s] = "loop" /\ ~here[s]
    /\ SpcTo(s, "ended")
    /\ UNCHANGED <<clientVars, chanVars, scur, readerVars, netVars, endVars,
                   opVars, viewVars, lossVars>>

SshGoesOn(s) ==
    \/ OpenSend(s) \/ OpenAnswered(s) \/ OpenExpires(s) \/ OpenForget(s)
    \/ OpenRefuse(s) \/ OpenBind(s) \/ OpenInsert(s) \/ OpenConfirm(s)
    \/ SendReply(s) \/ SendFailure(s)
    \/ CloseSend(s) \/ CloseForget(s) \/ CloseReply(s) \/ LoopEnds(s)

-----------------------------------------------------------------------------
(* The client's reader.  After a frame it is back in its loop; when the     *)
(* client is no longer alive it is in close() and goes on to the next of    *)
(* the channels there.                                                      *)

Back == IF alive THEN "reading" ELSE "telling"

\* an exception leaves the loop for close(); in close() it ends the thread
Raise == IF alive THEN "failing" ELSE "dead"

ReaderTo(place) == rpc' = place /\ UNCHANGED <<rch, todo>>

NextFrame == Head(toRelay)

Reads(type) ==
    /\ rpc = "reading"
    /\ toRelay # <<>>
    /\ NextFrame[1] = type
    /\ toRelay' = Tail(toRelay)

\* OPEN_CONFIRM: only an open that is still pending hears of it
ReadConfirm ==
    /\ Reads("confirm") \/ Reads("fail")
    /\ LET ch == NextFrame[2] IN
         /\ pendingOpen' = pendingOpen \ {ch}
         /\ answer' = IF ch \in pendingOpen
                      THEN [answer EXCEPT ![ch] = IF NextFrame[1] = "confirm"
                                                  THEN "ok" ELSE "failed"]
                      ELSE answer
    /\ UNCHANGED <<alive, channelCounter, channels, chanVars, sshVars,
                   readerVars, link, toClient, endVars, opVars, viewVars,
                   lossVars>>

\* a frame for a channel without an entry, or without a recipient, is dropped
Drops(ch) ==
    /\ missed' = IF ch \in channels THEN missed ELSE missed \cup {ch}
    /\ early' = IF ch \in channels /\ ~bound[ch] THEN early \cup {ch} ELSE early

\* CHANNEL_DATA, CHANNEL_EOF (and the frames like it that need no window)
ReadForChannel(type, place) ==
    /\ Reads(type)
    /\ LET ch == NextFrame[2] IN
         /\ Drops(ch)
         /\ IF ch \in channels /\ bound[ch]
            THEN rpc' = place /\ rch' = ch /\ UNCHANGED todo
            ELSE UNCHANGED readerVars
    /\ UNCHANGED <<clientVars, chanVars, sshVars, link, toClient, endVars,
                   opVars, viewVars>>

ReadData == ReadForChannel("data", "reserving")
ReadEof == ReadForChannel("eof", "writing_eof")

\* reserve_window
Reserve ==
    /\ rpc = "reserving"
    /\ window[rch] > 0 /\ ~closed[rch]
    /\ window' = [window EXCEPT ![rch] = @ - 1]
    /\ ReaderTo("writing")
    /\ UNCHANGED <<clientVars, owner, kind, bound, closed, sshChannels, sshVars,
                   netVars, endVars, opVars, viewVars, lossVars>>

\* ... raises EOFError, or TimeoutError after 60 seconds without a window
ReserveFails ==
    /\ rpc = "reserving"
    /\ closed[rch] \/ window[rch] = 0
    /\ ReaderTo(Raise)
    /\ UNCHANGED <<clientVars, chanVars, sshVars, netVars, endVars, opVars,
                   viewVars, lossVars>>

\* a write to the operator of the channel, from the place it stands at
ReaderWrites(msg, from, next) ==
    /\ rpc = from
    /\ \/ Written(owner[rch], rch, msg) /\ ReaderTo(next)
       \/ WriteFails(owner[rch]) /\ ReaderTo(Raise) /\ UNCHANGED viewVars
    /\ UNCHANGED <<clientVars, chanVars, sshVars, netVars, endVars, opVars,
                   lossVars>>

WriteData == ReaderWrites("data", "writing", "reading")
WriteEof == ReaderWrites("eof", "writing_eof", "reading")

\* remote_close, from a CHANNEL_CLOSE frame or from close(): the channel is
\* marked closed; one without a recipient is only forgotten
RemoteClose(ch) ==
    /\ closed' = [closed EXCEPT ![ch] = TRUE]
    /\ rch' = ch
    /\ rpc' = IF bound[ch] THEN "unrouting" ELSE "forgetting"
    /\ UNCHANGED <<owner, kind, bound, window, sshChannels>>

ReadClose ==
    /\ Reads("close")
    /\ LET ch == NextFrame[2] IN
         /\ Drops(ch)
         /\ IF ch \in channels THEN RemoteClose(ch) /\ UNCHANGED todo
            ELSE UNCHANGED <<chanVars, readerVars>>
    /\ UNCHANGED <<clientVars, sshVars, link, toClient, endVars, opVars,
                   viewVars>>

Unroute ==
    /\ rpc = "unrouting"
    /\ sshChannels' = sshChannels \ {rch}
    /\ ReaderTo("closing")
    /\ UNCHANGED <<clientVars, owner, kind, bound, window, closed, sshVars,
                   netVars, endVars, opVars, viewVars, lossVars>>

WriteClose == ReaderWrites("close", "closing", "forgetting")

Forget ==
    /\ rpc = "forgetting"
    /\ channels' = channels \ {rch}
    /\ ReaderTo(Back)
    /\ UNCHANGED <<alive, channelCounter, pendingOpen, answer, chanVars,
                   sshVars, netVars, endVars, opVars, viewVars, lossVars>>

\* read_frame raises: the stream has ended
ReadEnd ==
    /\ rpc = "reading"
    /\ toRelay = <<>> /\ ~link
    /\ ReaderTo("failing")
    /\ UNCHANGED <<clientVars, chanVars, sshVars, netVars, endVars, opVars,
                   viewVars, lossVars>>

\* close(): not alive, removed from the registry, the socket closed ...
CloseClient ==
    /\ rpc = "failing"
    /\ alive' = FALSE
    /\ link' = FALSE
    /\ ReaderTo("listing")
    /\ UNCHANGED <<channelCounter, channels, pendingOpen, answer, chanVars,
                   sshVars, toClient, toRelay, endVars, opVars, viewVars,
                   lossVars>>

\* ... list(self.channels.values()) ...
ListChannels ==
    /\ rpc = "listing"
    /\ rpc' = "telling" /\ todo' = channels /\ UNCHANGED rch
    /\ UNCHANGED <<clientVars, chanVars, sshVars, netVars, endVars, opVars,
                   viewVars, lossVars>>

\* ... and client_closed of each, in the order in which they were inserted
TellChannel ==
    /\ rpc = "telling"
    /\ \E ch \in todo :
         /\ \A other \in todo : ch <= other
         /\ RemoteClose(ch)
         /\ todo' = todo \ {ch}
    /\ UNCHANGED <<clientVars, sshVars, netVars, endVars, opVars, viewVars,
                   lossVars>>

AllTold ==
    /\ rpc = "telling" /\ todo = {}
    /\ ReaderTo("dead")
    /\ UNCHANGED <<clientVars, chanVars, sshVars, netVars, endVars, opVars,
                   viewVars, lossVars>>

ReaderGoesOn ==
    \/ ReadConfirm \/ ReadData \/ ReadEof \/ ReadClose \/ ReadEnd
    \/ Reserve \/ ReserveFails \/ WriteData \/ WriteEof
    \/ Unroute \/ WriteClose \/ Forget
    \/ CloseClient \/ ListChannels \/ TellChannel \/ AllTold

-----------------------------------------------------------------------------
(* The client.  Its reader handles one frame at a time.                     *)

ClientReads(type) ==
    /\ link
    /\ toClient # <<>>
    /\ Head(toClient)[1] = type
    /\ toClient' = Tail(toClient)

ClientFrame == Head(toClient)[2]

\* OPEN_CHANNEL: a session is always opened, a TCP connection may be refused
ClientOpens ==
    /\ ClientReads("open")
    /\ \/ /\ end' = [end EXCEPT ![ClientFrame] = "open"]
          /\ toRelay' = Append(toRelay, <<"confirm", ClientFrame>>)
       \/ /\ kind[ClientFrame] = "direct-tcpip"
          /\ end' = [end EXCEPT ![ClientFrame] = "refused"]
          /\ toRelay' = Append(toRelay, <<"fail", ClientFrame>>)
    /\ UNCHANGED <<clientVars, chanVars, sshVars, readerVars, link, started,
                   emitted, opVars, viewVars, lossVars>>

\* a frame for an open channel; a session's first one gives it work
ClientTakes ==
    /\ ClientReads("data")
    /\ started' = IF end[ClientFrame] = "open"
                  THEN [started EXCEPT ![ClientFrame] = TRUE] ELSE started
    /\ UNCHANGED <<clientVars, chanVars, sshVars, readerVars, link, toRelay,
                   end, emitted, opVars, viewVars, lossVars>>

\* CHANNEL_CLOSE: the channel is taken out and closed without an answer
ClientCloses ==
    /\ ClientReads("close")
    /\ end' = IF end[ClientFrame] = "open"
              THEN [end EXCEPT ![ClientFrame] = "closed"] ELSE end
    /\ UNCHANGED <<clientVars, chanVars, sshVars, readerVars, link, toRelay,
                   started, emitted, opVars, viewVars, lossVars>>

ClientGoesOn == ClientOpens \/ ClientTakes \/ ClientCloses

\* the threads of a session have output once it runs; those of a TCP connection
\* from the start
MayEmit(ch) ==
    /\ end[ch] \in {"open", "closed", "finished"}
    /\ started[ch] \/ kind[ch] = "direct-tcpip"
    /\ kind[ch] = "direct-tcpip" => end[ch] # "finished"

\* output, also from a thread that has not noticed that its channel closed
EndEmits(ch) ==
    /\ link
    /\ MayEmit(ch)
    /\ emitted[ch] < MaxData
    /\ emitted' = [emitted EXCEPT ![ch] = @ + 1]
    /\ toRelay' = Append(toRelay, <<"data", ch>>)
    /\ UNCHANGED <<clientVars, chanVars, sshVars, readerVars, link, toClient,
                   end, started, opVars, viewVars, lossVars>>

\* what a channel's thread sends when it ends: EOF and CLOSE once the process
\* exits or the TCP peer closes; CLOSE alone when a write to the process fails;
\* EOF alone when a TCP channel was closed by the operator
Farewells(ch) ==
    CASE end[ch] = "open" /\ kind[ch] = "session" ->
           {<<<<"eof", ch>>, <<"close", ch>>>>, <<<<"close", ch>>>>}
      [] end[ch] = "open" /\ kind[ch] = "direct-tcpip" ->
           {<<<<"eof", ch>>, <<"close", ch>>>>}
      [] end[ch] = "closed" /\ kind[ch] = "direct-tcpip" -> {<<<<"eof", ch>>>>}
      [] OTHER -> {}

EndFinishes(ch) ==
    /\ link
    /\ MayEmit(ch)
    /\ end' = [end EXCEPT ![ch] = "finished"]
    /\ \E frames \in Farewells(ch) : toRelay' = toRelay \o frames
    /\ UNCHANGED <<clientVars, chanVars, sshVars, readerVars, link, toClient,
                   started, emitted, opVars, viewVars, lossVars>>

\* the network between fails, or the client: an exception of a channel's on_data
\* ends its reader too
LinkFails ==
    /\ link /\ LinkMayFail
    /\ link' = FALSE
    /\ UNCHANGED <<clientVars, chanVars, sshVars, readerVars, toClient, toRelay,
                   endVars, opVars, viewVars, lossVars>>

-----------------------------------------------------------------------------
Next ==
    \/ \E s \in Conns :
         \/ \E k \in Kinds : OpenRegister(s, k)
         \/ \E ch \in Chans :
              OperatorSends(s, ch) \/ OperatorGrants(s, ch) \/ OperatorCloses(s, ch)
         \/ OperatorLeaves(s)
         \/ SshGoesOn(s)
    \/ ReaderGoesOn
    \/ ClientGoesOn
    \/ \E ch \in Chans : EndEmits(ch) \/ EndFinishes(ch)
    \/ LinkFails

Spec == Init /\ [][Next]_vars

\* The relay's threads run: their waits end by the clock if by nothing else.  Of the
\* client's reader nothing is assumed: a process that does not read what it is
\* sent (client.py:296-302) or a human who does not answer (132) stops it.
FairSpec ==
    /\ Spec
    /\ \A s \in Conns : WF_vars(SshGoesOn(s))
    /\ WF_vars(ReaderGoesOn)

\* the client's reader is not stopped for ever
ClientReadsOn == WF_vars(ClientGoesOn)

-----------------------------------------------------------------------------
(* Properties *)

\* A CHANNEL_OPEN is answered once, and of a channel that was refused nothing is
\* heard, before or after: neither an answer of the client that comes after the
\* timeout nor the end of the client brings a message about it (relay.py:165-184,
\* 215-220, 345-352, 826-838).  Only a CHANNEL_FAILURE that is meant for another
\* channel (849) may carry its number.
AnsweredOnce ==
    \A stray \in strays :
        stray[1] # "failure" =>
            /\ stray[1] # "refused" /\ stray[2] # "refused"
            /\ stray # <<"opened", "open">>

\* Nothing at all is heard of a channel that was refused.  The code does not have
\* this property: the number in that CHANNEL_FAILURE is the relay's, not the
\* operator's (relay.py:846-849).
RefusedIsNeverHeardOf == \A stray \in strays : stray[2] # "refused"

\* the operator's own thread has the channel in hand
InHand(ch) ==
    /\ scur[owner[ch]] = ch
    /\ spc[owner[ch]] \notin {"loop", "send_reply", "send_failure"}

\* The client's table and the operator's agree: while the client is alive and
\* the operator's connection runs, a channel the client's reader would pass
\* frames on for is one the operator's messages reach, except while it is being
\* opened or closed (relay.py:165-184, 327-331, 345-349, 827-831, 924-928).
OpenChannelIsRouted ==
    rpc \notin {"failing", "listing", "telling", "dead"} /\ alive =>
        \A ch \in channels :
            \/ ch \in sshChannels /\ bound[ch]
            \/ InHand(ch) \/ spc[owner[ch]] = "ended"
            \/ rch = ch /\ rpc \in {"unrouting", "closing", "forgetting"}

\* A frame is dropped for want of an entry only when the channel was closed or
\* refused: while a channel is open, whatever other channels do, its frames
\* find it (relay.py:182-184, 201-203, 222-244).
OnlyFinishedChannelsMiss ==
    \A ch \in missed :
        \/ closed[ch]
        \/ opView[ch] = "refused"
        \/ InHand(ch) /\ spc[owner[ch]] = "open_refuse"
        \/ ~here[owner[ch]] \/ spc[owner[ch]] = "ended"

\* Neither a thread that opens a channel nor the reader waits for ever, though
\* each may be what the other waits for: the reader for a window that the
\* operator's thread, which waits for the reader to bring the client's answer,
\* would have to read (relay.py:174, 280-284).  A client that reads no more does
\* not change that.
NobodyWaitsForever ==
    /\ \A s \in Conns : (spc[s] = "open_wait") ~> (spc[s] # "open_wait")
    /\ (rpc = "reserving") ~> (rpc # "reserving")

\* When the operator closes a channel its end at the client closes, unless the
\* client is gone, or its reader is stopped for ever by a process that does not read
\* its input or by a prompt (relay.py:327-331, 746-752; client.py:132, 200-204,
\* 296-302).
CloseReachesClient ==
    ClientReadsOn => \A ch \in Chans : opClosed[ch] ~> (end[ch] # "open" \/ ~link)

OnWire(wire, type, ch) == \E i \in 1..Len(wire) : wire[i] = <<type, ch>>
AnswerOnWire(ch) == OnWire(toRelay, "confirm", ch) \/ OnWire(toRelay, "fail", ch)

\* An open that waits is not lost: while the link is up, the request or its answer
\* is on the way, and the answer will find the open pending.  So the 30 seconds can
\* only run out on a slow client or reader (relay.py:165-184, 215-220;
\* client.py:222-248).
OpenIsNeverLost ==
    \A s \in Conns : spc[s] = "open_wait" =>
        LET ch == scur[s] IN
        \/ answer[ch] # "unset"
        \/ ch \in pendingOpen /\ (OnWire(toClient, "open", ch) \/ AnswerOnWire(ch))
        \/ ~link

\* What CloseReachesClient needs in every state: a CLOSE of the operator is with
\* its thread or on the way until the client's end has closed, also when the
\* reader has taken the channel off the table first (relay.py:327-331, 345-349,
\* 746-752).
CloseIsNeverLost ==
    \A ch \in Chans : opClosed[ch] =>
        \/ end[ch] \notin {"none", "open"}
        \/ spc[owner[ch]] = "close_send" /\ scur[owner[ch]] = ch
        \/ OnWire(toClient, "close", ch)
        \/ ~link

\* The reader leaves its loop only because its client is gone: what it logs is
\* "client %s disconnected" (relay.py:250).  The code does not have this
\* property.
ReaderFailsWithItsClient == rpc = "failing" => ~link

\* A channel the operator was told is open has lost nothing its end at the
\* client sent: the relay "routes approved session, SFTP, and forwarding
\* channels to the registered reverse client" (README.md:17-19).  The code does
\* not have this property.
OpenChannelLostNothing ==
    \A ch \in early : opView[ch] # "open"

\* Messages about a channel keep to the order of the SSH connection protocol:
\* none before its confirmation, none after its CLOSE.  "The relay terminates
\* SSHv2 for OpenSSH clients" (README.md:17).  The code does not have this
\* property.
ChannelMessagesInPlace == strays = {}
=============================================================================
