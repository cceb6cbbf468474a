# reverSSH: specifications, model checking and proofs

reverSSH lets operators reach machines that cannot be reached: a machine runs
the *reverse client*, which keeps one TCP or WebSocket connection to a public
*relay*; an operator runs `ssh identifier@relay`, and the relay carries the
operator's channels to the machine registered under that identifier. The
machine, not the relay, decides who is let in.

This directory holds TLA+ modules of that system, configurations for TLC, and
proofs for TLAPS. Paths and line numbers are those of `src/` (`relay.py` and
`client.py` are in `src/reverssh/`).

## 1. Inventory

| Component | State | Operations | Hard behaviour | Correct when |
|---|---|---|---|---|
| Client registry and connection handler (`relay.py` 88-149, 997-1024) | identifier -> client, `alive`, one thread per connection | add, remove, get; register, reject, serve, close | a dying client's clean-up races with a new registration; the entry is visible before the result is sent; the client's reader also writes to operators, who may hold it up | an identifier leads to at most one live client, and to that one until it dies |
| `run_forever` (`client.py` 555-585, 156-166) | connection, back-off | connect, register, run, retry | the relay learns late, or never, of a lost connection | who is told "registered" is registered |
| Operator approval (`relay.py` 151-163, 205-214, 637-677; `client.py` 67-143, 168-177) | pending requests and their events; trust file; allowlist | ask, wait 300 s, answer, prompt, persist | a timeout races with a late answer; a crash between prompt, file and answer | nobody enters whom the human, the trust file or the allowlist did not approve |
| Channel relaying (`relay.py` 165-252, 303-352, 707-931; `client.py` 178-248) | three tables of channels, windows, the threads of operators, one reader per client | open, data, EOF, request, adjust, close, disconnect | every table is touched by two threads without a common lock | an open channel is routed, an open is answered once, a CLOSE arrives |
| Channel flow control (`relay.py` 255-300, 888-912) | remote window, packet limit, closed | set, add, reserve, write, hand back | chunks are reserved under a lock and written outside it | credit is neither lost nor made up |
| TCP forwarding, `-R` (`relay.py` 355-467, 760-796, 868-886, 930-944) | listeners, their table, forwarded channels | listen, cancel, accept, open, confirm, refuse, relay, close | a listener closes while its thread accepts; opens time out; two threads end a channel | late connections stay out, a connection is relayed or closed, its end is told, listeners end with the SSH connection |
| Client-side sessions (`client.py` 250-496) | process, pty or pipes, SFTP, `closed` | start, read, send, wait, finish, close | up to four threads end one channel without a lock | one CLOSE, output before EOF, an exit ends the channel |
| Client-side TCP channels, `-L` (`client.py` 499-552) | socket, `closed` | connect, write, read, half-close, close | socket timeout of 30 s kept after connect | frames in order, and a thread that ends |
| SFTP server (`sftp.py`) | input buffer, handles | feed, request, answer, close | packets split over frames; entries that vanish; files that cannot be flushed | one answer for each request, in order; reads are current; an answer tells what it announces; files are closed with the channel |
| Private protocol (`private_protocol.py`) | send lock | pack, send, read | frames of many threads on one socket, for which the relay has two locks while it registers a client | frames are whole and in order |
| WebSocket transport (`websocket.py`) | read buffer | fragment, ping, pong, close | a pong is written without the frame lock | the byte stream is that of TCP |
| SSH handshake and packets (`relay.py` 516-703, `ssh_packet.py`) | versions, keys, sequence numbers | exchange, switch keys, send, read | a send while keys change | both ends agree on the sequence |
| Host key file (`keys.py`) | one file | load or create | a crash between create and write | one key is shown, before and after a restart |
| Cryptography, encodings, address parsing, command lines | none | pure functions, set-up | none for a model checker | covered by the repository's tests |

The components meet in three places. The registry gives operator threads a
`RegisteredClient`, which they use after the registry's lock is released.
`RegisteredClient` is shared by all its operators' threads, which write to the
client, and its reader, which writes to all its operators. At the client one
reader serves everything: approvals (a prompt holds it up), opens, and data for
every channel; the channels' own threads send.

## 2. What is modelled

### A rule for atomicity

A step of a model is what a thread does between two points at which others can
see or change what it shares: a lock taken or released, a call that can block
or switch threads (a socket, an event, a process), the start of a thread.
Statements between two such points, for instance `if self.closed: return;
self.closed = True` (`client.py` 349-351), are one step: the interpreter the
project requires (CPython from 3.11 on) switches threads at calls and at
backward jumps, and there is none in between. A write to a socket is one step
that works or raises; whether the peer then reads it is another.

### Modules

| Module | Models | State and actions |
|---|---|---|
| `IdentifierLease` | abstract: what the relay promises about identifiers | `Acquire`, `Release` |
| `ClientRegistry` | `ClientRegistry`, `_handle_reverse_client`, life of `RegisteredClient` | `pc[c]` is where the thread of connection `c` stands, `"handling"` while it passes a frame on to an operator; one action per critical section or socket operation |
| `Registration` | `run_forever` and `register` with `ClientRegistry` | machines that connect, read the result, run, sleep, give up |
| `OperatorAuth` | `_authenticate`, `request_auth`, AUTH_RESPONSE, `OperatorApproval`, `KnownOperators` | operator threads, the reader, the machine's reader with its human, crashes |
| `ChannelRelay` | channels of several operators over one client | `spc[s]`: thread of SSH connection `s`; `rpc`: the client's reader; the client's end of each channel; `strays`: what an operator was sent about a channel that did not wait for it, the CHANNEL_FAILURE with another numbering's id (`SendFailure`) included |
| `CreditFlow` | abstract: spend only what was granted | `Grant`, `Spend` |
| `ChannelWindow` | `SSHChannelBase`'s window, `send_channel_data`, `_adjust_local_window` | bytes, in both directions |
| `Backpressure` | one session from the operator to the process and back | full and empty buffers; a thread that writes to a full one waits |
| `TcpForward` | `ForwardListener`, `TCPForwardedChannel`, `tcpip-forward` | SSH thread, accept threads, one handler per connection; a thread reserves its window in one step and writes in another; a request may end `run()` (`EnableRaises`) |
| `ClientSession` | `SessionChannel` | the client's reader, output threads, waiter, process; `alive`: `run()` goes on |
| `ClientTcpChannel` | `DirectTCPChannel` | the client's reader, the thread of the socket, the TCP peer |
| `ClientChannels` | `_handle_open_channel`: a channel of either type | the two modules above over one table, one closed flag, one link and one `run()` |
| `FrameStream` | abstract: frames arrive whole and in order until something else was written among them; an unbroken stream ends only after its sender, with the notice read if it was given, and short of at most one frame | `Accept`, `Deliver`, `Notify`, `Notice`, `WriteOther`, `Break`, `Garbage`, `Stop`, `End` |
| `FrameLink` | `FrameSocket` over `WebSocketStream`, and the HTTP upgrade | writers under the frame lock of the `RegisteredClient`, `WriteResult` under that of the connection handler, the reader's pongs and CLOSE without one, the receiving end piece by piece |
| `ReplyQueue` | abstract: requests answered once each, in order | `Ask`, `Reply` |
| `SftpServer` | `SFTPServer` and how `SessionChannel` feeds and closes it | the buffer, the request being handled (with the number of entries it announces), handles, files, `stuck` ones among them; other processes |
| `HostKey` | `load_or_create_host_seed` | relay processes that start, look, read, create, write, crash |
| `SshTransport` | `SSHConnection.run` up to the connection loop, `send_payload`, `PacketStream` | the connection's thread, the readers that send to it, the operator's client |
| `MC*` | instances for TLC | constants, symmetry, and state constraints where they are needed |
| `*Proofs` | theorems | see section 5 |

How they are put together:

* `Registration` extends `ClientRegistry` and joins its steps with the machines'.
* `ClientChannels` extends `ClientSession` and instantiates `ClientTcpChannel`:
  the two share `inTable`, `closed`, `link` and `alive`, and a channel is of one kind for
  its whole life.
* `SshTransport` extends `HostKey`: the handshake shows the key that the process
  at the other end has loaded, and a crash of that process ends the connection.
* `Backpressure` is the one module that goes end to end: the window of
  `ChannelWindow` with every blocking write between the operator and a process.
  It leaves out what the others look at (opens, closes, failures).
* Four modules implement an abstract one: `ClientRegistry` (and `Registration`)
  implements `IdentifierLease`, `ChannelWindow` implements `CreditFlow`,
  `SftpServer` implements `ReplyQueue`, `FrameLink` implements `FrameStream`.
* The rest stand side by side. `OperatorAuth` and `ChannelRelay` begin with a
  registered client; `ChannelRelay` counts its window in packets where
  `ChannelWindow` counts bytes, and what a client's end may send in
  `ChannelRelay` (`EndEmits`, `EndFinishes`) is what `ClientChannels` says it
  sends. Every module takes the connection below it as `FrameLink` or
  `SshTransport` shows it to be: lossless and in order until it ends.

Where a definition is followed by another with a similar name and the comment
"mutant", the second is what the code says; the first is the change a plausible
mistake would make, and `PROJECT.json` names the property that would notice it.

### What the models leave out

Names, payloads, key exchange and signatures are values; a signed request has
been verified when `OperatorAuth` begins. Each module's header names what else it
abstracts. Bounds are CONSTANTS marked "bound" and stand in guards of the
environment's actions (how often an operator asks, sends or grants), never in
the code's own steps, with one exception: the relay's frames to one connection
(`MaxFrames` of `ClientRegistry`).

## 3. Runs

All runs finish in less than five minutes with two workers. Deadlock is not
checked: every environment is bounded, and a system whose peers have all left
stops.

| Run | Question | Bounds, and why they are enough |
|---|---|---|
| `registration` | Is who is told so registered, never two at once? Does the registry implement `IdentifierLease`? Does a machine learn its result, and a dead client leave unless an operator holds its reader? | 2 machines with one identifier (others do not meet), 2 connections, an operator that writes in between and whose frames the reader handles. The constraint `InOrder` explores names only in the order of their use |
| `approval` | Does every admission trace to an approval, and does nothing lose a waiting operator? | 2 operators, 3 requests: one asks again after a timeout while the other asks; 2 connections: the machine reconnects; with and without allowlist, which differs from the trust file; crashes anywhere. Operators are symmetric |
| `channels` | Do the tables agree, is an open answered once, does a CLOSE arrive while the client's reader goes on, does anybody wait for ever even if it does not? | 2 operators, 2 channels. `TwoAreSimple` explores one channel with everything that can happen to it (data, adjustments, disconnection, a failing link), and two channels with all interleavings of the threads that open, answer and close them, where nobody leaves or grants and the link stays; if both are of one operator, one frame of data is under way as well, or one request about the first channel that finds it gone, which is the case in which its failure may name the second. The window starts at 0, so the reader has to wait |
| `window` | Is credit kept, and does sending end? | packets of 1 to 2 bytes, a cap of 4 and up to 5 bytes: below and above the cap, several chunks; amounts 0, 1, 3 |
| `forward` | Are late connections kept out, is every connection relayed or closed, is its end told, do listeners end? | 2 listeners on the same or different keys (one of them port 0), a connection to either, one read of its data |
| `session` | One CLOSE, output before EOF, an exit that ends the channel, TCP frames in order, a thread that ends? | a session with pty or pipes, two units of output with portions of two, a descendant that keeps the output open or not; or a TCP channel with two frames, a peer that ends or resets; `run()` ends at any time because of another channel |
| `sftp` | Is every request answered once and in order, is what was read current, are answers of a listing told whole or not at all, does one stuck file leave the others closed? | 5 requests, 2 of them ahead, cut anywhere; 2 handles; a directory of 2 entries, one that cannot be described, listed in answers of 2; 2 steps of other processes; files that cannot be flushed when they are closed |
| `frames` | Do frames arrive whole and in order, does the receiver see the end, is the upgrade decided? | 2 writers, 2 frames in two pieces each, REGISTER_RESULT beside them, one ping to each end, either end sending |
| `transport` | Is every packet read with its key and number, is there one host key, does a handshake end? | 2 relay processes and 3 starts on one state directory, crashes anywhere, a reader that sends; 2 connections of one operator; sequence numbers modulo 6, so that they wrap |
| `registry_first_frame`, `echo`, `session_pipe` | Three things the code or its documents say that the code does not do (section 4) | the smallest instances that show them; for `echo`, a window of 2, buffers of 1, 12 units |

### Fairness

* `registration`: each connection's own thread runs, but for the time in which it
  handles a frame: it may be in `sendall` to an operator who has stopped reading,
  which has no timeout (`relay.py` 512-514). A read ends once the peer is gone and
  what it had sent is read: that is finite, so a reader that comes back to its
  read again and again gets to the end, which is strong fairness of `MeetsEnd`.
  `DeadClientLeavesRegistry` has the premise that the reader does come back. A
  machine reads what was written to it and learns of a connection that either end
  has closed (a read that TCP has given up raises).
* `channels`: each SSH thread and the relay's reader run. The relay's waits have
  timeouts (30 s for an open, `relay.py` 174; 60 s for a window, 284), and their
  expiry is an action of the thread. A write to an operator or to the client
  returns or raises. Nothing is assumed of the client's reader, which a process
  that does not read (`client.py` 296-302) or a prompt (132) may stop for ever.
  `CloseReachesClient` is about a client whose reader goes on (`ClientReadsOn` is
  its premise); `NobodyWaitsForever` holds without.
* `window`: the sending thread runs; without a window it raises after 60 s.
* `forward`: the handlers and the SSH thread run; the wait for a confirmation ends
  after 30 s.
* `session`: the waiter, the output threads and the thread of a socket run, and so
  does the reader of a TCP channel; the reader of a session finishes a close that it has
  begun, and unwinds once the connection has failed; that it reads on is not assumed. Nothing is
  assumed of processes and TCP peers.
* `frames`: the client's upgrade ends, one way or the other (its socket has a
  timeout); a writer that has begun a frame finishes it; a close that has begun is
  finished; what was written arrives and is read. That the relay answers the
  upgrade is not assumed.
* `transport`: the connection's thread runs, a thread that has taken `send_lock`
  finishes; the operator's client reads and sees the end of the stream. That it
  says anything is not assumed: `HandshakeDecided` holds because it may also leave,
  which the relay sees.
* `approval` and `sftp` check no liveness: whether a human answers, and whether an
  operator asks, is up to them.

One thing is assumed throughout and shown nowhere: a write to a connection that
works returns, that is, somebody at its other end reads in the end. `SendingEnds`,
`ExitEndsChannel`, `PtyOutputArrives`, `TcpThreadEnds`, `CloseIsSeen` and
`HandshakeDecided` rest on it (the last one also for `request_auth`'s send to the
client, `relay.py` 157, which has no timeout), and what they say fails where the
code leaves a peer unread: `ClientOutlastsFullPipes` and `DeadClientAlwaysLeaves`
(section 4) are about that. Fairness is weak but for `MeetsEnd`, and always of a
whole thread, never of a single branch.

## 4. Where the code does not do what it says

Three runs show a divergence:

* `FirstFrameIsResult`: the client is in the registry (`relay.py` 1011) before
  its REGISTER_RESULT is written (1016). An operator's AUTH_REQUEST can overtake
  it, and the client raises "relay did not send registration result"
  (`client.py` 160).
* `ClientOutlastsFullPipes`: a process that answers what it is sent, with an
  operator that sends on. The client's reader waits in `stdin.write`
  (`client.py` 301), the process for its output to be taken, the output thread for
  the relay's reader, that one for a window (`relay.py` 284), and the adjustment
  that would open the window lies behind data that the operator's thread cannot
  write to the client. After 60 seconds the relay takes the client for gone and
  closes the channels of all its operators, though everybody is there and reads.
* `OutputArrives`: without a pty, `pipe.read(32768)` (`client.py` 474) holds back
  what a running command writes.

More were met while modelling. The modules state the property one would expect,
with the comment that the code does not have it; naming it as an INVARIANT or
PROPERTY in the module's configuration makes TLC print the steps:

| Property | Module | What happens instead |
|---|---|---|
| `FailedHandshakeLeavesRegistry` | `ClientRegistry` | when REGISTER_RESULT cannot be sent, the entry stays, alive, and its identifier is refused from then on |
| `DeadClientAlwaysLeaves` | `ClientRegistry` | an operator who stops reading holds the reader of a client in a write for ever, which never learns that its client is gone |
| `GivesUpOnlyToAnother` | `Registration` | a machine that reconnects before the relay has noticed is rejected by its own old registration, and exits |
| `ReaderFailsWithItsClient` | `ChannelRelay` | any exception of a write to one operator, or 60 seconds without its window, ends the reader of the client, and with it the channels of all operators |
| `RefusedIsNeverHeardOf` | `ChannelRelay` | the CHANNEL_FAILURE for a request about a channel that is gone carries the relay's number (`relay.py` 846-849), which at the operator may be that of a refused one |
| `OpenChannelLostNothing` | `ChannelRelay` | what the client sends between its OPEN_CONFIRM and `set_recipient` is dropped |
| `ChannelMessagesInPlace` | `ChannelRelay` | DATA before the confirmation, two CLOSE messages |
| `ForwardMessagesInPlace` | `TcpForward` | EOF and CLOSE after the answer to the operator's CLOSE |
| `OnlyPeersEndIt` | `TcpForward` | the channel of a connection that was given up stays in the table; data after a late confirmation is written to its closed socket, which ends the operator's SSH connection, and so does a request for a port that is none |
| `PtyReaderHasMaster` | `ClientSession` | a channel closed before its output thread starts fails the assertion at `client.py` 462 |
| `HalfCloseKept` | `ClientTcpChannel` | the end of the peer's data closes the socket, though the operator may still send |
| `NothingTorn` | `FrameLink` | a pong or a CLOSE falls between the pieces of a frame that a thread is writing, or REGISTER_RESULT into an AUTH_REQUEST, for which the relay has another lock (`relay.py` 122, 998) |
| `StartedServes` | `HostKey` | a crash between creating and writing the seed file leaves an empty one, with which no later start serves |
| `RekeyCompletes` | `SshTransport` | a KEXINIT after the handshake is answered UNIMPLEMENTED, and both ends wait |
| `ReadsAreFresh` | `SftpServer` | what was read ahead through a handle stays there while others write |
| `PresentAreTold` | `SftpServer` | `READDIR` announces the number of entries it took from the list (`sftp.py` 233) and not of those it describes; one that has vanished spoils the answer for the others in it |
| `NothingLeftOpen` | `SftpServer` | a `close()` that raises for one handle keeps those behind it open (`sftp.py` 119-121), except behind an EOF, after which it is called again |

A smaller one has no property: `run_forever` leaves the socket of a connection
that failed open until the object is collected (`client.py` 576-579).

The passing properties say what holds all the same: `AnsweredOnce` that nothing
is heard of a refused channel but a CHANNEL_FAILURE meant for another,
`OnlyFinishedChannelsMiss` that the tables lose no frame of an open channel,
`DeadClientLeavesRegistry` that only a held-up reader keeps a dead client in the
registry, `ConnectionsAreDecided` that an accepted connection is relayed or closed,
unless its listener was closed or its operator left before, and `StreamEndsAreTold`
that the end of a relayed one is told, `FramesArriveInOrder` that only a control
frame or a REGISTER_RESULT can break a stream, and that closing one loses at most
the frame a thread was in, `OneHostKey` that a key once shown stays,
`ReadsAreCurrent` that a handle sees what it wrote, `EntriesAccountedFor` that the
answers of a listing in which nothing vanished are told whole and once,
`StuckFileIsPassed` that one file that cannot be flushed does not keep the others
open behind an EOF.

Some statements in the modules have no run of their own because they are proved
(section 5) or because another property implies them: the type invariants,
`LiveClientIsRegistered`, `EntriesAreAdded`, `StrictNeverPrompts`, `WithinCredit`,
`NothingSkipped`, `AckedIsWritten`, `HandlesNotReused`, `ServesTheFile`,
`RelayedIsConfirmed`, and those that say in every state what a liveness property
needs (`OpenIsNeverLost`, `CloseIsNeverLost`, `AnswerIsDue`, `AnswerIsHeard`,
`NeverBothWait`, `EndIsTold` with `SessionEndIsTold` and `TcpEndIsTold`, which speak of
the time in which `run()` goes on: its end empties no table and tells nothing,
`client.py` 207-210);
`UnimplementedNamesPacket` is proved only.

## 5. Proofs

TLAPS proves the following for every value of the constants that the named
assumptions allow (`NoConnAssumption` and the like, at the head of each module:
that a "none" value is not one of the others, that an amount fits the window, that
the packet limits are in order), without the bounds of the runs.

| Module | Theorems |
|---|---|
| `RegistrationProofs` | `TypeCorrect`, `LiveClientKeepsEntry`, `EntriesPointAtAdded`, `RegistryImplementsLease`; `RegistryGoesOnAsAlone`, `RegistrationImplementsLease`, `ToldIsRegistered`, `NeverTwoServed`, `AnswersAreDue` |
| `OperatorAuthProofs` | `TypeCorrect`, `AccessIsApproved`, `OneApprovalOneOperator`, `NoWaiterIsForgotten`, `TrustIsTheHumans`, `TrustIsOnFile` |
| `ChannelRelayProofs` | `TypeCorrect`, `OpensAreAnsweredOnce`, `ChannelsAreRouted`, `OnlyTheFinishedMiss`; `OpensAreNotLost`, `ClosesAreNotLost` |
| `ChannelWindowProofs` | `TypeCorrect`, `CreditIsKept`, `DataIsWhole`, `LocalWindowIsKept`, `ImplementsCreditFlow` |
| `TcpForwardProofs` | `TypeCorrect`, `LateStayOut`, `RelayedAreConfirmed`, `ListenersEnd`, `AnswersAreHeard` |
| `ClientChannelsProofs` | `TypeCorrect`, `CloseIsSentOnce`, `EofIsBehindOutput`, `SessionsAreKept`, `TcpTypeCorrect`, `TcpFramesAreOrdered`, `TcpEofIsBehindData`; `EndsAreTold` |
| `SftpServerProofs` | `ServerImplementsQueue`, `OpensOnlyWhatWasMissing`, `OneStuckFileIsPassed`, `ReadsStayCurrent`, `ClosedNamesStayUnknown`, `ListingsAreWhole` |
| `TransportProofs` | `PacketsReadWell`, `HostKeyIsKept`, `SeedIsKept`, `HandshakeNeverStuck`, `AnswersNameTheirPacket`; `LinkTypeCorrect`, `FramesKeepOrder` |

Each has the same shape: `Init => IInv`, `IInv /\ [Next]_vars => IInv'` with a
step for every action, and `IInv` implies the property. TLC agreed with each
`IInv` on a small instance before it was proved.

* **Registry.** That a live client that was added is the one its identifier leads
  to is not inductive alone: `add` may replace an entry only if that client is
  dead, so one has to know what identifier a thread past its first frame has
  (`IdentifierKnown`), that a client is alive between its creation and its `add`
  (`NewClientIsAlive`), and that whoever has left the table is dead
  (`RemovedIsDead`). The refinement maps a step of the registry to `Acquire` when
  `add` succeeds, to `Release` when a client that holds its identifier dies, and
  everything else, the removal of the dead entry included, to a stutter.
* **Registration.** Every step of the composition is a step of the registry alone
  or leaves its variables as they are (`StepsOfRegistry`), so the registry's
  invariant and its refinement carry over (`RegistryGoesOnAsAlone`). What is new,
  `RInv`, ties what a machine believes to the frames on its connection: a
  "registered" that is on the way means that the relay's thread of that connection
  has been past its `add` (`ApprovalsAreAnswers`), and so does a machine that runs
  (`RunningIsAdmitted`). That two of them share an identifier then contradicts
  what the registry's invariant says of two live clients. `AnswersAreDue` is the
  other direction, that nobody is left waiting: a machine without its answer has a
  frame to read, a thread of the relay that owes it one, or a closed socket, because
  no thread gets past its answer without having written it (`AdmittedAreAnswered`).
* **Approval.** That an operator was approved is the end of a chain over three
  actors and two queues. The invariant follows it backwards: an event that says
  yes belongs to an approved request (`OperatorsOK`), a yes on the way to the relay
  answers an approved request (`AnswersOK`), the machine says yes only to an
  approved one (`MachineOK`), and a request on the way carries the key of whoever
  has its id (`RequestsOK`). What makes the chain survive timeouts and late
  answers is that ids are never given out twice (`RequestOK`'s bound by
  `authCounter`, `DifferentRequests`) and that an entry of `pendingAuth` is that of
  a thread that still has this request and no answer (`PendingAreRequests`). Two
  lemmas, `RequestStays` and `ApprovedStays`, say that nothing on the way goes
  stale; each action then has to account only for what it adds. That a trust is in
  the file before its answer can be heard of (`TrustIsOnFile`) needs that a request
  is in one place at a time, on its way, with the machine, answered or heard
  (`PInv`): else an answer to it could be on the way while the human is asked.
* **Relaying.** The tables of the relay and of the client are changed by three
  threads without a common lock, so the invariant says what each of them still
  knows of a channel that others may have taken off a table: every frame on a
  wire is about a channel that was allocated (`WiresOK`), the client's view of a
  channel and its id agree (`ViewsOK`), a channel that an SSH thread has in hand is
  as far as the thread's place says (`HandsOK`), the reader's likewise (`ReaderOK`).
  The argument for steps of another thread is monotony: every step takes a
  channel forward (`Forward`: answered stays answered, closed stays closed, an id
  stays with its channel), except the opening thread's own, and what a thread
  knows is kept by whatever goes forward.
* **What is on its way.** `OpensAreNotLost` and `ClosesAreNotLost` are what the
  liveness properties of `channels` need in every state: an open that waits has its
  request or its answer on the way, and a CLOSE of an operator is with its thread
  or on the way, until the client's end has closed or the link is gone. For the
  first, `NetInv` says that the client is asked once, about a channel it knows
  nothing of (`AsksOK`, `AskedOnce`), so no answer can be taken for another. For the
  second, the relay may take the channel off the operator's table before the
  operator closes it, and then the CLOSE goes nowhere: `ToldIsReachable` says that
  this happens only to channels whose end has finished or whose link is gone
  (`Over`), which the reader knows by the frame it took off the wire or by its own
  `close` (`EndsKnown`).
* **Window.** Sent, reserved and remaining bytes add up to the credit granted, and
  to no more once the cap has cut the window. This becomes inductive with
  `SenderState`, which ties the reserved chunk to the place of the sending thread,
  and `Untouched`, that nothing moves before the channel has its recipient.
  `ImplementsCreditFlow` then maps `set_recipient` and an adjustment to `Grant`, the
  write of a chunk to `Spend`, and everything else to a stutter.
* **Forwarding.** A thread of a listener's connection that finds the SSH connection
  ended must not relay. `LateKnown` says how far such a thread can have come,
  which is at most to the naming of its port, because the listener is closed for
  good by then; `AnswersKnown` that an answer a thread finds is one the operator
  gave to this very channel. That the end of the connection closes every listener
  needs that a listening one is still in the table, or was displaced from it by
  another with the same key (`ListenersKnown`, `Displaced`), which happens only
  when the operator asks for port 0. `AnswersAreHeard`: once the operator has answered or closed a channel,
  the thread that waits for it has its result, because an opening without one is in
  the table, where the answer finds it (`OpeningsKnown`).
* **Sessions.** The reader and the waiter both run `on_close`. `OneCloser` says that
  at most one of them is past the test of `closed` and has its CLOSE before it.
  `OutputKept` says what each output thread has read and sent by where it stands,
  and `JoinedAreGone` that a waiter whose `join` did not time out has no output
  thread left; `MasterKept` that nobody but `on_close` takes a pty's master away.
* **TCP channels.** Once the reader has confirmed, only the thread of the socket
  sends, so `TcpShape` can say what has been sent from where the two stand, and one
  lemma (`TcpAppend`) what may be put behind it. `TcpData` counts: what has been
  sent and what is in hand is within what the peer sent, and a thread that is about
  to send EOF with the channel open has seen the end of it, because whoever closes
  the socket has raised the flag before. `CInv` joins the two types of channels: each keeps
  its own invariant and has begun nothing of the other. That the end of a channel is
  told (`EndsAreTold`) needs to know who tells it: of the two threads that may close
  the channel, one that will not send CLOSE has found that the other will, or did,
  has found the channel off the table, or is ending `run()`, with which the promise
  ends (`ClosersKnown`, `TcpCloser`).
* **SFTP.** `QInv` counts: the packets in the buffer are the last of those asked
  (`PacketsAreAsked`), those before them were answered in order (`AnsweredSoFar`),
  and the request under way stands between the two; the refinement of `ReplyQueue`
  follows. `FInv` has a part for the table of handles, one for the files and
  one for the request under way; it shows that what a handle has read ahead is
  what the file holds but for writers other than itself (`ReadsStayCurrent`),
  and that a name given out is not given out again (`ClosedNamesStayUnknown`).
  `OneStuckFileIsPassed` needs to know of which file each of the two calls of
  `close()` could not get past (`StuckInv`): the handle of the first is off the
  table when the second call begins, so only another file can stop that one.
  `ListInv` follows a listing. READDIR moves the offset by one answer and announces
  that many entries (`Partial`); of the entries answered those are told, once, whose
  answer lacked none (`Listed`), since one that announces more than it carries is of
  no use to its reader (`Spoiled`). Answers begin at multiples of their size
  (`Whole`), so two of them share no entry.
  That the directory is finite
  and has no entry named "." is assumed (`SftpAssumption`).
* **Transport.** `HostInv` says that of the processes that start at one time only
  the one that created the seed file writes it (`OneWriter`), and that whoever
  serves has read what it holds (`ServesTheFile`). `WireInv` says who may be
  sending (`OneSender`), and for each packet on the wire, that its number and key
  are those at which the reader will stand when it gets there (`ToOperatorInv`,
  `ToRelayInv`), also across the change of keys. `KeyShown` joins the two. `HandshakeNeverStuck` needs, for each
  place of the relay in the handshake, that what it waits for is coming or will be
  sent when the operator gets what is on its way (`SentIsComing`, `AskedIsComing`,
  which order the places by `Stage`). For `AnswersNameTheirPacket` the messages that
  the operator waits to be told of are, in order, those whose answer is on its way
  back, the one that is being answered, and those on their way to the relay, by the
  numbers they were sent with (`UnknownsInOrder`). It needs that nothing of the
  handshake is left when the loop begins, which would be answered too: every message
  of a handshake comes once and while the relay waits for it (`ComeOnce`), and an
  attempt to authenticate is in one place at a time (`OneAttempt`).
* **Frames.** Every piece of a frame has its place in the stream of pieces (piece
  `k` of frame `n` ends at `2n - 2 + k`), control frames have none. `Runs` says
  that the items of a queue take the stream from one place to another without a
  gap, by naming the place behind every item: no recursion is needed, and five
  lemmas say what appending, taking the head and inserting a ping do to a run.
  `ArrivesInOrder` puts the queues between the writers and `read_frame` end to end:
  the buffer begins where the reader stands (`ReadTo`), then come the fragments,
  the WebSocket frames, what has come of the next one, the wire, and there the
  sender stands (`Written`, or short of it once its socket is closed). Between two
  WebSocket frames the place is even, that is, behind a whole frame, so the head of
  the wire is torn only by a control frame or the result (`TornByOther`), and what `read_frame`
  takes next is the half it expects (`NextPiece`). From the moment the stream is out
  of step nothing is known of the wire, and `Stranded` takes over when what came in
  order has been read. `CloseInv` follows the relay's CLOSE: it is not yet said, on
  the wire, among what has arrived, or read, and behind it comes nothing but what a
  thread still wrote of the last frame (`CloseLies`). So when the reader meets the
  end, no item of what it has not read passes the place where the last frame begins,
  and neither does a run of them (`RunsBeyond`, which takes the least place that does):
  all frames but the last have been read (`EndsInTime`).
  REGISTER_RESULT has no place in the stream either; `ResultLies` says that it is on
  the wire, has arrived, or is nowhere, so that an end that is met in step is met
  after it. `FramesKeepOrder` maps the
  begin of a frame to `Accept`, the second half that is read to `Deliver`, the writing of the result to
  `Notify` and its reading to `Notice`, pongs and
  CLOSE to `WriteOther`, a torn frame to `Break`, the marking of the stream as closed
  to `Stop`, the end that the reader meets to `End`, and everything else to a stutter.

Only model-checked:

* every liveness property, the ones of `Backpressure` included, since fairness and
  ENABLED are out of the prover's reach.

No module uses a RECURSIVE operator. The one proof that goes along a queue item by
item (`RunsBeyond`) takes the least place from the library's theorem about the order
of the natural numbers (`LeastIs`).

## 6. What is not modelled, and why

* Cryptography (key agreement, AEAD, signatures; `crypto/`), the encodings of SSH
  types (`ssh_encoding.py`) and of frames (the `pack_` and `unpack_` functions of
  `private_protocol.py`), address parsing and sockets that listen (`netutil.py`),
  and the command lines and the bootstrap script are pure functions or set-up
  code: a model would restate them.
* Real time: a timeout is an action that may happen whenever what it waits for has
  not, so no property speaks of durations. `Backpressure` is the exception in the
  other direction: its 60 seconds are longer than anybody needs who can move on.
* The order of messages on a connection is TCP's; loss is modelled as the end of a
  connection, never as a gap.
* Terminal sizes, environment variables, signals and SFTP's attributes change
  nothing the properties speak of.

## 7. What is left

Every safety property of the passing runs is proved for all values of the
constants.  What stays with TLC is liveness (section 5).  A next step there would be
more of what liveness needs in every state, as for the statements listed at the end
of section 4.
