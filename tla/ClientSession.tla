----------------------------- MODULE ClientSession -----------------------------
(***************************************************************************)
(* One session channel at the client (client.py, SessionChannel).          *)
(*                                                                         *)
(* Up to four threads share it: the client's reader, which handles the     *)
(* frames for the channel; one thread per output stream of the process,    *)
(* which reads a pty or a pipe and sends what it read; and the waiter,     *)
(* which waits for the process and ends the channel.  Nothing is locked.   *)
(*                                                                         *)
(* Output is counted in units; Full of them are CHANNEL_MAX_PACKET.  What  *)
(* the operator types, the environment, window sizes and signals have no   *)
(* effect on the channel itself and are left out: a process may exit at    *)
(* any time, whether or not it was told to.                                *)
(***************************************************************************)
EXTENDS Integers

CONSTANTS Ptys,    \* whether the operator asks for a pty: a set of booleans
          Full,    \* units in CHANNEL_MAX_PACKET
          MaxOut,  \* bound: units a process writes
          Holds    \* whether a descendant may keep the output open: booleans

ASSUME ModesAssumption ==
    /\ Ptys \subseteq BOOLEAN /\ Ptys # {}
    /\ Holds \subseteq BOOLEAN /\ Holds # {}
ASSUME SizesAssumption == Full \in Nat \ {0} /\ MaxOut \in Nat

VARIABLES
    pty,      \* pty_requested, when the process is started
    proc,     \* the process
    held,     \* after its exit, a descendant has its output open
    master,   \* master_fd
    sftp,     \* sftp
    inTable,  \* ReverseClientConnection.channels has the channel
    link,     \* the connection to the relay works
    alive,    \* ReverseClientConnection.alive: run() goes on
    closed,   \* closed
    at,       \* where the reader and the waiter stand
    sendsClose, \* the on_close under way has send_close set
    tpc,      \* where the threads of the output streams stand
    written,  \* units the process wrote
    chunk,    \* units a thread has read and not sent
    sent,     \* units sent to the relay
    timedOut, \* history: a join gave up after two seconds
    closes    \* history: CLOSE frames sent

procVars == <<pty, proc, held, written>>
chanVars == <<master, sftp, inTable, closed>>
outVars == <<tpc, chunk, sent>>
vars == <<procVars, chanVars, outVars, link, alive, at, sendsClose, timedOut, closes>>

Streams == {"stdout", "stderr"}
Threads == {"reader", "waiter"}

\* the steps of _finish_with_status and, from "flag" on, of on_close
Finishing == {"status", "eof", "flag", "fd", "close"}
Places == Finishing \cup {"none", "reading", "waiting", "join_stdout",
                          "join_stderr", "ended"}
TPlaces == {"none", "starting", "testing", "reading", "sending", "ended", "failed"}

TypeOK ==
    /\ pty \in BOOLEAN /\ held \in BOOLEAN /\ inTable \in BOOLEAN
    /\ link \in BOOLEAN /\ alive \in BOOLEAN
    /\ closed \in BOOLEAN /\ timedOut \in BOOLEAN
    /\ proc \in {"none", "running", "exited"}
    /\ master \in {"none", "open", "closed"}
    /\ sftp \in {"none", "open", "closed"}
    /\ at \in [Threads -> Places]
    /\ sendsClose \in [Threads -> BOOLEAN]
    /\ tpc \in [Streams -> TPlaces]
    /\ written \in [Streams -> 0..MaxOut]
    /\ chunk \in [Streams -> 0..Full]
    /\ sent \in [Streams -> 0..MaxOut]
    /\ closes \in Nat

OwnInit ==
    /\ pty \in Ptys
    /\ proc = "none" /\ held = FALSE
    /\ master = "none" /\ sftp = "none"
    /\ at = [t \in Threads |-> IF t = "reader" THEN "reading" ELSE "none"]
    /\ sendsClose = [t \in Threads |-> FALSE]
    /\ tpc = [r \in Streams |-> "none"]
    /\ written = [r \in Streams |-> 0]
    /\ chunk = [r \in Streams |-> 0]
    /\ sent = [r \in Streams |-> 0]
    /\ timedOut = FALSE /\ closes = 0

Init == inTable = TRUE /\ link = TRUE /\ alive = TRUE /\ closed = FALSE /\ OwnInit

Goes(t, place) == at' = [at EXCEPT ![t] = place]

-----------------------------------------------------------------------------
(* The client's reader: frames for the channel *)

FrameArrives == at["reader"] = "reading" /\ inTable /\ link

\* thread t begins _finish_with_status, unless the channel is closed
BeginsFinish(t, otherwise) == Goes(t, IF closed THEN otherwise ELSE "status")

\* shell or exec: a pty has one output stream, pipes have two
Start ==
    /\ FrameArrives
    /\ proc = "none" /\ at["waiter"] = "none"
    /\ proc' = "running"
    /\ master' = IF pty THEN "open" ELSE master
    /\ tpc' = [r \in Streams |->
                 IF pty /\ r = "stderr" THEN "none" ELSE "starting"]
    /\ Goes("waiter", "waiting")
    /\ UNCHANGED <<pty, held, written, sftp, inTable, closed, chunk, sent, link, alive,
                   sendsClose, timedOut, closes>>

\* the process cannot be started: a pty made for it stays until on_close
StartFails ==
    /\ FrameArrives
    /\ proc = "none"
    /\ master' = IF pty THEN "open" ELSE master
    /\ BeginsFinish("reader", "reading")
    /\ UNCHANGED <<procVars, sftp, inTable, closed, outVars, link, alive, sendsClose,
                   timedOut, closes>>

StartSftp ==
    /\ FrameArrives
    /\ sftp' = "open"
    /\ UNCHANGED <<procVars, master, inTable, closed, outVars, link, alive, at,
                   sendsClose, timedOut, closes>>

\* an unknown subsystem, or a request that cannot be read
BadRequest ==
    /\ FrameArrives
    /\ BeginsFinish("reader", "reading")
    /\ UNCHANGED <<procVars, chanVars, outVars, link, alive, sendsClose, timedOut, closes>>

\* EOF ends SFTP; to a process it is the end of its input, to a pty nothing
SftpEof ==
    /\ FrameArrives
    /\ sftp = "open"
    /\ sftp' = "closed"
    /\ BeginsFinish("reader", "reading")
    /\ UNCHANGED <<procVars, master, inTable, closed, outVars, link, alive, sendsClose,
                   timedOut, closes>>

\* data that the pty no longer takes: on_close()
WriteToPtyFails ==
    /\ FrameArrives
    /\ sftp # "open" /\ master = "open" /\ proc # "running"
    /\ Goes("reader", "flag")
    /\ sendsClose' = [sendsClose EXCEPT !["reader"] = TRUE]
    /\ UNCHANGED <<procVars, chanVars, outVars, link, alive, timedOut, closes>>

\* CLOSE
CloseArrives ==
    /\ FrameArrives
    /\ inTable' = FALSE
    /\ Goes("reader", "flag")
    /\ sendsClose' = [sendsClose EXCEPT !["reader"] = FALSE]
    /\ UNCHANGED <<procVars, master, sftp, closed, outVars, link, alive, timedOut, closes>>

\* run() ends with the connection, or because handling a frame of another channel
\* has raised.  It closes the channels in the table without a CLOSE and leaves them
\* there, and nobody closes the connection, which may still work
RunEnds ==
    /\ at["reader"] = "reading"
    /\ alive' = FALSE
    /\ Goes("reader", IF inTable THEN "flag" ELSE "ended")
    /\ sendsClose' = [sendsClose EXCEPT !["reader"] = FALSE]
    /\ UNCHANGED <<procVars, chanVars, outVars, link, timedOut, closes>>

-----------------------------------------------------------------------------
(* _finish_with_status and on_close, run by the reader or by the waiter *)

\* where a thread goes when it is done
Done(t) == IF t = "waiter" \/ ~alive THEN "ended" ELSE "reading"

\* a frame is sent; without the connection that raises, the waiter dies of it,
\* and the reader goes on with the end of run()
SendsFrame(t, place, next) ==
    /\ at[t] = place
    /\ \/ link /\ Goes(t, next)
       \/ ~link /\ Goes(t, Done(t))

SendStatus(t) ==
    /\ SendsFrame(t, "status", "eof")
    /\ UNCHANGED <<procVars, chanVars, outVars, link, alive, sendsClose, timedOut, closes>>

SendEof(t) ==
    /\ SendsFrame(t, "eof", "flag")
    /\ sendsClose' = [sendsClose EXCEPT ![t] = TRUE]
    /\ UNCHANGED <<procVars, chanVars, outVars, link, alive, timedOut, closes>>

\* mutant: closed is set when everything is done
TestOnly(t) ==
    /\ at[t] = "flag"
    /\ Goes(t, IF closed THEN Done(t) ELSE "fd")
    /\ UNCHANGED <<procVars, chanVars, outVars, link, alive, sendsClose, timedOut, closes>>

TestAndSet(t) ==
    /\ at[t] = "flag"
    /\ closed' = TRUE
    /\ Goes(t, IF closed THEN Done(t) ELSE "fd")
    /\ UNCHANGED <<procVars, master, sftp, inTable, outVars, link, alive, sendsClose,
                   timedOut, closes>>

CloseFd(t) ==
    /\ at[t] = "fd"
    /\ master' = IF master = "open" THEN "closed" ELSE master
    /\ sftp' = IF sftp = "open" THEN "closed" ELSE sftp
    /\ Goes(t, IF sendsClose[t] THEN "close" ELSE Done(t))
    /\ UNCHANGED <<procVars, inTable, closed, outVars, link, alive, sendsClose, timedOut,
                   closes>>

SendClose(t) ==
    /\ SendsFrame(t, "close", Done(t))
    /\ closes' = IF link THEN closes + 1 ELSE closes
    /\ inTable' = IF link THEN FALSE ELSE inTable
    /\ UNCHANGED <<procVars, master, sftp, closed, outVars, link, alive, sendsClose,
                   timedOut>>

FinishGoesOn(t) ==
    SendStatus(t) \/ SendEof(t) \/ TestAndSet(t) \/ CloseFd(t) \/ SendClose(t)

-----------------------------------------------------------------------------
(* The threads of the output streams *)

Waiting(r) == written[r] - sent[r] - chunk[r]

\* nobody can write to the stream any more
StreamEnded == proc = "exited" /\ ~held

AtMost(n, most) == IF n <= most THEN n ELSE most

\* mutant: a read waits for CHANNEL_MAX_PACKET bytes on a pty too
AvailableFull(r) ==
    IF StreamEnded \/ Waiting(r) >= Full THEN AtMost(Waiting(r), Full) ELSE 0

\* what a read returns.  os.read on a pty returns what there is; read on a
\* buffered pipe goes on until it has CHANNEL_MAX_PACKET bytes, or the end
Available(r) ==
    IF pty \/ StreamEnded \/ Waiting(r) >= Full THEN AtMost(Waiting(r), Full)
    ELSE 0

ThreadGoes(r, place) == tpc' = [tpc EXCEPT ![r] = place]

\* the assertion at the top of _pty_reader
OutStarts(r) ==
    /\ tpc[r] = "starting"
    /\ ThreadGoes(r, IF pty /\ master # "open" THEN "failed" ELSE "testing")
    /\ UNCHANGED <<procVars, chanVars, chunk, sent, link, alive, at, sendsClose, timedOut,
                   closes>>

\* while not self.closed
OutTests(r) ==
    /\ tpc[r] = "testing"
    /\ ThreadGoes(r, IF closed THEN "ended" ELSE "reading")
    /\ UNCHANGED <<procVars, chanVars, chunk, sent, link, alive, at, sendsClose, timedOut,
                   closes>>

OutReads(r) ==
    /\ tpc[r] = "reading"
    /\ Available(r) > 0
    /\ chunk' = [chunk EXCEPT ![r] = Available(r)]
    /\ ThreadGoes(r, "sending")
    /\ UNCHANGED <<procVars, chanVars, sent, link, alive, at, sendsClose, timedOut, closes>>

\* the end of the stream, or a master that on_close has closed after the test
OutEnds(r) ==
    /\ tpc[r] = "reading"
    /\ \/ Available(r) = 0 /\ StreamEnded
       \/ pty /\ master = "closed"
    /\ ThreadGoes(r, "ended")
    /\ UNCHANGED <<procVars, chanVars, chunk, sent, link, alive, at, sendsClose, timedOut,
                   closes>>

OutSends(r) ==
    /\ tpc[r] = "sending"
    /\ \/ /\ link
          /\ sent' = [sent EXCEPT ![r] = @ + chunk[r]]
          /\ chunk' = [chunk EXCEPT ![r] = 0]
          /\ ThreadGoes(r, "testing")
       \/ /\ ~link
          /\ ThreadGoes(r, "ended")
          /\ UNCHANGED <<sent, chunk>>
    /\ UNCHANGED <<procVars, chanVars, link, alive, at, sendsClose, timedOut, closes>>

OutGoesOn(r) == OutStarts(r) \/ OutTests(r) \/ OutReads(r) \/ OutEnds(r) \/ OutSends(r)

-----------------------------------------------------------------------------
(* The waiter *)

WaitReturns ==
    /\ at["waiter"] = "waiting"
    /\ proc = "exited"
    /\ Goes("waiter", "join_stdout")
    /\ UNCHANGED <<procVars, chanVars, outVars, link, alive, sendsClose, timedOut, closes>>

Gone(r) == tpc[r] \in {"none", "ended", "failed"}

AfterJoin(r) ==
    IF r = "stdout" THEN Goes("waiter", "join_stderr")
    ELSE BeginsFinish("waiter", "ended")

JoinPlace(r) == IF r = "stdout" THEN "join_stdout" ELSE "join_stderr"

Join(r) ==
    /\ at["waiter"] = JoinPlace(r)
    /\ Gone(r)
    /\ AfterJoin(r)
    /\ UNCHANGED <<procVars, chanVars, outVars, link, alive, sendsClose, timedOut, closes>>

\* mutants: join without a timeout; no join at all
JoinNeverExpires(r) == FALSE /\ UNCHANGED vars
JoinSkipped(r) ==
    /\ at["waiter"] = JoinPlace(r)
    /\ ~Gone(r)
    /\ AfterJoin(r)
    /\ UNCHANGED <<procVars, chanVars, outVars, link, alive, sendsClose, timedOut, closes>>

\* thread.join(timeout=2) returns though the thread is alive
JoinExpires(r) ==
    /\ at["waiter"] = JoinPlace(r)
    /\ ~Gone(r)
    /\ timedOut' = TRUE
    /\ AfterJoin(r)
    /\ UNCHANGED <<procVars, chanVars, outVars, link, alive, sendsClose, closes>>

WaiterGoesOn == WaitReturns \/ \E r \in Streams : Join(r) \/ JoinExpires(r)

-----------------------------------------------------------------------------
(* The process, and the connection *)

ProcWrites(r) ==
    /\ proc = "running" \/ held
    /\ tpc[r] # "none"
    /\ written["stdout"] + written["stderr"] < MaxOut
    /\ written' = [written EXCEPT ![r] = @ + 1]
    /\ UNCHANGED <<pty, proc, held, chanVars, outVars, link, alive, at, sendsClose,
                   timedOut, closes>>

ProcExits ==
    /\ proc = "running"
    /\ proc' = "exited"
    /\ held' \in Holds
    /\ UNCHANGED <<pty, written, chanVars, outVars, link, alive, at, sendsClose, timedOut,
                   closes>>

LinkFails ==
    /\ link
    /\ link' = FALSE
    /\ UNCHANGED <<procVars, chanVars, outVars, alive, at, sendsClose, timedOut, closes>>

-----------------------------------------------------------------------------
Next ==
    \/ Start \/ StartFails \/ StartSftp \/ BadRequest \/ SftpEof
    \/ WriteToPtyFails \/ CloseArrives \/ RunEnds
    \/ \E t \in Threads : FinishGoesOn(t)
    \/ \E r \in Streams : OutGoesOn(r) \/ ProcWrites(r)
    \/ WaiterGoesOn
    \/ ProcExits \/ LinkFails

Spec == Init /\ [][Next]_vars

ReaderGoesOn == FinishGoesOn("reader") \/ (~link /\ RunEnds)

\* The threads run, and a write to a working connection returns: that somebody
\* reads at its other end is assumed, not shown.  Nothing is assumed of the process,
\* and of the reader not that it reads on: it finishes a close it has begun, and
\* unwinds once the connection has failed.
FairSpec ==
    /\ Spec
    /\ WF_vars(ReaderGoesOn)
    /\ WF_vars(FinishGoesOn("waiter") \/ WaiterGoesOn)
    /\ \A r \in Streams : WF_vars(OutGoesOn(r))

-----------------------------------------------------------------------------
(* Properties *)

\* Whatever the reader and the waiter do at once, CLOSE is sent at most once
\* (client.py:348-351, 368-369, 491-496).
OneClose == closes <= 1

\* When the waiter sends EOF without having given up on a thread, and nobody
\* else has closed the channel, the operator has all the process wrote
\* (client.py:482-489).
OutputBeforeEof ==
    at["waiter"] \in {"status", "eof"} /\ link /\ ~closed /\ ~timedOut =>
        \A r \in Streams : sent[r] = written[r]

\* As long as run() goes on, over a connection that works, whoever closes a channel
\* leaves no relay waiting for it: a closed channel is off the table, because the
\* CLOSE was sent or came from the relay, or one of the two threads is about to send
\* it (client.py:229-230, 348-369).  And a waiter that is done has left the channel
\* closed (client.py:482-496).  Of what run() itself closes, when it ends, the relay
\* is told nothing (client.py:207-210).
SessionEndIsTold ==
    /\ closed /\ inTable /\ link /\ alive =>
         \E t \in Threads : at[t] = "close" \/ (at[t] = "fd" /\ sendsClose[t])
    /\ at["waiter"] = "ended" /\ link => closed

\* The exit of the process ends the channel, also when a descendant keeps its
\* output open (client.py:484-489).
ExitEndsChannel == (proc = "exited") ~> (closed \/ ~link)

Arrived(r) == sent[r] = written[r] \/ closed \/ ~link

\* What a process writes to a pty reaches the operator while the process runs on
\* (client.py:461-470).
PtyOutputArrives ==
    (pty /\ sent["stdout"] < written["stdout"]) ~> Arrived("stdout")

\* What a process writes reaches the operator while the process runs on, with a
\* pty or without: sessions are routed for "OpenSSH clients" (README.md:17-18),
\* which wait for it.  The code does not have this property.
OutputArrives == \A r \in Streams : (sent[r] < written[r]) ~> Arrived(r)

\* The thread of a pty finds its master open: "assert self.master_fd is not
\* None" (client.py:462).  The code does not have this property.
PtyReaderHasMaster == \A r \in Streams : tpc[r] # "failed"
=============================================================================
