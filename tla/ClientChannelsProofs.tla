------------------------- MODULE ClientChannelsProofs -------------------------
(***************************************************************************)
(* Proofs about a channel at the client, of either type, for any sizes.    *)
(*                                                                         *)
(* A session: whatever the reader, the waiter and the output threads do at *)
(* once, one CLOSE is sent, and EOF is sent behind the process's output.   *)
(* OneClose becomes inductive with who may be on the way to the CLOSE.     *)
(* OutputBeforeEof needs, for every output stream, what is known of it     *)
(* wherever its thread stands; that a join that did not time out is of a   *)
(* thread that is gone; and, for a pty, that its master is closed by       *)
(* nobody but on_close.  That the end of the channel is told, as long as   *)
(* run() goes on, needs to know of a thread that is not to send CLOSE that *)
(* the channel is off the table already.                                   *)
(*                                                                         *)
(* A TCP channel: its frames are in order, and EOF is sent behind the      *)
(* peer's data.  The order becomes inductive with what has been sent       *)
(* wherever the reader and the thread of the socket stand.                 *)
(*                                                                         *)
(* A channel keeps the invariant of its type and has begun nothing of the  *)
(* other.                                                                  *)
(***************************************************************************)
EXTENDS ClientChannels, FiniteSetTheorems, TLAPS

\* of the two threads that run on_close, one at most gets past the flag, once
OneCloser ==
    /\ closes \in {0, 1}
    /\ closes = 1 => closed
    /\ \A t \in Threads : at[t] \in {"fd", "close"} => closed /\ closes = 0
    /\ ~(at["reader"] \in {"fd", "close"} /\ at["waiter"] \in {"fd", "close"})

\* a pty that has output threads has a master, until on_close closes it
MasterKept ==
    /\ master = "closed" => closed
    /\ \A r \in Streams : pty /\ tpc[r] # "none" => master # "none"

\* what a stream's thread has read and sent, by where it stands
OutputKept ==
    \A r \in Streams :
        /\ sent[r] + chunk[r] <= written[r]
        /\ tpc[r] = "none" => written[r] = 0
        /\ chunk[r] > 0 => tpc[r] = "sending" \/ ~link
        /\ tpc[r] = "failed" => closed
        /\ tpc[r] = "ended" => closed \/ ~link \/ (StreamEnded /\ Waiting(r) = 0)

\* what the waiter has joined is gone
JoinedAreGone ==
    /\ at["waiter"] \in {"join_stderr", "status", "eof"} /\ ~timedOut => Gone("stdout")
    /\ at["waiter"] \in {"status", "eof"} /\ ~timedOut => Gone("stderr")

\* the threads are started with the waiter
StartedTogether == at["waiter"] = "none" => \A r \in Streams : tpc[r] = "none"

\* a thread that is not to send CLOSE has found or taken the channel off the table,
\* or is ending run()
ClosersKnown ==
    /\ \A t \in Threads : at[t] \in {"flag", "fd"} /\ ~sendsClose[t] => ~inTable \/ ~alive
    /\ SessionEndIsTold

IInv ==
    /\ TypeOK
    /\ OneCloser
    /\ MasterKept
    /\ OutputKept
    /\ JoinedAreGone
    /\ StartedTogether
    /\ ClosersKnown

-----------------------------------------------------------------------------
\* The initial state satisfies the inductive invariant.
LEMMA InitIInv == Init => IInv
<1> SUFFICES ASSUME Init PROVE IInv
  OBVIOUS
<1> USE ModesAssumption, SizesAssumption DEF Init, OwnInit
<1>1. TypeOK
  <2>1. pty \in BOOLEAN
    OBVIOUS
  <2>2. at \in [Threads -> Places]
    BY DEF Places
  <2>3. tpc \in [Streams -> TPlaces]
    BY DEF TPlaces
  <2>4. /\ written \in [Streams -> 0..MaxOut] /\ sent \in [Streams -> 0..MaxOut]
        /\ chunk \in [Streams -> 0..Full] /\ sendsClose \in [Threads -> BOOLEAN]
    OBVIOUS
  <2>5. /\ held \in BOOLEAN /\ inTable \in BOOLEAN /\ link \in BOOLEAN /\ alive \in BOOLEAN
        /\ closed \in BOOLEAN /\ timedOut \in BOOLEAN /\ closes \in Nat
    OBVIOUS
  <2> QED
    BY <2>1, <2>2, <2>3, <2>4, <2>5 DEF TypeOK
<1>2. OneCloser
  BY DEF OneCloser, Threads
<1>3. MasterKept /\ OutputKept
  BY DEF MasterKept, OutputKept
<1>4. JoinedAreGone /\ StartedTogether
  BY DEF JoinedAreGone, StartedTogether, Threads
<1>5. ClosersKnown
  BY DEF ClosersKnown, SessionEndIsTold, Threads
<1> QED
  BY <1>1, <1>2, <1>3, <1>4, <1>5 DEF IInv

-----------------------------------------------------------------------------
\* The frames for the channel, and the end of run(), keep the types.
LEMMA ReaderKeepsTypes ==
    ASSUME TypeOK,
           \/ Start \/ StartFails \/ StartSftp \/ BadRequest \/ SftpEof
           \/ WriteToPtyFails \/ CloseArrives \/ RunEnds
    PROVE  TypeOK'
<1> USE DEF TypeOK, Threads, Streams, Places, Finishing, TPlaces, Goes, BeginsFinish,
        FrameArrives, procVars, chanVars, outVars
<1>1. CASE Start
  BY <1>1 DEF Start
<1>2. CASE StartFails
  BY <1>2 DEF StartFails
<1>3. CASE StartSftp
  BY <1>3 DEF StartSftp
<1>4. CASE BadRequest
  BY <1>4 DEF BadRequest
<1>5. CASE SftpEof
  BY <1>5 DEF SftpEof
<1>6. CASE WriteToPtyFails
  BY <1>6 DEF WriteToPtyFails
<1>7. CASE CloseArrives
  BY <1>7 DEF CloseArrives
<1>8. CASE RunEnds
  <2>1. at' \in [Threads -> Places] /\ sendsClose' \in [Threads -> BOOLEAN]
    BY <1>8 DEF RunEnds
  <2>2. alive' \in BOOLEAN
    BY <1>8 DEF RunEnds
  <2> QED
    BY <1>8, <2>1, <2>2 DEF RunEnds
<1> QED
  BY <1>1, <1>2, <1>3, <1>4, <1>5, <1>6, <1>7, <1>8

\* A thread goes to a place there is.
LEMMA GoesKeepsType ==
    ASSUME at \in [Threads -> Places], NEW t \in Threads, NEW place \in Places, Goes(t, place)
    PROVE  at' \in [Threads -> Places]
  BY DEF Goes

\* ... and so do the steps of _finish_with_status and on_close.
LEMMA FinishKeepsTypes ==
    ASSUME TypeOK, NEW t \in Threads, FinishGoesOn(t)
    PROVE  TypeOK'
<1> USE DEF TypeOK, procVars, chanVars, outVars
<1>0. {"eof", "flag", "fd", "close", "ended", "reading"} \subseteq Places /\ Done(t) \in Places
  BY DEF Places, Finishing, Done
<1>1. at' \in [Threads -> Places]
  <2>1. CASE SendStatus(t) \/ SendEof(t) \/ SendClose(t)
    BY <1>0, <2>1, GoesKeepsType DEF SendStatus, SendEof, SendClose, SendsFrame
  <2>2. CASE TestAndSet(t)
    BY <1>0, <2>2, GoesKeepsType DEF TestAndSet
  <2>3. CASE CloseFd(t)
    <3>1. (IF sendsClose[t] THEN "close" ELSE Done(t)) \in Places
      BY <1>0
    <3> QED
      BY <2>3, <3>1, GoesKeepsType DEF CloseFd
  <2> QED
    BY <2>1, <2>2, <2>3 DEF FinishGoesOn
<1>2. CASE SendStatus(t)
  BY <1>1, <1>2 DEF SendStatus
<1>3. CASE SendEof(t)
  BY <1>1, <1>3 DEF SendEof
<1>4. CASE TestAndSet(t)
  BY <1>1, <1>4 DEF TestAndSet
<1>5. CASE CloseFd(t)
  BY <1>1, <1>5 DEF CloseFd
<1>6. CASE SendClose(t)
  <2>1. inTable' \in BOOLEAN
    BY <1>6 DEF SendClose
  <2>3. closes' \in Nat
    <3>1. closes' = closes \/ closes' = closes + 1
      BY <1>6 DEF SendClose
    <3> QED
      BY <3>1
  <2>2. UNCHANGED <<procVars, master, sftp, closed, outVars, link, alive, sendsClose, timedOut>>
    BY <1>6 DEF SendClose
  <2> QED
    BY <1>1, <2>1, <2>2, <2>3
<1> QED
  BY <1>2, <1>3, <1>4, <1>5, <1>6 DEF FinishGoesOn

\* ... of an output stream and its process.
LEMMA OutputKeepsTypes ==
    ASSUME TypeOK, OutputKept, NEW r \in Streams, OutGoesOn(r) \/ ProcWrites(r)
    PROVE  TypeOK'
<1> USE DEF TypeOK, ThreadGoes, procVars, chanVars, outVars
<1>1. CASE OutStarts(r) \/ OutTests(r) \/ OutEnds(r)
  BY <1>1 DEF OutStarts, OutTests, OutEnds, TPlaces
<1>2. CASE OutReads(r)
  <2>1. Available(r) \in 0..Full
    BY <1>2, SizesAssumption DEF OutReads, Available, AtMost, Waiting
  <2> QED
    BY <1>2, <2>1 DEF OutReads, TPlaces
<1>3. CASE OutSends(r)
  <2>1. sent[r] + chunk[r] \in 0..MaxOut
    BY SizesAssumption DEF OutputKept
  <2> QED
    BY <1>3, <2>1, SizesAssumption DEF OutSends, TPlaces
<1>4. CASE ProcWrites(r)
  <2>1. written[r] + 1 \in 0..MaxOut
    BY <1>4, SizesAssumption DEF ProcWrites, Streams
  <2> QED
    BY <1>4, <2>1 DEF ProcWrites
<1> QED
  BY <1>1, <1>2, <1>3, <1>4 DEF OutGoesOn

\* ... of the waiter, the process and the connection.
LEMMA OthersKeepTypes ==
    ASSUME TypeOK, WaiterGoesOn \/ ProcExits \/ LinkFails
    PROVE  TypeOK'
<1> USE ModesAssumption DEF TypeOK, Threads, Places, Finishing, Goes, BeginsFinish, AfterJoin,
        procVars, chanVars, outVars
<1>1. CASE WaitReturns
  BY <1>1 DEF WaitReturns
<1>2. ASSUME NEW r \in Streams, Join(r) \/ JoinExpires(r) PROVE TypeOK'
  <2>1. AfterJoin(r)
    BY <1>2 DEF Join, JoinExpires
  <2>2. at' \in [Threads -> Places]
    BY <2>1
  <2>3. UNCHANGED <<procVars, chanVars, outVars, link, alive, sendsClose, closes>>
    BY <1>2 DEF Join, JoinExpires
  <2>4. timedOut' \in BOOLEAN
    BY <1>2 DEF Join, JoinExpires
  <2> QED
    BY <2>2, <2>3, <2>4
<1>3. CASE ProcExits
  BY <1>3 DEF ProcExits
<1>4. CASE LinkFails
  <2>1. /\ link' = FALSE
        /\ UNCHANGED <<procVars, chanVars, outVars, alive, at, sendsClose, timedOut, closes>>
    BY <1>4 DEF LinkFails
  <2> QED
    BY <2>1
<1> QED
  BY <1>1, <1>2, <1>3, <1>4 DEF WaiterGoesOn

\* Every step keeps the types.
LEMMA NextTypeOK ==
    ASSUME TypeOK, OutputKept, [Next]_vars
    PROVE  TypeOK'
<1>1. CASE UNCHANGED vars
  BY <1>1 DEF TypeOK, vars, procVars, chanVars, outVars, Waiting
<1> QED
  BY <1>1, ReaderKeepsTypes, FinishKeepsTypes, OutputKeepsTypes, OthersKeepTypes DEF Next

-----------------------------------------------------------------------------
\* The thread that finds the flag down is the only one to get past it.
LEMMA NextOneCloser ==
    ASSUME TypeOK, OneCloser, [Next]_vars
    PROVE  OneCloser'
<1> USE DEF OneCloser, Threads
<1>0. at \in [Threads -> Places]
  BY DEF TypeOK
<1>1. CASE Start \/ StartFails \/ StartSftp \/ BadRequest \/ SftpEof
  BY <1>0, <1>1 DEF Start, StartFails, StartSftp, BadRequest, SftpEof, FrameArrives,
     Goes, BeginsFinish, procVars, chanVars, outVars
<1>2. CASE WriteToPtyFails \/ CloseArrives \/ RunEnds
  BY <1>0, <1>2 DEF WriteToPtyFails, CloseArrives, RunEnds, FrameArrives, Goes,
     procVars, chanVars, outVars
<1>3. ASSUME NEW t \in Threads, SendStatus(t) \/ SendEof(t) PROVE OneCloser'
  BY <1>0, <1>3 DEF SendStatus, SendEof, SendsFrame, Goes, Done, procVars, chanVars, outVars
<1>4. ASSUME NEW t \in Threads, TestAndSet(t) PROVE OneCloser'
  BY <1>0, <1>4 DEF TestAndSet, Goes, Done
<1>5. ASSUME NEW t \in Threads, CloseFd(t) PROVE OneCloser'
  BY <1>0, <1>5 DEF CloseFd, Goes, Done
<1>6. ASSUME NEW t \in Threads, SendClose(t) PROVE OneCloser'
  BY <1>0, <1>6 DEF SendClose, SendsFrame, Goes, Done
<1>7. ASSUME NEW r \in Streams, OutGoesOn(r) \/ ProcWrites(r) PROVE OneCloser'
  BY <1>7 DEF OutGoesOn, OutStarts, OutTests, OutReads, OutEnds, OutSends, ProcWrites,
     chanVars
<1>8. CASE WaiterGoesOn
  BY <1>0, <1>8 DEF WaiterGoesOn, WaitReturns, Join, JoinExpires, JoinPlace, AfterJoin,
     Streams, BeginsFinish, Goes, chanVars
<1>9. CASE ProcExits \/ LinkFails \/ UNCHANGED vars
  BY <1>9 DEF ProcExits, LinkFails, vars, chanVars
<1> QED
  BY <1>1, <1>2, <1>3, <1>4, <1>5, <1>6, <1>7, <1>8, <1>9 DEF Next, FinishGoesOn

\* Only Start makes a master, and only on_close closes it.
LEMMA NextMasterKept ==
    ASSUME TypeOK, OneCloser, MasterKept, [Next]_vars
    PROVE  MasterKept'
<1> USE DEF MasterKept, TypeOK
<1>1. CASE Start
  BY <1>1 DEF Start
<1>2. CASE StartFails \/ StartSftp \/ BadRequest \/ SftpEof \/ WriteToPtyFails
           \/ CloseArrives \/ RunEnds
  BY <1>2 DEF StartFails, StartSftp, BadRequest, SftpEof, WriteToPtyFails, CloseArrives,
     RunEnds, procVars, chanVars, outVars
<1>3. ASSUME NEW t \in Threads, FinishGoesOn(t) PROVE MasterKept'
  <2>1. UNCHANGED <<pty, tpc>>
    BY <1>3 DEF FinishGoesOn, SendStatus, SendEof, TestAndSet, CloseFd, SendClose, procVars, outVars
  <2>2. master' = master \/ (master = "open" /\ master' = "closed" /\ closed)
    BY <1>3 DEF FinishGoesOn, SendStatus, SendEof, TestAndSet, CloseFd, SendClose, chanVars, OneCloser
  <2>3. closed => closed'
    BY <1>3 DEF FinishGoesOn, SendStatus, SendEof, TestAndSet, CloseFd, SendClose, chanVars
  <2> QED
    BY <2>1, <2>2, <2>3
<1>4. ASSUME NEW r \in Streams, OutGoesOn(r) \/ ProcWrites(r) PROVE MasterKept'
  BY <1>4 DEF OutGoesOn, OutStarts, OutTests, OutReads, OutEnds, OutSends, ProcWrites,
     ThreadGoes, procVars, chanVars, outVars
<1>5. CASE WaiterGoesOn \/ ProcExits \/ LinkFails \/ UNCHANGED vars
  BY <1>5 DEF WaiterGoesOn, WaitReturns, Join, JoinExpires, ProcExits, LinkFails, vars,
     procVars, chanVars, outVars
<1> QED
  BY <1>1, <1>2, <1>3, <1>4, <1>5 DEF Next

-----------------------------------------------------------------------------
\* A stream is not touched by what leaves its variables and its end alone.
LEMMA OutputUntouched ==
    ASSUME OutputKept, UNCHANGED <<written, outVars, proc, held>>,
           closed => closed', link' => link
    PROVE  OutputKept'
  BY DEF OutputKept, outVars, Waiting, StreamEnded

\* What a stream's thread knows stays true.
LEMMA NextOutputKept ==
    ASSUME TypeOK, MasterKept, OutputKept, StartedTogether, [Next]_vars
    PROVE  OutputKept'
<1> USE DEF TypeOK
<1>1. CASE Start
  <2>1. \A r \in Streams : tpc[r] = "none" /\ tpc'[r] \in {"none", "starting"}
    BY <1>1 DEF Start, StartedTogether
  <2>2. UNCHANGED <<sent, chunk, written>>
    BY <1>1 DEF Start
  <2> QED
    BY <2>1, <2>2 DEF OutputKept
<1>2. CASE StartFails \/ StartSftp \/ BadRequest \/ SftpEof \/ WriteToPtyFails
           \/ CloseArrives \/ RunEnds \/ LinkFails \/ WaiterGoesOn \/ UNCHANGED vars
  <2>1. UNCHANGED <<written, outVars, proc, held>> /\ (closed => closed') /\ (link' => link)
    BY <1>2 DEF StartFails, StartSftp, BadRequest, SftpEof, WriteToPtyFails, CloseArrives,
       RunEnds, LinkFails, WaiterGoesOn, WaitReturns, Join, JoinExpires, vars, procVars, chanVars, outVars
  <2> QED
    BY <2>1, OutputUntouched
<1>3. ASSUME NEW t \in Threads, FinishGoesOn(t) PROVE OutputKept'
  <2>1. UNCHANGED <<written, outVars, proc, held>>
    BY <1>3 DEF FinishGoesOn, SendStatus, SendEof, TestAndSet, CloseFd, SendClose,
       procVars, outVars
  <2>2. closed => closed'
    BY <1>3 DEF FinishGoesOn, SendStatus, SendEof, TestAndSet, CloseFd, SendClose, chanVars
  <2>3. link' => link
    BY <1>3 DEF FinishGoesOn, SendStatus, SendEof, TestAndSet, CloseFd, SendClose
  <2> QED
    BY <2>1, <2>2, <2>3, OutputUntouched
<1>4. CASE ProcExits
  BY <1>4 DEF ProcExits, OutputKept, Waiting, StreamEnded, chanVars, outVars
<1>5. ASSUME NEW r \in Streams, OutGoesOn(r) \/ ProcWrites(r) PROVE OutputKept'
  <2> DEFINE Kept(q) ==
        /\ sent[q] + chunk[q] <= written[q]
        /\ tpc[q] = "none" => written[q] = 0
        /\ chunk[q] > 0 => tpc[q] = "sending" \/ ~link
        /\ tpc[q] = "failed" => closed
        /\ tpc[q] = "ended" => closed \/ ~link \/ (StreamEnded /\ Waiting(q) = 0)
  <2> HIDE DEF Kept
  <2>0. \A q \in Streams : Kept(q)
    BY DEF OutputKept, Kept
  <2>1. \A q \in Streams \ {r} : /\ sent'[q] = sent[q] /\ chunk'[q] = chunk[q]
                                 /\ written'[q] = written[q] /\ tpc'[q] = tpc[q]
    BY <1>5 DEF OutGoesOn, OutStarts, OutTests, OutReads, OutEnds, OutSends, ProcWrites,
       ThreadGoes, procVars, outVars
  <2>2. UNCHANGED <<proc, held, closed, link, pty>>
    BY <1>5 DEF OutGoesOn, OutStarts, OutTests, OutReads, OutEnds, OutSends, ProcWrites,
       procVars, chanVars
  <2>3. \A q \in Streams \ {r} : Kept(q)'
    BY <2>0, <2>1, <2>2 DEF Kept, Waiting, StreamEnded
  <2>4. ASSUME OutStarts(r) \/ OutTests(r) PROVE Kept(r)'
    BY <2>0, <2>2, <2>4 DEF Kept, OutStarts, OutTests, ThreadGoes, MasterKept, procVars, chanVars
  <2>5. ASSUME OutReads(r) PROVE Kept(r)'
    <3>1. Available(r) \in 0..Waiting(r)
      BY <2>0, <2>5, SizesAssumption DEF OutReads, Available, AtMost, Waiting, Kept
    <3> QED
      BY <2>0, <2>2, <2>5, <3>1 DEF Kept, OutReads, ThreadGoes, Waiting, procVars, chanVars
  <2>6. ASSUME OutEnds(r) PROVE Kept(r)'
    <3>1. Available(r) = 0 /\ StreamEnded => Waiting(r) = 0
      BY <2>0, SizesAssumption DEF Available, AtMost, Waiting, Kept
    <3> QED
      BY <2>0, <2>2, <2>6, <3>1 DEF Kept, OutEnds, ThreadGoes, MasterKept, Waiting, StreamEnded,
         procVars, chanVars
  <2>7. ASSUME OutSends(r) PROVE Kept(r)'
    BY <2>0, <2>2, <2>7 DEF Kept, OutSends, ThreadGoes, procVars, chanVars
  <2>8. ASSUME ProcWrites(r) PROVE Kept(r)'
    BY <2>0, <2>2, <2>8 DEF Kept, ProcWrites, StreamEnded, outVars
  <2>9. Kept(r)'
    BY <1>5, <2>4, <2>5, <2>6, <2>7, <2>8 DEF OutGoesOn
  <2> QED
    BY <2>3, <2>9 DEF OutputKept, Kept
<1> QED
  BY <1>1, <1>2, <1>3, <1>4, <1>5 DEF Next

\* A thread that is gone stays gone.
LEMMA GoneStays ==
    ASSUME TypeOK, [Next]_vars, NEW r \in Streams, Gone(r), at["waiter"] # "none"
    PROVE  Gone(r)'
<1> USE DEF Gone, TypeOK
<1>1. CASE UNCHANGED tpc
  BY <1>1
<1>2. ASSUME NEW q \in Streams, OutGoesOn(q) PROVE Gone(r)'
  BY <1>2 DEF OutGoesOn, OutStarts, OutTests, OutReads, OutEnds, OutSends, ThreadGoes
<1> QED
  BY <1>1, <1>2 DEF Next, Start, StartFails, StartSftp, BadRequest, SftpEof,
     WriteToPtyFails, CloseArrives, RunEnds, FinishGoesOn, SendStatus, SendEof, TestAndSet,
     CloseFd, SendClose, ProcWrites, WaiterGoesOn, WaitReturns, Join, JoinExpires,
     ProcExits, LinkFails, vars, outVars

\* The waiter gets on by a join that returns, or gives up.
LEMMA NextJoinedAreGone ==
    ASSUME TypeOK, JoinedAreGone, [Next]_vars
    PROVE  JoinedAreGone'
<1> USE DEF TypeOK, Threads
<1>0. \A r \in Streams : Gone(r) /\ at["waiter"] # "none" => Gone(r)'
  BY GoneStays
<1>s. "stdout" \in Streams /\ "stderr" \in Streams
  BY DEF Streams
<1>1. CASE at'["waiter"] = at["waiter"] /\ timedOut' = timedOut
  BY <1>0, <1>1, <1>s DEF JoinedAreGone
<1>2. CASE Start
  BY <1>2 DEF Start, Goes, JoinedAreGone
<1>3. CASE StartFails \/ StartSftp \/ BadRequest \/ SftpEof \/ WriteToPtyFails
           \/ CloseArrives \/ RunEnds
  <2>1. at'["waiter"] = at["waiter"] /\ timedOut' = timedOut
    BY <1>3 DEF StartFails, StartSftp, BadRequest, SftpEof, WriteToPtyFails, CloseArrives,
       RunEnds, BeginsFinish, Goes
  <2> QED
    BY <1>1, <2>1
<1>4. ASSUME NEW t \in Threads, FinishGoesOn(t) PROVE JoinedAreGone'
  <2>1. UNCHANGED <<timedOut, tpc>>
    BY <1>4 DEF FinishGoesOn, SendStatus, SendEof, TestAndSet, CloseFd, SendClose, outVars
  <2>2. at'["waiter"] \in {"join_stderr", "status", "eof"} =>
          at["waiter"] \in {"status", "eof"} \/ at'["waiter"] = at["waiter"]
    BY <1>4 DEF FinishGoesOn, SendStatus, SendEof, TestAndSet, CloseFd, SendClose, SendsFrame,
       Goes, Done
  <2>3. at["waiter"] \in {"status", "eof"} => at'["waiter"] # "join_stderr" 
    BY <1>4 DEF FinishGoesOn, SendStatus, SendEof, TestAndSet, CloseFd, SendClose, SendsFrame,
       Goes, Done
  <2> QED
    BY <2>1, <2>2, <2>3 DEF JoinedAreGone, Gone
<1>5. CASE WaitReturns
  BY <1>5 DEF WaitReturns, Goes, JoinedAreGone
<1>6. ASSUME NEW r \in Streams, Join(r) PROVE JoinedAreGone'
  BY <1>6 DEF Join, JoinPlace, AfterJoin, BeginsFinish, Goes, JoinedAreGone, Gone, Streams, outVars
<1>7. ASSUME NEW r \in Streams, JoinExpires(r) PROVE JoinedAreGone'
  BY <1>7 DEF JoinExpires, JoinedAreGone
<1>8. ASSUME NEW r \in Streams, OutGoesOn(r) \/ ProcWrites(r) PROVE JoinedAreGone'
  BY <1>1, <1>8 DEF OutGoesOn, OutStarts, OutTests, OutReads, OutEnds, OutSends, ProcWrites
<1>9. CASE ProcExits \/ LinkFails \/ UNCHANGED vars
  BY <1>1, <1>9 DEF ProcExits, LinkFails, vars
<1> QED
  BY <1>2, <1>3, <1>4, <1>5, <1>6, <1>7, <1>8, <1>9 DEF Next, WaiterGoesOn

\* Only Start brings output threads.
LEMMA NextStartedTogether ==
    ASSUME TypeOK, StartedTogether, [Next]_vars
    PROVE  StartedTogether'
<1> USE DEF TypeOK, Threads, StartedTogether
<1>1. CASE Start
  BY <1>1 DEF Start, Goes
<1>2. CASE at["waiter"] # "none"
  <2>1. at'["waiter"] # "none"
    BY <1>2 DEF Next, Start, StartFails, StartSftp, BadRequest, SftpEof,
       WriteToPtyFails, CloseArrives, RunEnds, FinishGoesOn, SendStatus, SendEof, TestAndSet,
       CloseFd, SendClose, SendsFrame, Done, ProcWrites, WaiterGoesOn, WaitReturns, Join, JoinExpires,
       AfterJoin, BeginsFinish, Goes, OutGoesOn, OutStarts, OutTests, OutReads, OutEnds, OutSends,
       ProcExits, LinkFails, vars
  <2> QED
    BY <2>1
<1>3. CASE ~Start /\ at["waiter"] = "none"
  <2>1. tpc' = tpc
    BY <1>3 DEF Next, StartFails, StartSftp, BadRequest, SftpEof,
       WriteToPtyFails, CloseArrives, RunEnds, FinishGoesOn, SendStatus, SendEof, TestAndSet,
       CloseFd, SendClose, ProcWrites, WaiterGoesOn, WaitReturns, Join, JoinExpires,
       OutGoesOn, OutStarts, OutTests, OutReads, OutEnds, OutSends,
       ProcExits, LinkFails, vars, outVars
  <2> QED
    BY <1>3, <2>1
<1> QED
  BY <1>1, <1>2, <1>3

\* What the two threads leave to each other is done by one of them.
LEMMA NextClosersKnown ==
    ASSUME TypeOK, OneCloser, ClosersKnown, [Next]_vars
    PROVE  ClosersKnown'
<1> USE DEF ClosersKnown, SessionEndIsTold, Threads
<1>0. at \in [Threads -> Places] /\ sendsClose \in [Threads -> BOOLEAN]
  BY DEF TypeOK
<1>1. CASE Start \/ StartFails \/ StartSftp \/ BadRequest \/ SftpEof
  <2>1. UNCHANGED <<inTable, closed, link, alive, sendsClose>>
    BY <1>1 DEF Start, StartFails, StartSftp, BadRequest, SftpEof, procVars, chanVars, outVars
  <2>2. \A t \in Threads :
          \/ at'[t] = at[t]
          \/ at[t] \in {"none", "reading"} /\ at'[t] \in {"reading", "status", "waiting"}
    BY <1>0, <1>1 DEF Start, StartFails, StartSftp, BadRequest, SftpEof, FrameArrives, Goes,
       BeginsFinish, procVars, chanVars, outVars
  <2> QED
    BY <2>1, <2>2
<1>2. CASE WriteToPtyFails \/ CloseArrives \/ RunEnds
  BY <1>0, <1>2 DEF WriteToPtyFails, CloseArrives, RunEnds, FrameArrives, Goes,
     procVars, chanVars, outVars
<1>3. ASSUME NEW t \in Threads, SendStatus(t) \/ SendEof(t) PROVE ClosersKnown'
  BY <1>0, <1>3 DEF SendStatus, SendEof, SendsFrame, Goes, Done, procVars, chanVars, outVars
<1>4. ASSUME NEW t \in Threads, TestAndSet(t) PROVE ClosersKnown'
  BY <1>0, <1>4 DEF TestAndSet, Goes, Done
<1>5. ASSUME NEW t \in Threads, CloseFd(t) PROVE ClosersKnown'
  <2>1. /\ UNCHANGED <<inTable, closed, link, alive, sendsClose>>
        /\ at[t] = "fd" /\ at' = [at EXCEPT ![t] = IF sendsClose[t] THEN "close" ELSE Done(t)]
    BY <1>5 DEF CloseFd, Goes
  <2> QED
    BY <1>0, <2>1 DEF Done, OneCloser
<1>6. ASSUME NEW t \in Threads, SendClose(t) PROVE ClosersKnown'
  <2>1. /\ UNCHANGED <<closed, link, alive, sendsClose>> /\ inTable' = IF link THEN FALSE ELSE inTable
        /\ at[t] = "close" /\ at' = [at EXCEPT ![t] = Done(t)]
    BY <1>6 DEF SendClose, SendsFrame, Goes
  <2> QED
    BY <1>0, <2>1 DEF Done, OneCloser
<1>7. ASSUME NEW r \in Streams, OutGoesOn(r) \/ ProcWrites(r) PROVE ClosersKnown'
  BY <1>7 DEF OutGoesOn, OutStarts, OutTests, OutReads, OutEnds, OutSends, ProcWrites,
     chanVars
<1>8. CASE WaiterGoesOn
  BY <1>0, <1>8 DEF WaiterGoesOn, WaitReturns, Join, JoinExpires, JoinPlace, AfterJoin,
     Streams, BeginsFinish, Goes, chanVars
<1>9. CASE ProcExits \/ LinkFails \/ UNCHANGED vars
  BY <1>9 DEF ProcExits, LinkFails, vars, chanVars
<1> QED
  BY <1>1, <1>2, <1>3, <1>4, <1>5, <1>6, <1>7, <1>8, <1>9 DEF Next, FinishGoesOn

\* Every step keeps the inductive invariant.
LEMMA NextIInv == IInv /\ [Next]_vars => IInv'
  BY NextTypeOK, NextOneCloser, NextMasterKept, NextOutputKept, NextJoinedAreGone,
     NextStartedTogether, NextClosersKnown DEF IInv

\* The inductive invariant holds in every reachable state.
LEMMA Invariance == Spec => []IInv
  BY InitIInv, NextIInv, PTL DEF Spec

\* Every variable keeps its type (client.py:274-289).
THEOREM TypeCorrect == Spec => []TypeOK
<1>1. IInv => TypeOK
  BY DEF IInv
<1> QED
  BY Invariance, <1>1, PTL

\* CLOSE is sent at most once, whoever ends the channel (client.py:348-369).
THEOREM CloseIsSentOnce == Spec => []OneClose
<1>1. IInv => OneClose
  BY DEF IInv, OneCloser, OneClose
<1> QED
  BY Invariance, <1>1, PTL

\* What the invariant says when the waiter is about to send EOF.
LEMMA JoinedIsSent == IInv => OutputBeforeEof
<1> SUFFICES ASSUME IInv, at["waiter"] \in {"status", "eof"}, link, ~closed, ~timedOut,
                    NEW r \in Streams
             PROVE  sent[r] = written[r]
  BY DEF OutputBeforeEof
<1>1. Gone(r)
  BY DEF IInv, JoinedAreGone, Streams
<1>2. tpc[r] \in {"none", "ended"}
  BY <1>1 DEF Gone, IInv, OutputKept
<1>3. chunk[r] = 0
  BY <1>2 DEF IInv, OutputKept, TypeOK
<1>4. CASE tpc[r] = "none"
  BY <1>3, <1>4 DEF IInv, OutputKept, TypeOK
<1>5. CASE tpc[r] = "ended"
  BY <1>3, <1>5 DEF IInv, OutputKept, TypeOK, Waiting
<1> QED
  BY <1>2, <1>4, <1>5

\* When the waiter sends EOF without having given up on a thread, all the process
\* wrote has been sent (client.py:482-489).
THEOREM EofIsBehindOutput == Spec => []OutputBeforeEof
  BY Invariance, JoinedIsSent, PTL

-----------------------------------------------------------------------------
(* TCP channels.  The thread of the socket is the only one that sends for the *)
(* channel once it runs, so where it stands says what has been sent.          *)

\* the confirmation, then data
Streaming == out[1] = "confirm" /\ \A i \in 2..Len(out) : out[i] = "data"

TcpShape ==
    /\ Tcp!TypeOK
    /\ rat \in {"opening", "confirming", "refusing"} => out = <<>>
    /\ rat \in {"opening", "confirming", "refusing", "starting"} => fpc = "none"
    /\ rat = "starting" => out = <<"confirm">>
    /\ fpc = "none" => Len(out) <= 1
    /\ fpc \in {"testing", "receiving", "sending", "eof"} => out # <<>> /\ Streaming
    /\ fpc \in {"flag", "fd", "close"} =>
         /\ Len(out) > 1 /\ out[1] = "confirm" /\ out[Len(out)] = "eof"
         /\ \A i \in 2..(Len(out) - 1) : out[i] = "data"
    /\ TcpFramesInOrder

\* what the thread has received and sent, and who closes the socket
TcpData ==
    /\ tcpChunk + Tcp!Count("data") <= tcpWritten
    /\ tcpChunk = 1 <=> fpc = "sending"
    /\ sock = "closed" \/ rat = "fd" \/ fpc = "fd" => closed
    /\ fpc = "eof" /\ link /\ ~closed /\ ~silent /\ peer # "reset" =>
         peer = "done" /\ Tcp!Count("data") = tcpWritten

\* the reader takes the channel off the table before it closes it, or ends run()
TcpCloser ==
    /\ rat = "opening" => ~closed
    /\ rat \in {"flag", "fd"} => ~inTable \/ ~alive
    /\ fpc \in {"fd", "close"} => closed
    /\ Tcp!TcpEndIsTold

TcpInv == TcpShape /\ TcpData /\ TcpCloser

TcpFrameTypes == {"confirm", "refuse", "data", "eof", "close"}

\* Cardinality is the same in the module of TCP channels.
LEMMA SameCardinality == ASSUME NEW S PROVE Tcp!Cardinality(S) = Cardinality(S)
  BY DEF Tcp!Cardinality, Cardinality, Tcp!IsFiniteSet, IsFiniteSet

\* One frame more is counted among its like.
LEMMA CountAppend ==
    ASSUME out \in Seq(TcpFrameTypes), NEW f \in TcpFrameTypes, out' = Append(out, f)
    PROVE  /\ Tcp!Count("data") \in Nat
           /\ Tcp!Count("data")' = Tcp!Count("data") + (IF f = "data" THEN 1 ELSE 0)
<1> DEFINE S == {i \in DOMAIN out : out[i] = "data"}
           T == {i \in DOMAIN out' : out'[i] = "data"}
           n == Len(out) + 1
<1>1. S \subseteq 1..Len(out) /\ Len(out) \in Nat
  OBVIOUS
<1>2. IsFiniteSet(S)
  BY <1>1, FS_Interval, FS_Subset
<1>3. Cardinality(S) \in Nat
  BY <1>2, FS_CardinalityType
<1>4. /\ DOMAIN out' = 1..n /\ out'[n] = f
      /\ \A i \in 1..Len(out) : out'[i] = out[i]
  OBVIOUS
<1>5. T = IF f = "data" THEN S \cup {n} ELSE S
  BY <1>1, <1>4
<1>6. n \notin S
  BY <1>1
<1>7. Cardinality(T) = Cardinality(S) + (IF f = "data" THEN 1 ELSE 0)
  <2> HIDE DEF S, T, n
  <2>1. Cardinality(S \cup {n}) = Cardinality(S) + 1
    BY <1>2, <1>6, FS_AddElement
  <2> QED
    BY <1>3, <1>5, <2>1
<1>8. Tcp!Count("data") = Cardinality(S) /\ Tcp!Count("data")' = Cardinality(T)
  BY SameCardinality DEF Tcp!Count
<1> QED
  BY <1>3, <1>7, <1>8

\* ... and there is a number of them.
LEMMA CountIsNat ==
    ASSUME out \in Seq(TcpFrameTypes)
    PROVE  Tcp!Count("data") \in Nat
<1> DEFINE S == {i \in DOMAIN out : out[i] = "data"}
<1>1. S \subseteq 1..Len(out) /\ Len(out) \in Nat
  OBVIOUS
<1>2. IsFiniteSet(S)
  BY <1>1, FS_Interval, FS_Subset
<1>3. Tcp!Count("data") = Cardinality(S)
  BY SameCardinality DEF Tcp!Count
<1> QED
  BY <1>2, <1>3, FS_CardinalityType

\* A channel begins with nothing sent.
LEMMA TcpInitInv ==
    ASSUME Tcp!OwnInit, link = TRUE, alive = TRUE, closed = FALSE, inTable = FALSE
    PROVE  TcpInv
<1> USE MaxDataAssumption DEF Tcp!OwnInit
<1>1. Tcp!TypeOK
  <2>1. out \in Seq({"confirm", "refuse", "data", "eof", "close"})
    OBVIOUS
  <2>2. tcpWritten \in 0..MaxData /\ tcpChunk \in 0..1
    OBVIOUS
  <2> QED
    BY <2>1, <2>2 DEF Tcp!TypeOK
<1>2. Tcp!Count("data") = 0
  <2>1. {i \in DOMAIN out : out[i] = "data"} = {}
    OBVIOUS
  <2> QED
    BY <2>1, SameCardinality, FS_EmptySet DEF Tcp!Count
<1>3. TcpShape
  BY <1>1 DEF TcpShape, TcpFramesInOrder, Tcp!TcpFramesInOrder
<1>4. TcpData
  BY <1>2 DEF TcpData
<1>5. TcpCloser
  BY DEF TcpCloser, Tcp!TcpEndIsTold
<1> QED
  BY <1>3, <1>4, <1>5 DEF TcpInv

\* The steps of the client's reader, and of the frames it reads.
TcpReaderStep ==
    \/ Tcp!ReaderGoesOn \/ Tcp!RunEnds
    \/ Tcp!DataArrives \/ Tcp!EofArrives \/ Tcp!CloseArrives

\* The reader confirms or refuses, starts the thread, and from then on sends
\* nothing for the channel.
LEMMA TcpReaderPlaces ==
    ASSUME TcpReaderStep
    PROVE  \/ /\ rat = "opening" /\ rat' \in {"confirming", "refusing"}
              /\ UNCHANGED <<fpc, out>>
           \/ /\ rat = "confirming" /\ rat' = "starting" /\ fpc' = fpc
              /\ out' = Append(out, "confirm")
           \/ /\ rat = "refusing" /\ rat' = "reading" /\ fpc' = fpc
              /\ out' = Append(out, "refuse")
           \/ /\ rat = "starting" /\ rat' = "reading" /\ out' = out
              /\ fpc' = IF fpc = "none" THEN "testing" ELSE fpc
           \/ /\ rat \notin {"opening", "starting"}
              /\ rat' \in {"reading", "writing", "flag", "fd", "ended"}
              /\ rat \in {"confirming", "refusing"} => ~link
              /\ UNCHANGED <<fpc, out>>
           \/ UNCHANGED <<rat, fpc, out>> /\ rat = "reading"
<1> USE DEF Tcp!baseVars, Tcp!ownVars
<1>1. CASE Tcp!Connect \/ Tcp!ConnectFails
  BY <1>1 DEF Tcp!Connect, Tcp!ConnectFails
<1>2. CASE Tcp!Answer
  BY <1>2 DEF Tcp!Answer, Tcp!Sent, Tcp!Raises
<1>3. CASE Tcp!StartReader
  BY <1>3 DEF Tcp!StartReader
<1>4. CASE Tcp!Write
  BY <1>4 DEF Tcp!Write, Tcp!Unwinds
<1>5. CASE Tcp!CloseFlag \/ Tcp!CloseSocket
  BY <1>5 DEF Tcp!CloseFlag, Tcp!CloseSocket, Tcp!Done
<1>6. CASE Tcp!RunEnds
  BY <1>6 DEF Tcp!RunEnds, Tcp!Unwinds
<1>7. CASE Tcp!DataArrives \/ Tcp!EofArrives \/ Tcp!CloseArrives
  BY <1>7 DEF Tcp!DataArrives, Tcp!EofArrives, Tcp!CloseArrives, Tcp!FrameArrives
<1> QED
  BY <1>1, <1>2, <1>3, <1>4, <1>5, <1>6, <1>7 DEF TcpReaderStep, Tcp!ReaderGoesOn

\* ... and leaves what the thread counts.
LEMMA TcpReaderKeeps ==
    ASSUME TcpReaderStep, inTable \in BOOLEAN, alive \in BOOLEAN, closed \in BOOLEAN, shut \in BOOLEAN,
           sock \in {"none", "open", "closed"}
    PROVE  /\ UNCHANGED <<link, peer, tcpWritten, tcpChunk, silent>>
           /\ inTable' \in BOOLEAN /\ alive' \in BOOLEAN
           /\ closed' \in BOOLEAN /\ shut' \in BOOLEAN
           /\ sock' \in {"none", "open", "closed"}
           /\ closed => closed'
           /\ rat' = "fd" => rat = "fd" \/ closed'
           /\ sock' = "closed" => sock = "closed" \/ rat = "fd"
<1> USE DEF Tcp!baseVars, Tcp!ownVars
<1>1. CASE Tcp!Connect \/ Tcp!ConnectFails
  BY <1>1 DEF Tcp!Connect, Tcp!ConnectFails
<1>2. CASE Tcp!Answer
  BY <1>2 DEF Tcp!Answer
<1>3. CASE Tcp!StartReader
  BY <1>3 DEF Tcp!StartReader
<1>4. CASE Tcp!Write
  BY <1>4 DEF Tcp!Write, Tcp!Unwinds
<1>5. CASE Tcp!CloseFlag \/ Tcp!CloseSocket
  BY <1>5 DEF Tcp!CloseFlag, Tcp!CloseSocket, Tcp!Done
<1>6. CASE Tcp!RunEnds
  BY <1>6 DEF Tcp!RunEnds, Tcp!Unwinds
<1>7. CASE Tcp!DataArrives \/ Tcp!EofArrives \/ Tcp!CloseArrives
  BY <1>7 DEF Tcp!DataArrives, Tcp!EofArrives, Tcp!CloseArrives, Tcp!FrameArrives
<1> QED
  BY <1>1, <1>2, <1>3, <1>4, <1>5, <1>6, <1>7 DEF TcpReaderStep, Tcp!ReaderGoesOn

\* The thread sends data, then one EOF, and one CLOSE if nobody was before it.
LEMMA TcpThreadPlaces ==
    ASSUME Tcp!ThreadGoesOn
    PROVE  /\ UNCHANGED <<rat, link, alive, shut, peer, tcpWritten>>
           /\ \/ fpc = "testing" /\ fpc' = "receiving" /\ UNCHANGED <<out, closed, silent, tcpChunk, sock>>
              \/ /\ fpc = "testing" /\ fpc' = "eof" /\ closed
                 /\ UNCHANGED <<out, closed, silent, tcpChunk, sock>>
              \/ /\ fpc = "receiving" /\ fpc' = "sending" /\ tcpChunk' = 1 /\ Tcp!Waiting > 0
                 /\ UNCHANGED <<out, closed, silent, sock>>
              \/ /\ fpc = "receiving" /\ fpc' = "eof"
                 /\ (peer = "done" /\ Tcp!Waiting = 0) \/ peer = "reset" \/ sock = "closed"
                 /\ UNCHANGED <<out, closed, silent, tcpChunk, sock>>
              \/ /\ fpc = "receiving" /\ fpc' = "eof" /\ silent' = TRUE
                 /\ UNCHANGED <<out, closed, tcpChunk, sock>>
              \/ /\ fpc = "sending" /\ fpc' = "testing" /\ tcpChunk' = 0
                 /\ out' = Append(out, "data") /\ UNCHANGED <<closed, silent, sock>>
              \/ /\ fpc = "sending" /\ fpc' = "eof" /\ tcpChunk' = 0 /\ ~link
                 /\ UNCHANGED <<out, closed, silent, sock>>
              \/ /\ fpc = "eof" /\ fpc' = "flag" /\ out' = Append(out, "eof")
                 /\ UNCHANGED <<closed, silent, tcpChunk, sock>>
              \/ /\ fpc = "eof" /\ fpc' = "ended"
                 /\ UNCHANGED <<out, closed, silent, tcpChunk, sock>>
              \/ /\ fpc = "flag" /\ fpc' \in {"ended", "fd"} /\ closed' = TRUE
                 /\ UNCHANGED <<out, silent, tcpChunk, sock>>
              \/ /\ fpc = "fd" /\ fpc' = "close" /\ sock' = "closed"
                 /\ UNCHANGED <<out, closed, silent, tcpChunk>>
              \/ /\ fpc = "close" /\ fpc' = "ended" /\ (out' = Append(out, "close") \/ out' = out)
                 /\ UNCHANGED <<closed, silent, tcpChunk, sock>>
           /\ inTable' \in {inTable, FALSE}
<1> USE DEF Tcp!baseVars, Tcp!ownVars, Tcp!Sent, Tcp!Raises
<1>1. CASE Tcp!Test
  BY <1>1 DEF Tcp!Test
<1>2. CASE Tcp!Receive \/ Tcp!ReceiveEnds \/ Tcp!TimesOut
  BY <1>2 DEF Tcp!Receive, Tcp!ReceiveEnds, Tcp!TimesOut
<1>3. CASE Tcp!Send
  BY <1>3 DEF Tcp!Send
<1>4. CASE Tcp!SendEof
  BY <1>4 DEF Tcp!SendEof
<1>5. CASE Tcp!EndFlag \/ Tcp!EndSocket
  BY <1>5 DEF Tcp!EndFlag, Tcp!EndSocket
<1>6. CASE Tcp!SendClose
  BY <1>6 DEF Tcp!SendClose
<1> QED
  BY <1>1, <1>2, <1>3, <1>4, <1>5, <1>6 DEF Tcp!ThreadGoesOn

\* The peer sends or goes, and the connection may fail.
LEMMA TcpOutside ==
    ASSUME Tcp!PeerSends \/ Tcp!PeerEnds \/ Tcp!LinkFails
    PROVE  /\ UNCHANGED <<inTable, alive, closed, rat, fpc, sock, shut, tcpChunk, out, silent>>
           /\ \/ peer = "up" /\ tcpWritten < MaxData /\ tcpWritten' = tcpWritten + 1 /\ UNCHANGED <<peer, link>>
              \/ peer # "reset" /\ peer' \in {"done", "reset"} /\ UNCHANGED <<tcpWritten, link>>
              \/ link' = FALSE /\ UNCHANGED <<peer, tcpWritten>>
  BY DEF Tcp!PeerSends, Tcp!PeerEnds, Tcp!LinkFails, Tcp!baseVars, Tcp!ownVars

LEMMA TcpStepsAre ==
    ASSUME Tcp!Next
    PROVE  \/ TcpReaderStep \/ Tcp!ThreadGoesOn
           \/ Tcp!PeerSends \/ Tcp!PeerEnds \/ Tcp!LinkFails
  BY DEF Tcp!Next, TcpReaderStep

\* Every step keeps the types.
LEMMA TcpNextTypes ==
    ASSUME TcpInv, Tcp!Next
    PROVE  Tcp!TypeOK'
<1>1. Tcp!TypeOK
  BY DEF TcpInv, TcpShape
<1>2. out \in Seq(TcpFrameTypes) /\ \A f \in TcpFrameTypes : Append(out, f) \in Seq(TcpFrameTypes)
  BY <1>1 DEF Tcp!TypeOK, TcpFrameTypes
<1>3. CASE TcpReaderStep
  <2>1. /\ inTable' \in BOOLEAN /\ alive' \in BOOLEAN
        /\ closed' \in BOOLEAN /\ shut' \in BOOLEAN
        /\ sock' \in {"none", "open", "closed"}
        /\ UNCHANGED <<link, peer, tcpWritten, tcpChunk, silent>>
    BY <1>1, <1>3, TcpReaderKeeps DEF Tcp!TypeOK
  <2>2. /\ out' \in Seq(TcpFrameTypes)
        /\ rat' \in {"confirming", "refusing", "starting", "reading", "writing", "flag",
                     "fd", "ended"}
        /\ fpc' \in {fpc, "testing"}
    BY <1>2, <1>3, TcpReaderPlaces DEF TcpFrameTypes
  <2> QED
    BY <1>1, <2>1, <2>2 DEF Tcp!TypeOK, TcpFrameTypes
<1>4. CASE Tcp!ThreadGoesOn
  <2>1. /\ UNCHANGED <<rat, link, alive, shut, peer, tcpWritten>> /\ inTable' \in {inTable, FALSE}
        /\ tcpChunk' \in {tcpChunk, 0, 1} /\ sock' \in {sock, "closed"}
        /\ fpc' \in {"testing", "receiving", "sending", "eof", "flag", "fd", "close", "ended"}
    BY <1>4, TcpThreadPlaces
  <2>2. closed' \in {closed, TRUE} /\ silent' \in {silent, TRUE}
    BY <1>4, TcpThreadPlaces
  <2>3. out' \in Seq(TcpFrameTypes)
    BY <1>2, <1>4, TcpThreadPlaces DEF TcpFrameTypes
  <2>4. inTable' \in BOOLEAN /\ closed' \in BOOLEAN /\ silent' \in BOOLEAN
    BY <1>1, <2>1, <2>2 DEF Tcp!TypeOK
  <2>5. tcpChunk' \in 0..1 /\ sock' \in {"none", "open", "closed"}
    BY <1>1, <2>1 DEF Tcp!TypeOK
  <2> QED
    BY <1>1, <2>1, <2>3, <2>4, <2>5 DEF Tcp!TypeOK, TcpFrameTypes
<1>5. CASE Tcp!PeerSends \/ Tcp!PeerEnds \/ Tcp!LinkFails
  <2>1. tcpWritten' = tcpWritten \/ (tcpWritten < MaxData /\ tcpWritten' = tcpWritten + 1)
    BY <1>5, TcpOutside
  <2>2. tcpWritten \in 0..MaxData
    BY <1>1 DEF Tcp!TypeOK
  <2>3. tcpWritten' \in 0..MaxData
    BY <2>1, <2>2, MaxDataAssumption
  <2>4. /\ UNCHANGED <<inTable, alive, closed, rat, fpc, sock, shut, tcpChunk, out, silent>>
        /\ link' \in {link, FALSE} /\ peer' \in {peer, "done", "reset"}
    BY <1>5, TcpOutside
  <2>5. link' \in BOOLEAN /\ peer' \in {"up", "done", "reset"}
    BY <1>1, <2>4 DEF Tcp!TypeOK
  <2> QED
    BY <1>1, <2>3, <2>4, <2>5 DEF Tcp!TypeOK
<1> QED
  BY <1>3, <1>4, <1>5, TcpStepsAre

\* What may be put behind what has been sent.
LEMMA TcpAppend ==
    ASSUME out \in Seq(TcpFrameTypes), TcpFramesInOrder, NEW f \in TcpFrameTypes,
           out' = Append(out, f),
           \/ out = <<>>
           \/ /\ f \in {"data", "eof"} /\ out # <<>> /\ Streaming
           \/ /\ f = "close" /\ Len(out) > 1 /\ out[1] = "confirm" /\ out[Len(out)] = "eof"
              /\ \A i \in 2..(Len(out) - 1) : out[i] = "data"
    PROVE  TcpFramesInOrder'
<1> DEFINE n == Len(out) + 1
<1>1. /\ DOMAIN out' = 1..n /\ DOMAIN out = 1..Len(out) /\ Len(out) \in Nat
      /\ out'[n] = f /\ \A i \in 1..Len(out) : out'[i] = out[i]
  OBVIOUS
<1>2. SUFFICES ASSUME NEW i \in 1..n, NEW j \in 1..n, i < j
               PROVE  /\ out'[i] \notin {"refuse", "close"}
                      /\ out'[i] = "eof" => out'[j] = "close"
                      /\ out'[j] \notin {"confirm", "refuse"}
                      /\ i = 1 => out'[i] = "confirm"
  BY <1>1 DEF TcpFramesInOrder, Tcp!TcpFramesInOrder
<1>3. CASE j # n
  BY <1>1, <1>2, <1>3 DEF TcpFramesInOrder, Tcp!TcpFramesInOrder
<1>4. CASE j = n
  <2>1. i \in 1..Len(out) /\ out'[i] = out[i] /\ out'[j] = f
    BY <1>1, <1>2, <1>4
  <2>2. CASE f \in {"data", "eof"} /\ Streaming
    BY <2>1, <2>2 DEF Streaming
  <2>3. CASE f = "close"
    BY <2>1, <2>3 DEF Streaming
  <2>4. out # <<>>
    BY <2>1
  <2> QED
    BY <2>2, <2>3, <2>4
<1> QED
  BY <1>3, <1>4

\* Every step keeps what has been sent in its order.
LEMMA TcpNextShape ==
    ASSUME TcpInv, Tcp!Next
    PROVE  TcpShape'
<1>0. /\ out \in Seq(TcpFrameTypes) /\ TcpShape /\ Tcp!TypeOK'
      /\ {"confirm", "refuse", "data", "eof", "close"} \subseteq TcpFrameTypes
  BY TcpNextTypes DEF TcpInv, TcpShape, Tcp!TypeOK, TcpFrameTypes
<1>1. TcpFramesInOrder'
  <2>1. CASE UNCHANGED out
    BY <1>0, <2>1 DEF TcpShape, TcpFramesInOrder, Tcp!TcpFramesInOrder
  <2>2. CASE TcpReaderStep
    <3>1. UNCHANGED out \/ (out = <<>> /\ (out' = Append(out, "confirm") \/ out' = Append(out, "refuse")))
      BY <1>0, <2>2, TcpReaderPlaces DEF TcpShape
    <3> QED
      BY <1>0, <2>1, <3>1, TcpAppend DEF TcpShape
  <2>3. CASE Tcp!ThreadGoesOn
    <3>1. \/ UNCHANGED out
          \/ /\ fpc \in {"sending", "eof"}
             /\ out' = Append(out, "data") \/ out' = Append(out, "eof")
          \/ fpc = "close" /\ out' = Append(out, "close")
      BY <2>3, TcpThreadPlaces
    <3> QED
      BY <1>0, <2>1, <3>1, TcpAppend DEF TcpShape
  <2> QED
    BY <2>1, <2>2, <2>3, TcpOutside, TcpStepsAre
<1>2. CASE TcpReaderStep
  <2>1. CASE /\ UNCHANGED <<fpc, out>>
             /\ \/ rat = "opening" /\ rat' \in {"confirming", "refusing"}
                \/ rat' \notin {"opening", "confirming", "refusing", "starting"}
    BY <1>0, <1>1, <2>1 DEF TcpShape, Streaming
  <2>2. CASE /\ fpc' = fpc /\ rat \in {"confirming", "refusing"} /\ rat' \in {"starting", "reading"}
             /\ \/ rat' = "starting" /\ out' = Append(out, "confirm")
                \/ rat' = "reading" /\ out' = Append(out, "refuse")
    <3>1. out = <<>> /\ fpc = "none" /\ fpc' = "none"
      BY <1>0, <2>2 DEF TcpShape
    <3>2. Len(out') = 1 /\ (rat' = "starting" => out' = <<"confirm">>)
      BY <2>2, <3>1
    <3> QED
      BY <1>0, <1>1, <2>2, <3>1, <3>2 DEF TcpShape
  <2>3. CASE rat = "starting" /\ rat' = "reading" /\ out' = out /\ fpc' = "testing"
    <3>1. out = <<"confirm">>
      BY <1>0, <2>3 DEF TcpShape
    <3>2. out' # <<>> /\ Streaming'
      BY <2>3, <3>1 DEF Streaming
    <3> QED
      BY <1>0, <1>1, <2>3, <3>2 DEF TcpShape
  <2> QED
    BY <1>2, <2>1, <2>2, <2>3, TcpReaderPlaces
<1>3. CASE Tcp!ThreadGoesOn
  <2>1. rat' = rat /\ fpc \notin {"none", "ended"} /\ fpc' # "none"
    BY <1>3, TcpThreadPlaces
  <2>2. rat \notin {"opening", "confirming", "refusing", "starting"}
    BY <1>0, <2>1 DEF TcpShape
  <2>3. fpc' \in {"testing", "receiving", "sending", "eof"} => out' # <<>> /\ Streaming'
    <3>1. CASE UNCHANGED out
      BY <1>0, <1>3, <3>1, TcpThreadPlaces DEF TcpShape, Streaming
    <3>2. CASE fpc = "sending" /\ out' = Append(out, "data")
      BY <1>0, <3>2 DEF TcpShape, Streaming
    <3> QED
      BY <1>3, <3>1, <3>2, TcpThreadPlaces
  <2>4. fpc' \in {"flag", "fd", "close"} =>
         /\ Len(out') > 1 /\ out'[1] = "confirm" /\ out'[Len(out')] = "eof"
         /\ \A i \in 2..(Len(out') - 1) : out'[i] = "data"
    <3>1. CASE fpc = "eof" /\ out' = Append(out, "eof")
      BY <1>0, <3>1 DEF TcpShape, Streaming
    <3>2. CASE fpc \in {"flag", "fd"} /\ UNCHANGED out
      BY <1>0, <3>2 DEF TcpShape
    <3> QED
      BY <1>3, <3>1, <3>2, TcpThreadPlaces
  <2> QED
    BY <1>0, <1>1, <2>1, <2>2, <2>3, <2>4 DEF TcpShape
<1>4. CASE Tcp!PeerSends \/ Tcp!PeerEnds \/ Tcp!LinkFails
  BY <1>0, <1>1, <1>4, TcpOutside DEF TcpShape, Streaming
<1> QED
  BY <1>2, <1>3, <1>4, TcpStepsAre

\* Every step keeps the count of what has been received and sent.
LEMMA TcpNextData ==
    ASSUME TcpInv, Tcp!Next
    PROVE  TcpData'
<1> DEFINE n == Tcp!Count("data")
<1>0. /\ out \in Seq(TcpFrameTypes) /\ TcpShape /\ TcpData /\ Tcp!TypeOK
      /\ tcpWritten \in Nat /\ tcpChunk \in {0, 1} /\ closed \in BOOLEAN
      /\ {"confirm", "refuse", "data", "eof", "close"} \subseteq TcpFrameTypes
  BY MaxDataAssumption DEF TcpInv, TcpShape, Tcp!TypeOK, TcpFrameTypes
<1>1. n \in Nat
  BY <1>0, CountIsNat
<1>2. UNCHANGED out => n' = n
  BY DEF Tcp!Count
<1>3. \A f \in TcpFrameTypes : out' = Append(out, f) =>
         n' = IF f = "data" THEN n + 1 ELSE n
  BY <1>0, <1>1, CountAppend
<1> HIDE DEF n
<1>4. CASE TcpReaderStep
  <2>1. /\ UNCHANGED <<link, peer, tcpWritten, tcpChunk, silent>>
        /\ closed => closed'
        /\ rat' = "fd" => rat = "fd" \/ closed'
        /\ sock' = "closed" => sock = "closed" \/ rat = "fd"
    BY <1>0, <1>4, TcpReaderKeeps DEF Tcp!TypeOK
  <2>2. n' = n
    BY <1>0, <1>2, <1>3, <1>4, TcpReaderPlaces
  <2>3. fpc' = fpc \/ (fpc = "none" /\ fpc' = "testing")
    BY <1>4, TcpReaderPlaces
  <2> QED
    BY <1>0, <2>1, <2>2, <2>3 DEF TcpData, n
<1>5. CASE Tcp!ThreadGoesOn
  <2>1. /\ UNCHANGED <<rat, link, peer, tcpWritten>>
    BY <1>5, TcpThreadPlaces
  <2>2. closed => closed'
    BY <1>5, TcpThreadPlaces
  <2>3. tcpChunk' + n' <= tcpWritten' /\ (tcpChunk' = 1 <=> fpc' = "sending")
    <3>1. CASE fpc = "sending" /\ fpc' = "testing" /\ tcpChunk' = 0 /\ out' = Append(out, "data")
      BY <1>0, <1>1, <1>3, <2>1, <3>1 DEF TcpData, n
    <3>2. CASE fpc = "sending" /\ fpc' = "eof" /\ tcpChunk' = 0 /\ UNCHANGED out
      BY <1>0, <1>1, <1>2, <2>1, <3>2 DEF TcpData, n
    <3>3. CASE fpc = "receiving" /\ fpc' = "sending" /\ tcpChunk' = 1 /\ Tcp!Waiting > 0
                 /\ UNCHANGED out
      BY <1>0, <1>1, <1>2, <2>1, <3>3 DEF TcpData, Tcp!Waiting, n
    <3>4. CASE fpc # "sending" /\ fpc' # "sending" /\ tcpChunk' = tcpChunk /\ n' = n
      BY <1>0, <1>1, <2>1, <3>4 DEF TcpData, n
    <3> QED
      BY <1>0, <1>2, <1>3, <1>5, <3>1, <3>2, <3>3, <3>4, TcpThreadPlaces
  <2>4. sock' = "closed" \/ rat' = "fd" \/ fpc' = "fd" => closed'
    BY <1>0, <1>5, <2>1, <2>2, TcpThreadPlaces DEF TcpData
  <2>5. fpc' = "eof" /\ link' /\ ~closed' /\ ~silent' /\ peer' # "reset" =>
         peer' = "done" /\ n' = tcpWritten'
    <3> SUFFICES ASSUME fpc' = "eof", link', ~closed', ~silent', peer' # "reset"
                 PROVE  peer' = "done" /\ n' = tcpWritten'
      OBVIOUS
    <3>1. fpc = "receiving" /\ peer = "done" /\ Tcp!Waiting = 0 /\ UNCHANGED out
      BY <1>0, <1>5, <2>1, <2>2, TcpThreadPlaces DEF TcpData
    <3>2. tcpChunk = 0
      BY <1>0, <3>1 DEF TcpData
    <3> QED
      BY <1>0, <1>1, <1>2, <2>1, <3>1, <3>2 DEF Tcp!Waiting, n
  <2> QED
    BY <2>3, <2>4, <2>5 DEF TcpData, n
<1>6. CASE Tcp!PeerSends \/ Tcp!PeerEnds \/ Tcp!LinkFails
  <2>1. UNCHANGED <<closed, rat, fpc, sock, tcpChunk, silent>> /\ n' = n
    BY <1>2, <1>6, TcpOutside
  <2>2. tcpWritten' >= tcpWritten /\ tcpWritten' \in Nat
    <3>1. tcpWritten' = tcpWritten \/ tcpWritten' = tcpWritten + 1
      BY <1>6, TcpOutside
    <3> QED
      BY <1>0, <3>1
  <2>3. link' /\ peer' # "reset" => \/ UNCHANGED <<tcpWritten, peer>> /\ link
                                    \/ peer = "up" /\ peer' = "up" /\ link
                                    \/ peer \in {"up", "done"} /\ peer' = "done" /\ UNCHANGED <<tcpWritten, link>>
    BY <1>0, <1>6, TcpOutside DEF Tcp!TypeOK
  <2> QED
    BY <1>0, <1>1, <2>1, <2>2, <2>3 DEF TcpData, n
<1> QED
  BY <1>4, <1>5, <1>6, TcpStepsAre

\* What the reader and the thread leave to each other is done by one of them.
LEMMA TcpNextCloser ==
    ASSUME TcpInv, Tcp!Next
    PROVE  TcpCloser'
<1> USE DEF TcpCloser, Tcp!TcpEndIsTold, Tcp!baseVars, Tcp!ownVars
<1>0. /\ TcpCloser
      /\ rat = "opening" => fpc = "none"
  BY DEF TcpInv, TcpShape
<1>1. CASE Tcp!Connect \/ Tcp!ConnectFails \/ Tcp!Answer \/ Tcp!StartReader
  BY <1>0, <1>1 DEF Tcp!Connect, Tcp!ConnectFails, Tcp!Answer, Tcp!StartReader
<1>2. CASE Tcp!Write \/ Tcp!RunEnds \/ Tcp!DataArrives \/ Tcp!EofArrives \/ Tcp!CloseArrives
  BY <1>0, <1>2 DEF Tcp!Write, Tcp!RunEnds, Tcp!Unwinds, Tcp!DataArrives, Tcp!EofArrives,
     Tcp!CloseArrives, Tcp!FrameArrives
<1>3. CASE Tcp!CloseFlag \/ Tcp!CloseSocket
  BY <1>0, <1>3 DEF Tcp!CloseFlag, Tcp!CloseSocket, Tcp!Done
<1>4. CASE Tcp!Test \/ Tcp!Receive \/ Tcp!ReceiveEnds \/ Tcp!TimesOut \/ Tcp!Send
  BY <1>0, <1>4 DEF Tcp!Test, Tcp!Receive, Tcp!ReceiveEnds, Tcp!TimesOut, Tcp!Send, Tcp!Sent,
     Tcp!Raises
<1>5. CASE Tcp!SendEof \/ Tcp!EndFlag \/ Tcp!EndSocket \/ Tcp!SendClose
  BY <1>0, <1>5 DEF Tcp!SendEof, Tcp!EndFlag, Tcp!EndSocket, Tcp!SendClose, Tcp!Sent, Tcp!Raises
<1>6. CASE Tcp!PeerSends \/ Tcp!PeerEnds \/ Tcp!LinkFails
  BY <1>0, <1>6 DEF Tcp!PeerSends, Tcp!PeerEnds, Tcp!LinkFails
<1> QED
  BY <1>1, <1>2, <1>3, <1>4, <1>5, <1>6 DEF Tcp!Next, Tcp!ReaderGoesOn, Tcp!ThreadGoesOn

\* Every step of a TCP channel keeps its invariant.
LEMMA TcpNextInv == TcpInv /\ Tcp!Next => TcpInv'
  BY TcpNextShape, TcpNextData, TcpNextCloser DEF TcpInv

\* ... and so does what leaves its variables alone.
LEMMA TcpStutters ==
    ASSUME TcpInv, UNCHANGED <<ownTcpVars, inTable, link, alive, closed>>
    PROVE  TcpInv'
<1> USE DEF ownTcpVars
<1>1. TcpShape'
  BY DEF TcpInv, TcpShape, Tcp!TypeOK, Streaming, TcpFramesInOrder, Tcp!TcpFramesInOrder
<1>2. TcpData'
  BY DEF TcpInv, TcpData, Tcp!Count
<1>3. TcpCloser'
  BY DEF TcpInv, TcpCloser, Tcp!TcpEndIsTold
<1> QED
  BY <1>1, <1>2, <1>3 DEF TcpInv

-----------------------------------------------------------------------------
(* A channel of either type *)

\* what a channel keeps, and that it has begun nothing of the other type
CInv ==
    \/ kind = "session" /\ IInv /\ Tcp!OwnInit
    \/ kind = "direct-tcpip" /\ TcpInv /\ at["waiter"] = "none" /\ closes = 0

\* The initial state satisfies it.
LEMMA ChannelInitInv == ChannelInit => CInv
<1> SUFFICES ASSUME ChannelInit PROVE CInv
  OBVIOUS
<1>1. CASE kind = "session"
  <2>1. Init
    BY <1>1 DEF ChannelInit, Init
  <2> QED
    BY <1>1, <2>1, InitIInv DEF ChannelInit, CInv
<1>2. CASE kind = "direct-tcpip"
  <2>1. TcpInv
    BY <1>2, TcpInitInv DEF ChannelInit
  <2> QED
    BY <1>2, <2>1 DEF ChannelInit, CInv, OwnInit, Threads
<1> QED
  BY <1>1, <1>2 DEF ChannelInit

\* Every step keeps it.
LEMMA ChannelNextInv == CInv /\ [ChannelNext]_allVars => CInv'
<1> SUFFICES ASSUME CInv, [ChannelNext]_allVars PROVE CInv'
  OBVIOUS
<1>1. CASE kind = "session"
  <2>1. IInv /\ Tcp!OwnInit
    BY <1>1 DEF CInv
  <2>2. kind' = kind /\ UNCHANGED ownTcpVars /\ [Next]_vars
    BY <1>1 DEF ChannelNext, OfSession, OfTcp, allVars
  <2>3. IInv'
    BY <2>1, <2>2, NextIInv
  <2>4. Tcp!OwnInit'
    BY <2>1, <2>2 DEF Tcp!OwnInit, ownTcpVars
  <2> QED
    BY <1>1, <2>2, <2>3, <2>4 DEF CInv
<1>2. CASE kind = "direct-tcpip"
  <2>1. TcpInv /\ at["waiter"] = "none" /\ closes = 0
    BY <1>2 DEF CInv
  <2>2. CASE OfTcp /\ Tcp!Next
    <3>1. kind' = kind /\ at' = at /\ closes' = closes
      BY <2>2 DEF OfTcp, ownSessionVars
    <3> QED
      BY <1>2, <2>1, <2>2, <3>1, TcpNextInv DEF CInv
  <2>3. CASE UNCHANGED allVars
    <3>1. kind' = kind /\ at' = at /\ closes' = closes /\ UNCHANGED <<ownTcpVars, inTable, link, alive, closed>>
      BY <2>3 DEF allVars, vars, chanVars
    <3> QED
      BY <1>2, <2>1, <3>1, TcpStutters DEF CInv
  <2> QED
    BY <1>2, <2>2, <2>3 DEF ChannelNext, OfSession
<1> QED
  BY <1>1, <1>2 DEF CInv

\* It holds in every reachable state.
LEMMA ChannelInvariance == ChannelSpec => []CInv
  BY ChannelInitInv, ChannelNextInv, PTL DEF ChannelSpec

\* The relay sees a TCP channel's frames in their order, whatever the reader and
\* the thread of the socket do at once (client.py:232-248, 528-552).
THEOREM TcpFramesAreOrdered == ChannelSpec => []TcpFramesInOrder
<1>1. CInv => TcpFramesInOrder
  BY DEF CInv, TcpInv, TcpShape, Tcp!OwnInit, TcpFramesInOrder, Tcp!TcpFramesInOrder
<1> QED
  BY ChannelInvariance, <1>1, PTL

\* What the invariant says of a thread that is about to send EOF.
LEMMA ReceivedIsSent == CInv => PeerDataBeforeEof
<1> SUFFICES ASSUME CInv PROVE PeerDataBeforeEof
  OBVIOUS
<1>1. CASE kind = "session"
  BY <1>1 DEF CInv, Tcp!OwnInit, PeerDataBeforeEof, Tcp!PeerDataBeforeEof
<1>2. CASE TcpInv
  BY <1>2 DEF TcpInv, TcpData, PeerDataBeforeEof, Tcp!PeerDataBeforeEof
<1> QED
  BY <1>1, <1>2 DEF CInv

\* When EOF is sent for a TCP channel that nobody has closed, over a connection
\* that works, the relay has all the peer sent, unless the peer reset the
\* connection or was silent for 30 seconds (client.py:509, 543-551).
THEOREM TcpEofIsBehindData == ChannelSpec => []PeerDataBeforeEof
  BY ChannelInvariance, ReceivedIsSent, PTL

\* Every variable of a TCP channel keeps its type (client.py:497-507).
THEOREM TcpTypeCorrect == ChannelSpec => []Tcp!TypeOK
<1>1. CInv => Tcp!TypeOK
  <2> SUFFICES ASSUME CInv PROVE Tcp!TypeOK
    OBVIOUS
  <2>1. CASE kind = "session"
    <3>1. Tcp!OwnInit /\ inTable \in BOOLEAN /\ link \in BOOLEAN /\ alive \in BOOLEAN
          /\ closed \in BOOLEAN
      BY <2>1 DEF CInv, IInv, TypeOK
    <3>2. out \in Seq({"confirm", "refuse", "data", "eof", "close"})
      BY <3>1 DEF Tcp!OwnInit
    <3>3. tcpWritten \in 0..MaxData /\ tcpChunk \in 0..1
      BY <3>1, MaxDataAssumption DEF Tcp!OwnInit
    <3> QED
      BY <3>1, <3>2, <3>3 DEF Tcp!TypeOK, Tcp!OwnInit
  <2>2. CASE TcpInv
    BY <2>2 DEF TcpInv, TcpShape
  <2> QED
    BY <2>1, <2>2 DEF CInv
<1> QED
  BY ChannelInvariance, <1>1, PTL

\* A session keeps both of its properties beside the TCP channels, with which it
\* shares the table, the flag and the connection (client.py:232-248, 348-369,
\* 482-489).
THEOREM SessionsAreKept == ChannelSpec => [](OneClose /\ OutputBeforeEof)
<1>1. CInv => OneClose /\ OutputBeforeEof
  <2> SUFFICES ASSUME CInv PROVE OneClose /\ OutputBeforeEof
    OBVIOUS
  <2>1. CASE IInv
    BY <2>1, JoinedIsSent DEF IInv, OneCloser, OneClose
  <2>2. CASE at["waiter"] = "none" /\ closes = 0
    BY <2>2 DEF OneClose, OutputBeforeEof
  <2> QED
    BY <2>1, <2>2 DEF CInv
<1> QED
  BY ChannelInvariance, <1>1, PTL

\* As long as run() goes on over a connection that works, a channel of either type
\* that ends is told to the relay, whichever of its threads ends it and however they
\* meet (client.py:229-230, 348-369, 482-496, 528-552).
THEOREM EndsAreTold == ChannelSpec => []EndIsTold
<1>1. CInv => EndIsTold
  BY DEF CInv, IInv, ClosersKnown, TcpInv, TcpCloser, EndIsTold
<1> QED
  BY ChannelInvariance, <1>1, PTL
===============================================================================
