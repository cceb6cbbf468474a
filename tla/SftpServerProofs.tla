--------------------------- MODULE SftpServerProofs ---------------------------
(***************************************************************************)
(* Proofs about SftpServer: the answers implement ReplyQueue, and what an  *)
(* OPEN creates, what READ returns, what the end of the channel leaves and *)
(* what listings tell, for all sizes, flags and bounds.                    *)
(***************************************************************************)
EXTENDS SftpServer, FiniteSetTheorems, SequenceTheorems, TLAPS

\* the packets in the buffer are packets that were asked
PacketsAreAsked ==
    /\ asked \in Nat /\ taken \in Nat /\ fed \in Nat
    /\ 2 * taken <= fed /\ fed <= 2 * asked

\* Between requests all of them are answered, and while one is being handled all
\* but that one.
AnsweredSoFar ==
    /\ replies \in Seq(Nat)
    /\ at \in {"idle", "feeding"} => Len(replies) = taken
    /\ at \in {"exists", "excl", "open", "listing"} => Len(replies) + 1 = taken
    /\ Len(replies) <= taken

\* What an OPEN that is being handled has seen of the path.
MissingIsNoticed ==
    /\ OpenUnderWay => op \in [kind : {"open"}, flags : SUBSET Flags,
                               mode : {"r+b", "wb", "ab", "rb", "w+b"}]
    /\ OpenUnderWay /\ inode = NoFile => missing
    /\ OpenUnderWay /\ op.mode = "w+b" => missing
    /\ at = "open" /\ "EXCL" \in op.flags => missing

QInv == PacketsAreAsked /\ AnsweredSoFar

-----------------------------------------------------------------------------
(* The answers *)

Replied == Queue!Reply \/ UNCHANGED <<asked, replies>>

\* A request that is answered, or whose answer cannot be sent.
LEMMA TakesKeeps ==
    ASSUME QInv, Takes, Answers(taken')
    PROVE  QInv' /\ Replied
<1>1. /\ taken' = taken + 1 /\ asked' = asked /\ fed' = fed /\ at = "feeding"
      /\ fed >= 2 * taken + 2
  BY DEF Takes, WholePacket
<1>2. PacketsAreAsked'
  BY <1>1 DEF QInv, PacketsAreAsked
<1>3. Len(replies) = taken /\ taken < asked /\ replies \in Seq(Nat) /\ taken \in Nat
  BY <1>1 DEF QInv, AnsweredSoFar, PacketsAreAsked
<1>4. CASE replies' = Append(replies, taken') /\ at' = "feeding"
  BY <1>1, <1>2, <1>3, <1>4 DEF QInv, AnsweredSoFar, Replied, Queue!Reply
<1>5. CASE replies' = replies /\ at' = "closing_again"
  BY <1>1, <1>2, <1>3, <1>5 DEF QInv, AnsweredSoFar, Replied
<1> QED
  BY <1>4, <1>5 DEF Answers

\* One that takes more than one step: it is begun,
LEMMA BeginsKeeps ==
    ASSUME QInv, Takes, replies' = replies,
           at' \in {"exists", "excl", "open", "listing", "closing_again"}
    PROVE  QInv' /\ Replied
<1>1. /\ taken' = taken + 1 /\ asked' = asked /\ fed' = fed /\ at = "feeding"
      /\ fed >= 2 * taken + 2
  BY DEF Takes, WholePacket
<1>2. Len(replies) = taken /\ taken \in Nat
  BY <1>1 DEF QInv, AnsweredSoFar, PacketsAreAsked
<1> QED
  BY <1>1, <1>2 DEF QInv, PacketsAreAsked, AnsweredSoFar, Replied

\* ... goes on,
LEMMA GoesOnKeeps ==
    ASSUME QInv, UNCHANGED <<streamVars, replies>>,
           at \in {"exists", "excl", "listing"},
           at' \in {"exists", "excl", "open", "listing"}
    PROVE  QInv' /\ Replied
  BY DEF QInv, PacketsAreAsked, AnsweredSoFar, Replied, streamVars

\* ... and is answered.
LEMMA AnswersKeeps ==
    ASSUME QInv, UNCHANGED streamVars, Answers(taken),
           at \in {"exists", "excl", "open", "listing"}
    PROVE  QInv' /\ Replied
<1>1. PacketsAreAsked'
  BY DEF QInv, PacketsAreAsked, streamVars
<1>2. Len(replies) + 1 = taken /\ replies \in Seq(Nat) /\ taken' = taken
      /\ taken \in Nat /\ taken <= asked /\ asked' = asked /\ asked \in Nat
  BY DEF QInv, AnsweredSoFar, PacketsAreAsked, streamVars
<1>3. CASE replies' = Append(replies, taken) /\ at' = "feeding"
  BY <1>1, <1>2, <1>3 DEF QInv, AnsweredSoFar, Replied, Queue!Reply
<1>4. CASE replies' = replies /\ at' = "closing_again"
  BY <1>1, <1>2, <1>4 DEF QInv, AnsweredSoFar, Replied
<1> QED
  BY <1>3, <1>4 DEF Answers

\* Nothing is taken and nothing answered.
LEMMA OthersKeep ==
    ASSUME QInv, UNCHANGED <<streamVars, replies>>,
           at' = at \/ at' \notin {"feeding", "exists", "excl", "open", "listing"},
           at' = "idle" => at \in {"idle", "feeding"}
    PROVE  QInv' /\ Replied
  BY DEF QInv, PacketsAreAsked, AnsweredSoFar, Replied, streamVars

\* Every step is one of the queue, or changes nothing in it.
LEMMA QueueStep ==
    ASSUME QInv, [Next]_vars
    PROVE  QInv' /\ (Queue!Ask \/ Replied)
<1>1. CASE Ask
  BY <1>1 DEF Ask, QInv, PacketsAreAsked, AnsweredSoFar, Queue!Ask
<1>2. CASE Feed
  <2>1. fed' \in fed + 1..2 * asked /\ asked' = asked /\ taken' = taken
        /\ fed' \in Nat /\ replies' = replies /\ at = "idle" /\ at' = "feeding"
    BY <1>2 DEF Feed, QInv, PacketsAreAsked
  <2> QED
    BY <2>1 DEF QInv, PacketsAreAsked, AnsweredSoFar, Replied
<1>3. CASE FeedReturns
  BY <1>3, OthersKeep DEF FeedReturns
<1>4. CASE Handling
  <2>1. CASE Unreadable
    BY <2>1, BeginsKeeps DEF Unreadable
  <2>2. CASE PlainRequest \/ RemovePath \/ Opendir
    BY <2>2, TakesKeeps DEF PlainRequest, RemovePath, Opendir
  <2>3. CASE \E flags \in FlagSets : Open(flags)
    BY <2>3, BeginsKeeps DEF Open, Excludes
  <2>4. CASE OpenLooks
    BY <2>4, GoesOnKeeps DEF OpenLooks, Excludes
  <2>5. CASE OpenExcludes
    BY <2>5, GoesOnKeeps, AnswersKeeps DEF OpenExcludes
  <2>6. CASE OpenOpens \/ OpenFails
    BY <2>6, AnswersKeeps DEF OpenOpens, OpenFails
  <2>7. CASE \E h \in Handles :
               Read(h) \/ SeekOnly(h) \/ Write(h) \/ WriteFails(h) \/ Close(h)
    BY <2>7, TakesKeeps DEF Read, SeekOnly, Write, WriteFails, Close
  <2>8. CASE \E h \in Handles : Readdir(h)
    BY <2>8, TakesKeeps, BeginsKeeps DEF Readdir
  <2>9. CASE ListEntry
    BY <2>9, GoesOnKeeps, AnswersKeeps DEF ListEntry
  <2>10. CASE ListSend
    BY <2>10, AnswersKeeps DEF ListSend
  <2> QED
    BY <1>4, <2>1, <2>2, <2>3, <2>4, <2>5, <2>6, <2>7, <2>8, <2>9, <2>10 DEF Handling
<1>5. CASE EofArrives \/ CloseArrives
  BY <1>5, OthersKeep DEF EofArrives, CloseArrives
<1>6. CASE Closing
  BY <1>6, OthersKeep DEF Closing, CloseNext, CloseRaises, CloseEnds
<1>7. CASE OutsideWrites \/ OutsideRemoves \/ OutsideLists
  BY <1>7, OthersKeep DEF OutsideWrites, OutsideRemoves, OutsideLists, Outside
<1>8. CASE UNCHANGED vars
  BY <1>8, OthersKeep DEF vars
<1> QED
  BY <1>1, <1>2, <1>3, <1>4, <1>5, <1>6, <1>7, <1>8 DEF Next

\* Whatever the sizes, every request is answered at most once, and in order: the
\* server implements ReplyQueue (sftp.py:103-182).
THEOREM ServerImplementsQueue == Spec => AnswersInOrder
<1>1. Init => QInv /\ Queue!QueueInit
  BY DEF Init, QInv, PacketsAreAsked, AnsweredSoFar, Queue!QueueInit
<1>2. QInv /\ [Next]_vars => QInv' /\ [Queue!Ask \/ Queue!Reply]_(Queue!queueVars)
  BY QueueStep DEF Replied, Queue!queueVars
<1> QED
  BY <1>1, <1>2, PTL DEF Spec, AnswersInOrder, Queue!QueueSpec

-----------------------------------------------------------------------------
(* OPEN *)

\* Steps that leave the path and the request alone.
LEMMA MissingKept ==
    ASSUME MissingIsNoticed, UNCHANGED <<op, inode, missing>>, at' = at
    PROVE  MissingIsNoticed'
  BY DEF MissingIsNoticed, OpenUnderWay

LEMMA MissingStep ==
    ASSUME MissingIsNoticed, [Next]_vars
    PROVE  MissingIsNoticed'
<1>1. CASE at' \notin {"exists", "excl", "open"}
  BY <1>1 DEF MissingIsNoticed, OpenUnderWay
<1>2. CASE \E flags \in FlagSets : Open(flags)
  <2> PICK flags \in FlagSets : Open(flags)
    BY <1>2
  <2>1. flags \in SUBSET Flags
    BY SftpAssumption
  <2>2. ModeFor(flags) \in {"r+b", "wb", "ab", "rb"}
    BY DEF ModeFor
  <2>3. /\ op' = [kind |-> "open", flags |-> flags, mode |-> ModeFor(flags)]
        /\ missing' = (inode = NoFile) /\ inode' = inode
        /\ at' \in {"exists", "excl", "open"}
        /\ at' = "open" => "EXCL" \notin flags
    BY DEF Open, Excludes, fsVars
  <2> QED
    BY <2>1, <2>2, <2>3 DEF MissingIsNoticed, OpenUnderWay
<1>3. CASE OpenLooks
  <2>1. op \in [kind : {"open"}, flags : SUBSET Flags,
                mode : {"r+b", "wb", "ab", "rb", "w+b"}]
    BY <1>3 DEF OpenLooks, MissingIsNoticed, OpenUnderWay
  <2>2. /\ op' \in [kind : {"open"}, flags : SUBSET Flags,
                    mode : {"r+b", "wb", "ab", "rb", "w+b"}]
        /\ op'.flags = op.flags
    BY <1>3, <2>1 DEF OpenLooks
  <2>3. at' = "open" => "EXCL" \notin op.flags
    BY <1>3 DEF OpenLooks, Excludes
  <2>4. inode' = inode /\ missing' = missing /\ at = "exists"
    BY <1>3 DEF OpenLooks, fsVars, historyVars
  <2>5. inode = NoFile => missing
    BY <2>4 DEF MissingIsNoticed, OpenUnderWay
  <2>6. CASE inode = NoFile
    BY <2>2, <2>3, <2>4, <2>5, <2>6 DEF MissingIsNoticed, OpenUnderWay
  <2>7. CASE inode # NoFile
    <3>1. op' = op
      BY <1>3, <2>1, <2>7 DEF OpenLooks
    <3> QED
      BY <2>2, <2>3, <2>4, <2>7, <3>1 DEF MissingIsNoticed, OpenUnderWay
  <2> QED
    BY <2>6, <2>7
<1>4. CASE OpenExcludes
  BY <1>1, <1>4 DEF OpenExcludes, MissingIsNoticed, OpenUnderWay, Answers, fsVars,
                    historyVars
<1>5. CASE OutsideWrites
  BY <1>5 DEF OutsideWrites, Outside, MissingIsNoticed, OpenUnderWay
<1>6. CASE OutsideRemoves
  BY <1>6 DEF OutsideRemoves, Outside, MissingIsNoticed, OpenUnderWay
<1>7. CASE OutsideLists
  BY <1>7, MissingKept DEF OutsideLists, Outside
<1>8. CASE Ask
  BY <1>8, MissingKept DEF Ask, fsVars, historyVars
<1>9. CASE UNCHANGED vars
  BY <1>9, MissingKept DEF vars, fsVars, historyVars
<1>10. ASSUME ~(Ask \/ (\E flags \in FlagSets : Open(flags)) \/ OpenLooks \/ OpenExcludes
                \/ OutsideWrites \/ OutsideRemoves \/ OutsideLists), Next
       PROVE  at' \notin {"exists", "excl", "open"}
  BY <1>10 DEF Next, Handling, Closing, Feed, FeedReturns, Unreadable, PlainRequest,
       RemovePath, Opendir, OpenOpens, OpenFails, Read, SeekOnly, Write, WriteFails,
       Close, Readdir, ListEntry, ListSend, EofArrives, CloseArrives, CloseNext,
       CloseRaises, CloseEnds, Answers
<1> QED
  BY <1>1, <1>2, <1>3, <1>4, <1>5, <1>6, <1>7, <1>8, <1>9, <1>10

\* What is opened with w+b, which empties the file, or though it had to be
\* absent, was absent at some time while the OPEN was handled (sftp.py:251-255).
THEOREM OpensOnlyWhatWasMissing == Spec => OpensWhatWasMissing
<1>1. Init => MissingIsNoticed
  BY DEF Init, MissingIsNoticed, OpenUnderWay
<1>2. MissingIsNoticed /\ [Next]_vars => MissingIsNoticed'
  BY MissingStep
<1>3. ASSUME MissingIsNoticed
      PROVE  at = "open" /\ nextHandle' # nextHandle
                /\ (op.mode = "w+b" \/ "EXCL" \in op.flags) => missing
  BY <1>3 DEF MissingIsNoticed, OpenUnderWay
<1> QED
  BY <1>1, <1>2, <1>3, PTL DEF Spec, OpensWhatWasMissing

-----------------------------------------------------------------------------
(* The end of the channel *)

\* No file is stuck before close() is called, the one that was is off the table when
\* it is called again, and after an EOF it has to be called twice to fail for good.
StuckInv ==
    /\ DOMAIN handles = Handles
    /\ at \notin {"closing", "closing_again", "failed", "ended"} => stuck = {} /\ ~eof
    /\ at = "closing" => stuck = {}
    /\ at = "closing_again" => /\ \A h \in stuck \cap Handles : handles[h] = NoHandle
                               /\ eof => \E g \in Handles : g \in stuck
    /\ at = "failed" => /\ stuck # {}
                        /\ eof => \E g, h \in stuck : g # h
    /\ at = "ended" => \A h \in Handles : handles[h] = NoHandle

\* Steps before the end, and one into it.
LEMMA StuckBefore ==
    ASSUME StuckInv, at \notin {"closing", "closing_again", "failed", "ended"},
           UNCHANGED endVars, at' \notin {"closing", "failed", "ended"},
           DOMAIN handles' = DOMAIN handles
    PROVE  StuckInv'
  BY DEF StuckInv, endVars

\* Steps of others.
LEMMA StuckKept ==
    ASSUME StuckInv, UNCHANGED <<at, handles, endVars>>
    PROVE  StuckInv'
  BY DEF StuckInv, endVars

LEMMA StuckStep ==
    ASSUME StuckInv, [Next]_vars
    PROVE  StuckInv'
<1>1. CASE Handling \/ Feed \/ FeedReturns \/ CloseArrives
  <2>1. at \notin {"closing", "closing_again", "failed", "ended"} /\ UNCHANGED endVars
    BY <1>1 DEF Handling, Feed, FeedReturns, CloseArrives, Unreadable, PlainRequest, RemovePath,
       Opendir, Open, OpenLooks, OpenExcludes, OpenOpens, OpenFails, Read, SeekOnly, Write,
       WriteFails, Close, Readdir, ListEntry, ListSend, Takes, historyVars
  <2>2. at' \notin {"closing", "failed", "ended"}
    BY <1>1, <2>1 DEF Handling, Feed, FeedReturns, CloseArrives, Unreadable, PlainRequest,
       RemovePath, Opendir, Open, OpenLooks, OpenExcludes, OpenOpens, OpenFails, Read, SeekOnly,
       Write, WriteFails, Close, Readdir, ListEntry, ListSend, Excludes, Answers
  <2>3. DOMAIN handles' = DOMAIN handles
    <3>1. CASE Feed \/ FeedReturns \/ CloseArrives \/ Unreadable \/ PlainRequest \/ RemovePath
               \/ (\E flags \in FlagSets : Open(flags)) \/ OpenLooks \/ OpenExcludes \/ OpenFails
      BY <3>1 DEF Feed, FeedReturns, CloseArrives, Unreadable, PlainRequest, RemovePath, Open,
         OpenLooks, OpenExcludes, OpenFails, tableVars
    <3>2. CASE Opendir \/ OpenOpens
      BY <3>2 DEF Opendir, OpenOpens, Opened, Gives
    <3>3. CASE \E h \in Handles : Read(h) \/ SeekOnly(h) \/ Write(h) \/ WriteFails(h) \/ Close(h)
                                  \/ Readdir(h)
      BY <3>3 DEF Read, SeekOnly, Write, WriteFails, Close, Drops, DropFails, Readdir
    <3>4. CASE ListEntry \/ ListSend
      BY <3>4 DEF ListEntry, ListSend
    <3> QED
      BY <1>1, <3>1, <3>2, <3>3, <3>4 DEF Handling
  <2> QED
    BY <2>1, <2>2, <2>3, StuckBefore
<1>2. CASE EofArrives
  BY <1>2 DEF EofArrives, StuckInv, tableVars
<1>3. CASE CloseNext
  <2>1. PICK h \in Handles : handles' = [handles EXCEPT ![h] = NoHandle]
    BY <1>3 DEF CloseNext, Drops
  <2>2. DOMAIN handles' = Handles /\ \A g \in Handles : handles'[g] \in {handles[g], NoHandle}
    BY <2>1 DEF StuckInv
  <2> QED
    BY <1>3, <2>2 DEF CloseNext, StuckInv, endVars
<1>4. CASE CloseRaises
  <2>1. PICK h \in Handles : First(h) /\ DropFails(h) /\ stuck' = stuck \cup {h}
    BY <1>4 DEF CloseRaises
  <2>2. /\ handles' = [handles EXCEPT ![h] = NoHandle] /\ handles[h] # NoHandle /\ eof' = eof
        /\ at \in {"closing", "closing_again"}
        /\ at' = IF at = "closing" THEN "closing_again" ELSE "failed"
    BY <1>4, <2>1 DEF CloseRaises, First, DropFails
  <2>3. DOMAIN handles' = Handles /\ handles'[h] = NoHandle
    BY <2>2 DEF StuckInv
  <2>4. CASE at = "closing"
    BY <2>1, <2>2, <2>3, <2>4 DEF StuckInv
  <2>5. CASE at = "closing_again"
    <3>1. ASSUME eof PROVE \E g \in stuck : g # h
      BY <2>2, <2>5, <3>1 DEF StuckInv
    <3> QED
      BY <2>1, <2>2, <2>3, <2>5, <3>1 DEF StuckInv
  <2> QED
    BY <2>2, <2>4, <2>5
<1>5. CASE CloseEnds
  BY <1>5 DEF CloseEnds, StuckInv, tableVars
<1>6. CASE Ask \/ OutsideWrites \/ OutsideRemoves \/ OutsideLists \/ UNCHANGED vars
  BY <1>6, StuckKept DEF Ask, OutsideWrites, OutsideRemoves, OutsideLists, Outside, vars,
     tableVars, historyVars
<1> QED
  BY <1>1, <1>2, <1>3, <1>4, <1>5, <1>6 DEF Next, Closing

\* Files are left open only by files that cannot be flushed: by two of them when an
\* EOF ended the channel, by one when something else did, for any number of handles
\* (sftp.py:113-115, 193-196; client.py:342-345, 348-355, 207-210).
THEOREM OneStuckFileIsPassed == Spec => []StuckFileIsPassed
<1>1. Init => StuckInv
  BY DEF Init, StuckInv
<1>2. StuckInv /\ [Next]_vars => StuckInv'
  BY StuckStep
<1>3. StuckInv => StuckFileIsPassed
  BY DEF StuckInv, StuckFileIsPassed
<1> QED
  BY <1>1, <1>2, <1>3, PTL DEF Spec

-----------------------------------------------------------------------------
(* Files *)

IsFile(h) == handles[h].kind = "file"
FileShape(x) ==
    x = [kind |-> "file", inode |-> x.inode, reads |-> x.reads, writes |-> x.writes,
         cache |-> x.cache, dirty |-> x.dirty]
DirShape(x) ==
    x = [kind |-> "dir", entries |-> x.entries, offset |-> x.offset, told |-> x.told,
         bad |-> x.bad]

\* the table of handles, and the files its handles lead to
TableInv ==
    /\ DOMAIN handles = Handles /\ handles = [h \in Handles |-> handles[h]]
    /\ nextHandle \in Nat \ {0}
    /\ \A h \in Handles :
         /\ handles[h].kind \in {"none", "file", "dir"}
         /\ handles[h].kind = "none" => handles[h] = NoHandle
         /\ handles[h].kind = "dir" => DirShape(handles[h])
         /\ IsFile(h) => FileShape(handles[h]) /\ handles[h].inode \in Inodes
         /\ h >= nextHandle => handles[h] = NoHandle

FilesInv ==
    /\ content = [i \in Inodes |-> content[i]]
    /\ fresh = [h \in Handles |-> fresh[h]]
    /\ inode \in Inodes \cup {NoFile}
    /\ \A h \in Handles : IsFile(h) =>
         /\ content[handles[h].inode] \in fresh[h]
         /\ handles[h].cache # NoValue => handles[h].cache \in fresh[h]

UnderWayInv ==
    /\ OpenUnderWay => got = GotNothing /\ nextHandle \in Handles
    /\ at = "listing" =>
         /\ op.handle \in Handles /\ handles[op.handle].kind = "dir"
         /\ op = [kind |-> "readdir", handle |-> op.handle, announced |-> op.announced,
                  batch |-> op.batch, told |-> op.told]

GotInv == got.handle \in {0} \cup Handles

FInv == TableInv /\ FilesInv /\ UnderWayInv /\ GotInv /\ AckedIsWritten /\ ReadsAreCurrent

\* There is an inode that no handle has: there is one more of them than handles,
\* and the path's own counts only while a handle is free.
LEMMA UnusedInodeIsOne ==
    ASSUME TableInv, inode \in Inodes \cup {NoFile},
           inode = NoFile \/ \E k \in Handles : ~IsFile(k)
    PROVE  /\ UnusedInode \in Inodes /\ UnusedInode # inode
           /\ \A h \in Handles : IsFile(h) => handles[h].inode # UnusedInode
<1> DEFINE S == Inodes \ {inode}
           T == {h \in Handles : IsFile(h)}
           f == [i \in S |-> CHOOSE h \in Handles : IsFile(h) /\ handles[h].inode = i]
<1>0. MaxHandles \in Nat
  BY SftpAssumption
<1>1. SUFFICES ASSUME \A i \in Inodes : i = inode \/ \E h \in Handles : IsFile(h) /\ handles[h].inode = i
               PROVE  FALSE
  <2>1. \E i \in Inodes : i # inode /\ \A h \in Handles : IsFile(h) => handles[h].inode # i
    BY <1>1
  <2> QED
    BY <2>1 DEF UnusedInode, IsFile
<1>2. IsFiniteSet(Inodes) /\ Cardinality(Inodes) = MaxHandles + 1
  BY <1>0, FS_Interval DEF Inodes
<1>3. IsFiniteSet(Handles) /\ Cardinality(Handles) = MaxHandles
  BY <1>0, FS_Interval DEF Handles
<1>4. IsFiniteSet(S) /\ Cardinality(S) = IF inode \in Inodes THEN MaxHandles ELSE MaxHandles + 1
  BY <1>0, <1>2, FS_RemoveElement
<1>5. IsFiniteSet(T) /\ Cardinality(T) <= MaxHandles /\ Cardinality(T) \in Nat
      /\ (Cardinality(T) = MaxHandles => T = Handles)
  <2>1. T \in SUBSET Handles
    OBVIOUS
  <2> QED
    BY <2>1, <1>3, FS_Subset, FS_CardinalityType
<1>6. NoFile \notin Inodes
  BY <1>0 DEF NoFile, Inodes
<1>7. Cardinality(T) < Cardinality(S)
  <2>1. CASE inode = NoFile
    BY <1>0, <1>4, <1>5, <1>6, <2>1
  <2>2. CASE inode # NoFile
    <3>1. T # Handles
      BY <2>2
    <3> QED
      BY <1>0, <1>4, <1>5, <2>2, <3>1
  <2> QED
    BY <2>1, <2>2
<1>8. f \in [S -> T] /\ \A i \in S : handles[f[i]].inode = i
  <2>1. \A i \in S : \E h \in Handles : IsFile(h) /\ handles[h].inode = i
    BY <1>1
  <2>2. \A i \in S : f[i] \in Handles /\ IsFile(f[i]) /\ handles[f[i]].inode = i
    BY <2>1
  <2> QED
    BY <2>2
<1>9. \E x, y \in S : x # y /\ f[x] = f[y]
  <2> HIDE DEF S, T, f
  <2> QED
    BY <1>4, <1>5, <1>7, <1>8, FS_PigeonHole
<1> QED
  BY <1>8, <1>9

\* Steps that write no file, change no handle of one and open none.
LEMMA QuietKeeps ==
    ASSUME FInv, UNCHANGED <<content, acked, fresh>>, inode' \in {inode, NoFile},
           TableInv', UnderWayInv',
           \A h \in Handles : handles'[h].kind = "file" => handles'[h] = handles[h],
           \A h \in Handles : handles'[h].kind = "file" => IsFile(h),
           got' = got \/ got' = GotNothing
    PROVE  FInv'
<1>1. FilesInv'
  BY DEF FInv, FilesInv, IsFile
<1>2. GotInv' /\ AckedIsWritten' /\ ReadsAreCurrent'
  BY DEF FInv, GotInv, GotNothing, AckedIsWritten, ReadsAreCurrent
<1> QED
  BY <1>1, <1>2 DEF FInv

\* A file that is written, by handle w or by nobody: what all handles may read
\* follows.
LEMMA WrittenKeeps ==
    ASSUME FInv, NEW i \in Inodes, NEW v, NEW w, Holds(i, v), Expected(i, v, w)
    PROVE  /\ AckedIsWritten'
           /\ content' = [j \in Inodes |-> content'[j]] /\ fresh' = [h \in Handles |-> fresh'[h]]
           /\ \A h \in Handles : h # w => fresh[h] \subseteq fresh'[h]
           /\ \A h \in Handles : h # w /\ IsFile(h) => content'[handles[h].inode] \in fresh'[h]
           /\ content'[i] = v /\ (w \in Handles => fresh'[w] = {v})
<1>1. content' = [content EXCEPT ![i] = v] /\ acked' = [acked EXCEPT ![i] = v]
      /\ acked = content /\ content = [j \in Inodes |-> content[j]]
  BY DEF Holds, Expected, FInv, AckedIsWritten, FilesInv
<1>2. \A j \in Inodes : content'[j] = IF j = i THEN v ELSE content[j]
  BY <1>1
<1>3. \A h \in Handles : fresh'[h] = IF h = w THEN {v}
                                     ELSE IF IsFile(h) /\ handles[h].inode = i
                                          THEN fresh[h] \cup {v} ELSE fresh[h]
  BY DEF Expected, IsFile
<1>4. fresh' = [h \in Handles |-> fresh'[h]]
  BY DEF Expected
<1>5. \A h \in Handles : IsFile(h) => handles[h].inode \in Inodes
                                       /\ content[handles[h].inode] \in fresh[h]
  BY DEF FInv, TableInv, FilesInv
<1>6. AckedIsWritten'
  BY <1>1 DEF AckedIsWritten
<1>7. content' = [j \in Inodes |-> content'[j]]
  BY <1>1
<1>8. \A h \in Handles : h # w => fresh[h] \subseteq fresh'[h]
  BY <1>3
<1>9. \A h \in Handles : h # w /\ IsFile(h) => content'[handles[h].inode] \in fresh'[h]
  BY <1>2, <1>3, <1>5
<1>10. content'[i] = v /\ (w \in Handles => fresh'[w] = {v})
  BY <1>2, <1>3
<1> QED
  BY <1>4, <1>6, <1>7, <1>8, <1>9, <1>10

\* ... and when a handle flushes what it holds back.
LEMMA FlushKeeps ==
    ASSUME FInv, NEW k \in Handles, IsFile(k), Flushes(k)
    PROVE  /\ AckedIsWritten'
           /\ content' = [j \in Inodes |-> content'[j]] /\ fresh' = [h \in Handles |-> fresh'[h]]
           /\ \A h \in Handles : fresh[h] \subseteq fresh'[h]
           /\ \A h \in Handles : IsFile(h) => content'[handles[h].inode] \in fresh'[h]
<1>1. CASE handles[k].dirty = NoValue
  BY <1>1 DEF Flushes, FInv, FilesInv, AckedIsWritten
<1>2. CASE handles[k].dirty # NoValue
  <2>1. handles[k].inode \in Inodes
    BY DEF FInv, TableInv
  <2>2. Holds(handles[k].inode, handles[k].dirty) /\ Expected(handles[k].inode, handles[k].dirty, 0)
    BY <1>2 DEF Flushes
  <2>3. \A h \in Handles : h # 0
    BY SftpAssumption DEF Handles
  <2> QED
    BY <2>1, <2>2, <2>3, WrittenKeeps
<1> QED
  BY <1>1, <1>2

-----------------------------------------------------------------------------
(* The steps that use files *)

\* An object of handle h that takes the place of one, or leaves.
LEMMA TableKept ==
    ASSUME TableInv, NEW h \in Handles, NEW x, handles' = [handles EXCEPT ![h] = x],
           IsFile(h), x = NoHandle \/ (x.kind = "file" /\ FileShape(x) /\ x.inode = handles[h].inode),
           UNCHANGED nextHandle
    PROVE  TableInv'
<1>1. NoHandle.kind = "none"
  BY DEF NoHandle
<1>2. handles'[h] = x /\ \A g \in Handles : g # h => handles'[g] = handles[g]
  BY DEF TableInv
<1>3. DOMAIN handles' = Handles /\ handles' = [g \in Handles |-> handles'[g]]
  BY DEF TableInv
<1>4. handles[h] # NoHandle /\ handles[h].inode \in Inodes
  BY <1>1 DEF IsFile, TableInv
<1> QED
  BY <1>1, <1>2, <1>3, <1>4 DEF TableInv, IsFile

\* What a file object is when its two buffers have been set.
LEMMA BufferChanged ==
    ASSUME NEW x, FileShape(x), NEW c, NEW d
    PROVE  [[x EXCEPT !.cache = c] EXCEPT !.dirty = d] =
              [kind |-> "file", inode |-> x.inode, reads |-> x.reads, writes |-> x.writes,
               cache |-> c, dirty |-> d]
<1> DEFINE y == [[x EXCEPT !.cache = c] EXCEPT !.dirty = d]
<1>1. DOMAIN x = {"kind", "inode", "reads", "writes", "cache", "dirty"} /\ x.kind = "file"
  BY DEF FileShape
<1>2. y = [f \in {"kind", "inode", "reads", "writes", "cache", "dirty"} |->
            IF f = "dirty" THEN d ELSE IF f = "cache" THEN c ELSE x[f]]
  BY <1>1
<1> QED
  BY <1>1, <1>2

LEMMA ReadKeeps ==
    ASSUME FInv, NEW h \in Handles, Read(h)
    PROVE  FInv'
<1> DEFINE v == got'.value
<1>1. IsFile(h) /\ FileShape(handles[h]) /\ handles[h].inode \in Inodes
  BY DEF Read, Readable, IsFile, FInv, TableInv
<1>2. PICK c \in {NoValue, v} : handles' = [handles EXCEPT ![h].cache = c, ![h].dirty = NoValue]
  BY DEF Read
<1>3. /\ at' \in {"feeding", "closing_again"} /\ UNCHANGED <<nextHandle, inode>>
      /\ got' = [handle |-> h, value |-> v]
      /\ v = IF handles[h].cache # NoValue THEN handles[h].cache ELSE content'[handles[h].inode]
  BY DEF Read, Answers
<1>4. /\ AckedIsWritten'
      /\ content' = [j \in Inodes |-> content'[j]] /\ fresh' = [g \in Handles |-> fresh'[g]]
      /\ \A g \in Handles : fresh[g] \subseteq fresh'[g]
      /\ \A g \in Handles : IsFile(g) => content'[handles[g].inode] \in fresh'[g]
  BY <1>1, FlushKeeps DEF Read
<1>5. v \in fresh'[h]
  <2>1. handles[h].cache # NoValue => handles[h].cache \in fresh[h]
    BY <1>1 DEF FInv, FilesInv
  <2> QED
    BY <1>1, <1>3, <1>4, <2>1
<1>6. /\ handles'[h] = [kind |-> "file", inode |-> handles[h].inode, reads |-> handles[h].reads,
                        writes |-> handles[h].writes, cache |-> c, dirty |-> NoValue]
      /\ \A g \in Handles : g # h => handles'[g] = handles[g]
      /\ handles' = [handles EXCEPT ![h] = handles'[h]]
  <2>1. DOMAIN handles = Handles
    BY DEF FInv, TableInv
  <2>2. handles'[h] = [[handles[h] EXCEPT !.cache = c] EXCEPT !.dirty = NoValue]
    BY <1>2, <2>1
  <2>3. \A g \in Handles : g # h => handles'[g] = handles[g]
    BY <1>2, <2>1
  <2>4. handles' = [handles EXCEPT ![h] = handles'[h]]
    BY <1>2, <2>1, <2>2
  <2>5. [[handles[h] EXCEPT !.cache = c] EXCEPT !.dirty = NoValue] =
          [kind |-> "file", inode |-> handles[h].inode, reads |-> handles[h].reads,
           writes |-> handles[h].writes, cache |-> c, dirty |-> NoValue]
    BY <1>1, BufferChanged
  <2> QED
    BY <2>2, <2>3, <2>4, <2>5
<1>7. TableInv'
  <2>1. handles'[h].kind = "file" /\ FileShape(handles'[h]) /\ handles'[h].inode = handles[h].inode
    BY <1>6 DEF FileShape
  <2> QED
    BY <1>1, <1>3, <1>6, <2>1, TableKept DEF FInv
<1>8. FilesInv'
  <2>1. \A g \in Handles : IsFile(g)' => IsFile(g) /\ handles'[g].inode = handles[g].inode
    BY <1>1, <1>6 DEF IsFile
  <2>2. \A g \in Handles : IsFile(g)' /\ handles'[g].cache # NoValue => handles'[g].cache \in fresh'[g]
    <3> SUFFICES ASSUME NEW g \in Handles, IsFile(g)', handles'[g].cache # NoValue
                 PROVE  handles'[g].cache \in fresh'[g]
      OBVIOUS
    <3>1. CASE g = h
      BY <1>5, <1>6, <3>1
    <3>2. CASE g # h
      BY <1>4, <1>6, <2>1, <3>2 DEF FInv, FilesInv
    <3> QED
      BY <3>1, <3>2
  <2> QED
    BY <1>3, <1>4, <2>1, <2>2 DEF FInv, FilesInv
<1>9. UnderWayInv' /\ GotInv' /\ ReadsAreCurrent'
  BY <1>3, <1>5 DEF UnderWayInv, OpenUnderWay, GotInv, ReadsAreCurrent
<1> QED
  BY <1>4, <1>7, <1>8, <1>9 DEF FInv

LEMMA WriteKeeps ==
    ASSUME FInv, NEW h \in Handles, Write(h)
    PROVE  FInv'
<1>1. IsFile(h) /\ FileShape(handles[h]) /\ handles[h].inode \in Inodes
  BY DEF Write, Writable, IsFile, FInv, TableInv
<1>2. /\ handles' = [handles EXCEPT ![h].cache = NoValue, ![h].dirty = NoValue]
      /\ at' \in {"feeding", "closing_again"} /\ UNCHANGED <<nextHandle, inode>>
      /\ got' = GotNothing
      /\ Holds(handles[h].inode, taken') /\ Expected(handles[h].inode, taken', h)
  BY DEF Write, Answers
<1>3. /\ AckedIsWritten'
      /\ content' = [j \in Inodes |-> content'[j]] /\ fresh' = [g \in Handles |-> fresh'[g]]
      /\ \A g \in Handles : g # h => fresh[g] \subseteq fresh'[g]
      /\ \A g \in Handles : g # h /\ IsFile(g) => content'[handles[g].inode] \in fresh'[g]
      /\ content'[handles[h].inode] = taken' /\ fresh'[h] = {taken'}
  BY <1>1, <1>2, WrittenKeeps
<1>6. /\ handles'[h] = [kind |-> "file", inode |-> handles[h].inode, reads |-> handles[h].reads,
                        writes |-> handles[h].writes, cache |-> NoValue, dirty |-> NoValue]
      /\ \A g \in Handles : g # h => handles'[g] = handles[g]
      /\ handles' = [handles EXCEPT ![h] = handles'[h]]
  <2>1. DOMAIN handles = Handles
    BY DEF FInv, TableInv
  <2>2. handles'[h] = [[handles[h] EXCEPT !.cache = NoValue] EXCEPT !.dirty = NoValue]
    BY <1>2, <2>1
  <2>3. \A g \in Handles : g # h => handles'[g] = handles[g]
    BY <1>2, <2>1
  <2>4. handles' = [handles EXCEPT ![h] = handles'[h]]
    BY <1>2, <2>1, <2>2
  <2> QED
    BY <1>1, <2>2, <2>3, <2>4, BufferChanged
<1>7. TableInv'
  <2>1. handles'[h].kind = "file" /\ FileShape(handles'[h]) /\ handles'[h].inode = handles[h].inode
    BY <1>6 DEF FileShape
  <2> QED
    BY <1>1, <1>2, <1>6, <2>1, TableKept DEF FInv
<1>8. FilesInv'
  <2>1. \A g \in Handles : IsFile(g)' => IsFile(g) /\ handles'[g].inode = handles[g].inode
    BY <1>1, <1>6 DEF IsFile
  <2>2. \A g \in Handles : IsFile(g)' => content'[handles'[g].inode] \in fresh'[g]
    BY <1>3, <2>1
  <2>3. \A g \in Handles : IsFile(g)' /\ handles'[g].cache # NoValue => handles'[g].cache \in fresh'[g]
    BY <1>3, <1>6, <2>1 DEF FInv, FilesInv
  <2> QED
    BY <1>2, <1>3, <2>2, <2>3 DEF FInv, FilesInv
<1>9. UnderWayInv' /\ GotInv' /\ ReadsAreCurrent'
  BY <1>2 DEF UnderWayInv, OpenUnderWay, GotInv, ReadsAreCurrent, GotNothing
<1> QED
  BY <1>3, <1>7, <1>8, <1>9 DEF FInv

\* Handle h, whose data is flushed, or cannot be, is changed or leaves the table;
\* nothing is read ahead that was not before.
LEMMA HeldBackKeeps ==
    ASSUME FInv, NEW h \in Handles, IsFile(h), NEW x, handles' = [handles EXCEPT ![h] = x],
           x = NoHandle \/ (x.kind = "file" /\ FileShape(x) /\ x.inode = handles[h].inode
                             /\ x.cache \in {NoValue, handles[h].cache}),
           Flushes(h) \/ UNCHANGED <<content, acked, fresh>>,
           UNCHANGED <<nextHandle, inode>>, got' = got \/ got' = GotNothing,
           at' \notin {"exists", "excl", "open", "listing"}
    PROVE  FInv'
<1>1. /\ AckedIsWritten'
      /\ content' = [j \in Inodes |-> content'[j]] /\ fresh' = [g \in Handles |-> fresh'[g]]
      /\ \A g \in Handles : fresh[g] \subseteq fresh'[g]
      /\ \A g \in Handles : IsFile(g) => content'[handles[g].inode] \in fresh'[g]
  <2>1. CASE UNCHANGED <<content, acked, fresh>>
    BY <2>1 DEF FInv, FilesInv, AckedIsWritten
  <2> QED
    BY <2>1, FlushKeeps
<1>2. TableInv'
  BY TableKept DEF FInv
<1>3. handles'[h] = x /\ \A g \in Handles : g # h => handles'[g] = handles[g]
  BY DEF FInv, TableInv
<1>4. NoHandle.kind # "file"
  BY DEF NoHandle
<1>5. FilesInv'
  <2>1. \A g \in Handles : IsFile(g)' => IsFile(g) /\ handles'[g].inode = handles[g].inode
    BY <1>3, <1>4 DEF IsFile
  <2>2. \A g \in Handles : IsFile(g)' => content'[handles'[g].inode] \in fresh'[g]
    BY <1>1, <2>1
  <2>3. \A g \in Handles : IsFile(g)' /\ handles'[g].cache # NoValue => handles'[g].cache \in fresh'[g]
    BY <1>1, <1>3, <1>4, <2>1 DEF FInv, FilesInv, IsFile
  <2> QED
    BY <1>1, <2>2, <2>3 DEF FInv, FilesInv
<1>6. UnderWayInv' /\ GotInv'
  BY DEF UnderWayInv, OpenUnderWay, FInv, GotInv, GotNothing
<1>7. ReadsAreCurrent'
  BY <1>1 DEF FInv, ReadsAreCurrent, GotNothing, GotInv
<1> QED
  BY <1>1, <1>2, <1>5, <1>6, <1>7 DEF FInv

LEMMA WriteFailsKeeps ==
    ASSUME FInv, NEW h \in Handles, WriteFails(h)
    PROVE  FInv'
<1> DEFINE x == [[handles[h] EXCEPT !.cache = NoValue] EXCEPT !.dirty = taken']
<1>1. IsFile(h) /\ FileShape(handles[h])
  BY DEF WriteFails, Writable, IsFile, FInv, TableInv
<1>2. x = [kind |-> "file", inode |-> handles[h].inode, reads |-> handles[h].reads,
           writes |-> handles[h].writes, cache |-> NoValue, dirty |-> taken']
  BY <1>1, BufferChanged
<1>3. x.kind = "file" /\ FileShape(x) /\ x.inode = handles[h].inode
      /\ x.cache = NoValue
  BY <1>2 DEF FileShape
<1>4. handles' = [handles EXCEPT ![h] = x]
  <2>1. DOMAIN handles = Handles
    BY DEF FInv, TableInv
  <2> QED
    BY <2>1 DEF WriteFails
<1>5. /\ Flushes(h) /\ UNCHANGED <<nextHandle, inode>> /\ got' = GotNothing
      /\ at' \notin {"exists", "excl", "open", "listing"}
  BY DEF WriteFails, Answers
<1> HIDE DEF x
<1> QED
  BY <1>1, <1>3, <1>4, <1>5, HeldBackKeeps

LEMMA SeekOnlyKeeps ==
    ASSUME FInv, NEW h \in Handles, SeekOnly(h)
    PROVE  FInv'
<1>1. IsFile(h) /\ FileShape(handles[h]) /\ DOMAIN handles = Handles
  BY DEF SeekOnly, IsFile, FInv, TableInv
<1>2. PICK c \in {NoValue, handles[h].cache} :
         handles' = [handles EXCEPT ![h].cache = c, ![h].dirty = NoValue]
  BY DEF SeekOnly
<1> DEFINE x == [[handles[h] EXCEPT !.cache = c] EXCEPT !.dirty = NoValue]
<1>3. x = [kind |-> "file", inode |-> handles[h].inode, reads |-> handles[h].reads,
           writes |-> handles[h].writes, cache |-> c, dirty |-> NoValue]
  BY <1>1, BufferChanged
<1>4. x.kind = "file" /\ FileShape(x) /\ x.inode = handles[h].inode /\ x.cache = c
  BY <1>3 DEF FileShape
<1>5. handles' = [handles EXCEPT ![h] = x]
  BY <1>1, <1>2
<1>6. /\ Flushes(h) /\ UNCHANGED <<nextHandle, inode>> /\ got' = GotNothing
      /\ at' \notin {"exists", "excl", "open", "listing"}
  BY DEF SeekOnly, Answers
<1> HIDE DEF x
<1> QED
  BY <1>1, <1>4, <1>5, <1>6, HeldBackKeeps

\* Handle h leaves the table: CLOSE, and the end of the channel.
LEMMA DropKeeps ==
    ASSUME FInv, NEW h \in Handles, Drops(h) \/ DropFails(h),
           UNCHANGED <<nextHandle, inode>>, got' = got \/ got' = GotNothing,
           at' \notin {"exists", "excl", "open", "listing"}
    PROVE  FInv'
<1>0. handles' = [handles EXCEPT ![h] = NoHandle]
  BY DEF Drops, DropFails
<1>1. CASE IsFile(h)
  <2>1. Flushes(h) \/ UNCHANGED <<content, acked, fresh>>
    BY <1>1 DEF Drops, DropFails
  <2> QED
    BY <1>0, <1>1, <2>1, HeldBackKeeps
<1>2. CASE ~IsFile(h)
  <2>1. UNCHANGED <<content, acked, fresh>>
    BY <1>2 DEF Drops, DropFails, IsFile
  <2>2. handles'[h] = NoHandle /\ \A g \in Handles : g # h => handles'[g] = handles[g]
    BY <1>0 DEF FInv, TableInv
  <2>3. NoHandle.kind = "none"
    BY DEF NoHandle
  <2>4. DOMAIN handles' = Handles /\ handles' = [g \in Handles |-> handles'[g]]
    BY <1>0 DEF FInv, TableInv
  <2>5. TableInv'
    BY <2>2, <2>3, <2>4 DEF FInv, TableInv, IsFile
  <2>6. UnderWayInv'
    BY DEF UnderWayInv, OpenUnderWay
  <2>7. \A g \in Handles : handles'[g].kind = "file" => handles'[g] = handles[g] /\ IsFile(g)
    BY <2>2, <2>3 DEF IsFile
  <2> QED
    BY <2>1, <2>5, <2>6, <2>7, QuietKeeps
<1> QED
  BY <1>1, <1>2

\* A new object, of a file or of a listing.
LEMMA TableGrows ==
    ASSUME TableInv, nextHandle \in Handles, NEW x, Gives(x),
           (x.kind = "dir" /\ DirShape(x)) \/ (x.kind = "file" /\ FileShape(x) /\ x.inode \in Inodes)
    PROVE  /\ TableInv' /\ ~IsFile(nextHandle) /\ handles'[nextHandle] = x
           /\ \A g \in Handles : g # nextHandle => handles'[g] = handles[g]
<1>1. handles' = [handles EXCEPT ![nextHandle] = x] /\ nextHandle' = nextHandle + 1
  BY DEF Gives, NewHandle
<1>2. handles'[nextHandle] = x /\ \A g \in Handles : g # nextHandle => handles'[g] = handles[g]
  BY <1>1 DEF TableInv
<1>3. DOMAIN handles' = Handles /\ handles' = [g \in Handles |-> handles'[g]]
  BY <1>1 DEF TableInv
<1>4. nextHandle \in Nat \ {0} /\ nextHandle' \in Nat \ {0}
  BY <1>1 DEF TableInv
<1>5. handles[nextHandle] = NoHandle /\ NoHandle.kind = "none"
  BY <1>4 DEF TableInv, NoHandle
<1>6. \A g \in Handles : g >= nextHandle' => g >= nextHandle /\ g # nextHandle
  BY <1>1, <1>4 DEF Handles
<1>7. TableInv'
  <2> SUFFICES ASSUME NEW g \in Handles
               PROVE  /\ handles'[g].kind \in {"none", "file", "dir"}
                      /\ handles'[g].kind = "none" => handles'[g] = NoHandle
                      /\ handles'[g].kind = "dir" => DirShape(handles'[g])
                      /\ handles'[g].kind = "file" => FileShape(handles'[g]) /\ handles'[g].inode \in Inodes
                      /\ g >= nextHandle' => handles'[g] = NoHandle
    BY <1>3, <1>4 DEF TableInv, IsFile
  <2>1. CASE g = nextHandle
    BY <1>2, <1>6, <2>1
  <2>2. CASE g # nextHandle
    BY <1>2, <1>6, <2>2 DEF TableInv, IsFile
  <2> QED
    BY <2>1, <2>2
<1> QED
  BY <1>2, <1>5, <1>7 DEF IsFile

LEMMA OpensKeeps ==
    ASSUME FInv, OpenOpens
    PROVE  FInv'
<1>0. /\ nextHandle \in Handles /\ got = GotNothing /\ got' = got
      /\ at' \in {"feeding", "closing_again"}
  BY DEF OpenOpens, FInv, UnderWayInv, OpenUnderWay, Answers
<1>1. ~IsFile(nextHandle)
  BY <1>0 DEF FInv, TableInv, IsFile, NoHandle
<1>2. UnusedInode \in Inodes
  BY <1>0, <1>1, UnusedInodeIsOne DEF FInv, FilesInv
<1>2a. \E i \in Inodes : \E v : Opened(i, v)
  BY <1>2 DEF OpenOpens, FInv, FilesInv
<1>2b. PICK i \in Inodes : \E v : Opened(i, v)
  BY <1>2a
<1>3. PICK v : Opened(i, v)
  BY <1>2b
<1> DEFINE x == [kind |-> "file", inode |-> i,
                 reads |-> op.mode \in {"rb", "r+b", "w+b"}, writes |-> op.mode # "rb",
                 cache |-> NoValue, dirty |-> NoValue]
<1>4. /\ inode' = i /\ Holds(i, v) /\ acked' = [acked EXCEPT ![i] = v] /\ Gives(x)
      /\ fresh' = [h \in Handles |->
                     IF h = nextHandle THEN {v}
                     ELSE IF IsFile(h) /\ handles[h].inode = i
                          THEN fresh[h] \cup {v} ELSE fresh[h]]
  BY <1>3 DEF Opened, NewHandle, IsFile
<1>5. x.kind = "file" /\ FileShape(x) /\ x.inode = i /\ x.cache = NoValue
  BY DEF FileShape
<1> HIDE DEF x
<1>6. /\ TableInv' /\ handles'[nextHandle] = x
      /\ \A g \in Handles : g # nextHandle => handles'[g] = handles[g]
  BY <1>0, <1>4, <1>5, TableGrows DEF FInv
<1>7. Expected(i, v, nextHandle)
  BY <1>4 DEF Expected, IsFile
<1>8. /\ AckedIsWritten'
      /\ content' = [j \in Inodes |-> content'[j]] /\ fresh' = [h \in Handles |-> fresh'[h]]
      /\ \A h \in Handles : h # nextHandle => fresh[h] \subseteq fresh'[h]
      /\ \A h \in Handles : h # nextHandle /\ IsFile(h) => content'[handles[h].inode] \in fresh'[h]
      /\ content'[i] = v /\ fresh'[nextHandle] = {v}
  BY <1>0, <1>4, <1>7, WrittenKeeps
<1>9. FilesInv'
  <2>1. \A g \in Handles : IsFile(g)' => content'[handles'[g].inode] \in fresh'[g]
    BY <1>5, <1>6, <1>8 DEF IsFile
  <2>2. \A g \in Handles : IsFile(g)' /\ handles'[g].cache # NoValue => handles'[g].cache \in fresh'[g]
    BY <1>5, <1>6, <1>8 DEF IsFile, FInv, FilesInv
  <2> QED
    BY <1>4, <1>8, <2>1, <2>2 DEF FilesInv
<1>10. UnderWayInv' /\ GotInv' /\ ReadsAreCurrent'
  BY <1>0 DEF UnderWayInv, OpenUnderWay, GotInv, ReadsAreCurrent, GotNothing
<1> QED
  BY <1>6, <1>8, <1>9, <1>10 DEF FInv

\* The entry of a listing in the table is replaced by another of its kind.
LEMMA ListingKept ==
    ASSUME TableInv, NEW h \in Handles, handles[h].kind = "dir", NEW x, x.kind = "dir",
           DirShape(x), handles' = [handles EXCEPT ![h] = x], UNCHANGED nextHandle
    PROVE  /\ TableInv'
           /\ \A g \in Handles : handles'[g].kind = "file" => handles'[g] = handles[g] /\ IsFile(g)
           /\ handles'[h].kind = "dir"
<1>1. handles'[h] = x /\ \A g \in Handles : g # h => handles'[g] = handles[g]
  BY DEF TableInv
<1>2. DOMAIN handles' = Handles /\ handles' = [g \in Handles |-> handles'[g]]
  BY DEF TableInv
<1>3. handles[h] # NoHandle
  BY DEF NoHandle
<1>4. TableInv'
  BY <1>1, <1>2, <1>3 DEF TableInv, IsFile
<1> QED
  BY <1>1, <1>4 DEF IsFile

LEMMA OffsetChanged ==
    ASSUME NEW x, DirShape(x), x.kind = "dir", NEW v
    PROVE  /\ [x EXCEPT !.offset = v].kind = "dir" /\ DirShape([x EXCEPT !.offset = v])
           /\ [x EXCEPT !.told = v].kind = "dir" /\ DirShape([x EXCEPT !.told = v])
           /\ [x EXCEPT !.bad = v].kind = "dir" /\ DirShape([x EXCEPT !.bad = v])
<1>1. DOMAIN x = {"kind", "entries", "offset", "told", "bad"}
  BY DEF DirShape
<1>2. ASSUME NEW f \in {"offset", "told", "bad"}
      PROVE  [x EXCEPT ![f] = v].kind = "dir" /\ DirShape([x EXCEPT ![f] = v])
  <2> DEFINE y == [x EXCEPT ![f] = v]
  <2>1. y = [g \in {"kind", "entries", "offset", "told", "bad"} |-> IF g = f THEN v ELSE x[g]]
    BY <1>1
  <2>2. y.kind = "dir"
    BY <2>1
  <2>3. DirShape(y)
    BY <2>1, <2>2 DEF DirShape
  <2> QED
    BY <2>2, <2>3
<1> QED
  BY <1>2

LEMMA ReaddirKeeps ==
    ASSUME FInv, NEW h \in Handles, Readdir(h)
    PROVE  FInv'
<1>1. handles[h].kind = "dir" /\ DirShape(handles[h]) /\ DOMAIN handles = Handles
  BY DEF Readdir, FInv, TableInv
<1>2. handles' = [handles EXCEPT ![h] = [handles[h] EXCEPT !.offset = Advanced(handles[h])]]
  BY <1>1 DEF Readdir
<1>3. UNCHANGED <<content, acked, fresh, inode, nextHandle>> /\ got' = GotNothing
  BY DEF Readdir, fsVars
<1>4. /\ TableInv' /\ handles'[h].kind = "dir"
      /\ \A g \in Handles : handles'[g].kind = "file" => handles'[g] = handles[g] /\ IsFile(g)
  BY <1>1, <1>2, <1>3, OffsetChanged, ListingKept DEF FInv
<1>5. UnderWayInv'
  <2>1. CASE at' \notin {"exists", "excl", "open", "listing"}
    BY <2>1 DEF UnderWayInv, OpenUnderWay
  <2>2. CASE /\ at' = "listing"
             /\ op' = [kind |-> "readdir", handle |-> h,
                       announced |-> Len(NextBatch(handles[h])),
                       batch |-> NextBatch(handles[h]), told |-> <<>>]
    BY <1>4, <2>2 DEF UnderWayInv, OpenUnderWay
  <2> QED
    BY <2>1, <2>2 DEF Readdir, Answers
<1> QED
  BY <1>3, <1>4, <1>5, QuietKeeps

\* The answer that is put together, after the next of its entries.
LEMMA ListEntrySets ==
    ASSUME ListEntry, at' = "listing",
           op = [kind |-> "readdir", handle |-> op.handle, announced |-> op.announced,
                 batch |-> op.batch, told |-> op.told]
    PROVE  \E t \in {op.told, Append(op.told, Head(op.batch))} :
              op' = [kind |-> "readdir", handle |-> op.handle, announced |-> op.announced,
                     batch |-> Tail(op.batch), told |-> t]
<1>1. DOMAIN op = {"kind", "handle", "announced", "batch", "told"} /\ op.kind = "readdir"
  OBVIOUS
<1>2. ASSUME NEW b, NEW t
      PROVE  /\ [op EXCEPT !.batch = b] =
                   [kind |-> "readdir", handle |-> op.handle, announced |-> op.announced,
                    batch |-> b, told |-> op.told]
             /\ [[op EXCEPT !.batch = b] EXCEPT !.told = t] =
                   [kind |-> "readdir", handle |-> op.handle, announced |-> op.announced,
                    batch |-> b, told |-> t]
  <2> DEFINE y == [[op EXCEPT !.batch = b] EXCEPT !.told = t]
  <2>1. y = [f \in {"kind", "handle", "announced", "batch", "told"} |->
              IF f = "told" THEN t ELSE IF f = "batch" THEN b ELSE op[f]]
    BY <1>1
  <2>2. [op EXCEPT !.batch = b] =
           [f \in {"kind", "handle", "announced", "batch", "told"} |->
              IF f = "batch" THEN b ELSE op[f]]
    BY <1>1
  <2> QED
    BY <1>1, <2>1, <2>2
<1>3. ~Answers(taken)
  BY DEF Answers
<1>4. CASE op' = [op EXCEPT !.batch = Tail(@), !.told = Append(@, Head(op.batch))]
  <2>1. op' = [[op EXCEPT !.batch = Tail(op.batch)] EXCEPT !.told = Append(op.told, Head(op.batch))]
    BY <1>1, <1>4
  <2> QED
    BY <1>2, <2>1
<1>5. CASE op' = [op EXCEPT !.batch = Tail(@)]
  <2>1. op' = [op EXCEPT !.batch = Tail(op.batch)]
    BY <1>1, <1>5
  <2> QED
    BY <1>2, <2>1
<1> QED
  BY <1>3, <1>4, <1>5 DEF ListEntry

LEMMA ListKeeps ==
    ASSUME FInv, ListEntry \/ ListSend
    PROVE  FInv'
<1> DEFINE h == op.handle
<1>1. /\ h \in Handles /\ handles[h].kind = "dir" /\ DirShape(handles[h]) /\ DOMAIN handles = Handles
      /\ op = [kind |-> "readdir", handle |-> op.handle, announced |-> op.announced,
               batch |-> op.batch, told |-> op.told]
  BY DEF ListEntry, ListSend, FInv, UnderWayInv, TableInv
<1>2. UNCHANGED <<content, acked, fresh, inode, nextHandle, got>>
  BY DEF ListEntry, ListSend, fsVars, historyVars
<1>3. handles' = handles \/ \E x : x.kind = "dir" /\ DirShape(x) /\ handles' = [handles EXCEPT ![h] = x]
  <2>1. CASE ListEntry
    <3> DEFINE x == [handles[h] EXCEPT !.bad = handles[h].bad \cup {Head(op.batch)}]
    <3>1. handles' = handles \/ handles' = [handles EXCEPT ![h] = x]
      BY <1>1, <2>1 DEF ListEntry
    <3>2. x.kind = "dir" /\ DirShape(x)
      BY <1>1, OffsetChanged
    <3> HIDE DEF x
    <3> QED
      BY <3>1, <3>2
  <2>2. CASE ListSend
    <3> DEFINE x == [handles[h] EXCEPT !.told = handles[h].told \o op.told]
    <3>1. handles' = handles \/ handles' = [handles EXCEPT ![h] = x]
      BY <1>1, <2>2 DEF ListSend
    <3>2. x.kind = "dir" /\ DirShape(x)
      BY <1>1, OffsetChanged
    <3> HIDE DEF x
    <3> QED
      BY <3>1, <3>2
  <2> QED
    BY <2>1, <2>2
<1>4. /\ TableInv' /\ handles'[h].kind = "dir"
      /\ \A g \in Handles : handles'[g].kind = "file" => handles'[g] = handles[g] /\ IsFile(g)
  <2>1. CASE handles' = handles
    BY <1>1, <1>2, <2>1 DEF FInv, TableInv, IsFile
  <2> QED
    BY <1>1, <1>2, <1>3, <2>1, ListingKept DEF FInv
<1>5. UnderWayInv'
  <2>1. CASE at' \notin {"exists", "excl", "open", "listing"}
    BY <2>1 DEF UnderWayInv, OpenUnderWay
  <2>2. CASE at' = at /\ at = "listing" /\ ListEntry
    <3>1. PICK t \in {op.told, Append(op.told, Head(op.batch))} :
             op' = [kind |-> "readdir", handle |-> op.handle, announced |-> op.announced,
                    batch |-> Tail(op.batch), told |-> t]
      BY <1>1, <2>2, ListEntrySets
    <3>2. /\ op'.handle = h
          /\ op' = [kind |-> "readdir", handle |-> op'.handle, announced |-> op'.announced,
                    batch |-> op'.batch, told |-> op'.told]
      BY <3>1
    <3> QED
      BY <1>1, <1>4, <2>2, <3>2 DEF UnderWayInv, OpenUnderWay
  <2> QED
    BY <2>1, <2>2 DEF ListEntry, ListSend, Answers
<1> QED
  BY <1>2, <1>4, <1>5, QuietKeeps

LEMMA OpendirKeeps ==
    ASSUME FInv, Opendir
    PROVE  FInv'
<1>1. nextHandle \in Handles
  BY SftpAssumption DEF Opendir, FInv, TableInv, Handles
<1>2. PICK x : Gives(x) /\ x.kind = "dir" /\ DirShape(x)
  <2>1. PICK order \in SetToSeqs(present) :
           Gives([kind |-> "dir", entries |-> <<Dot>> \o order, offset |-> 0,
                  told |-> <<>>, bad |-> {}])
    BY DEF Opendir
  <2> QED
    BY <2>1 DEF DirShape
<1>3. /\ TableInv' /\ ~IsFile(nextHandle) /\ handles'[nextHandle] = x
      /\ \A g \in Handles : g # nextHandle => handles'[g] = handles[g]
  BY <1>1, <1>2, TableGrows DEF FInv
<1>4. UNCHANGED <<content, acked, fresh, inode>> /\ got' = GotNothing
      /\ at' \in {"feeding", "closing_again"}
  BY DEF Opendir, fsVars, Answers
<1>5. FilesInv'
  BY <1>2, <1>3, <1>4 DEF FInv, FilesInv, IsFile
<1>6. UnderWayInv' /\ GotInv' /\ AckedIsWritten' /\ ReadsAreCurrent'
  BY <1>4 DEF UnderWayInv, OpenUnderWay, GotInv, ReadsAreCurrent, GotNothing, AckedIsWritten, FInv
<1> QED
  BY <1>3, <1>5, <1>6 DEF FInv

\* Another process writes the path.
LEMMA OutsideWritesKeeps ==
    ASSUME FInv, OutsideWrites
    PROVE  FInv'
<1>1. PICK i \in Inodes : inode' = i /\ Holds(i, Foreign) /\ Expected(i, Foreign, 0)
  BY UnusedInodeIsOne DEF OutsideWrites, FInv, FilesInv
<1>2. UNCHANGED <<at, op, handles, nextHandle, got>>
  BY DEF OutsideWrites, Outside, tableVars
<1>3. \A h \in Handles : h # 0
  BY SftpAssumption DEF Handles
<1>4. /\ AckedIsWritten'
      /\ content' = [j \in Inodes |-> content'[j]] /\ fresh' = [g \in Handles |-> fresh'[g]]
      /\ \A g \in Handles : fresh[g] \subseteq fresh'[g]
      /\ \A g \in Handles : IsFile(g) => content'[handles[g].inode] \in fresh'[g]
  BY <1>1, <1>3, WrittenKeeps
<1>5. TableInv' /\ UnderWayInv' /\ GotInv'
  BY <1>2 DEF FInv, TableInv, UnderWayInv, OpenUnderWay, GotInv, IsFile
<1>6. FilesInv'
  BY <1>1, <1>2, <1>4 DEF FInv, FilesInv, IsFile
<1>7. ReadsAreCurrent'
  BY <1>2, <1>4 DEF FInv, ReadsAreCurrent, GotInv
<1> QED
  BY <1>4, <1>5, <1>6, <1>7 DEF FInv

\* Steps that change nothing of it but the place and the request.
LEMMA StillKeeps ==
    ASSUME FInv, UNCHANGED <<content, acked, fresh, handles, nextHandle>>,
           inode' \in {inode, NoFile}, got' = got \/ got' = GotNothing,
           \/ at' = at /\ op' = op
           \/ at' \notin {"exists", "excl", "open", "listing"}
           \/ OpenUnderWay /\ at' # "listing"
    PROVE  FInv'
<1>1. TableInv'
  BY DEF FInv, TableInv, IsFile
<1>2. UnderWayInv'
  BY DEF FInv, UnderWayInv, OpenUnderWay
<1> QED
  BY <1>1, <1>2, QuietKeeps DEF IsFile

LEMMA FilesStep ==
    ASSUME FInv, [Next]_vars
    PROVE  FInv'
<1>1. CASE Ask \/ Feed \/ FeedReturns \/ EofArrives \/ CloseArrives \/ CloseEnds
  BY <1>1, StillKeeps DEF Ask, Feed, FeedReturns, EofArrives, CloseArrives, CloseEnds,
     tableVars, fsVars, historyVars
<1>2. CASE Unreadable \/ PlainRequest \/ RemovePath
  BY <1>2, StillKeeps DEF Unreadable, PlainRequest, RemovePath, Answers, tableVars, fsVars,
     historyVars
<1>3. CASE OpenLooks \/ OpenExcludes \/ OpenFails
  BY <1>3, StillKeeps DEF OpenLooks, OpenExcludes, OpenFails, Excludes, Answers, OpenUnderWay,
     tableVars, fsVars, historyVars
<1>4. CASE \E flags \in FlagSets : Open(flags)
  <2> PICK flags \in FlagSets : Open(flags)
    BY <1>4
  <2>1. nextHandle \in Handles /\ UNCHANGED <<content, acked, fresh, handles, nextHandle, inode>>
        /\ got' = GotNothing /\ at' \in {"exists", "excl", "open"}
    BY SftpAssumption DEF Open, Excludes, FInv, TableInv, Handles, tableVars, fsVars
  <2>2. TableInv' /\ UnderWayInv'
    BY <2>1 DEF FInv, TableInv, UnderWayInv, OpenUnderWay, IsFile
  <2> QED
    BY <2>1, <2>2, QuietKeeps DEF IsFile
<1>5. CASE \E h \in Handles :
             Read(h) \/ SeekOnly(h) \/ Write(h) \/ WriteFails(h) \/ Close(h) \/ Readdir(h)
  <2> PICK h \in Handles :
         Read(h) \/ SeekOnly(h) \/ Write(h) \/ WriteFails(h) \/ Close(h) \/ Readdir(h)
    BY <1>5
  <2>1. CASE Close(h)
    BY <2>1, DropKeeps DEF Close, Answers
  <2> QED
    BY <2>1, ReadKeeps, SeekOnlyKeeps, WriteKeeps, WriteFailsKeeps, ReaddirKeeps
<1>6. CASE OpenOpens \/ Opendir \/ ListEntry \/ ListSend \/ OutsideWrites
  BY <1>6, OpensKeeps, OpendirKeeps, ListKeeps, OutsideWritesKeeps
<1>7. CASE CloseNext \/ CloseRaises
  BY <1>7, DropKeeps DEF CloseNext, CloseRaises
<1>8. CASE OutsideRemoves \/ OutsideLists
  BY <1>8, StillKeeps DEF OutsideRemoves, OutsideLists, Outside, tableVars
<1>9. CASE UNCHANGED vars
  BY <1>9, StillKeeps DEF vars, tableVars, fsVars, historyVars
<1> QED
  BY <1>1, <1>2, <1>3, <1>4, <1>5, <1>6, <1>7, <1>8, <1>9 DEF Next, Handling, Closing

LEMMA FilesInvariant == Spec => []FInv
<1>1. Init => FInv
  <2> SUFFICES ASSUME Init PROVE FInv
    OBVIOUS
  <2>1. TableInv /\ UnderWayInv /\ GotInv /\ AckedIsWritten /\ ReadsAreCurrent
    BY DEF Init, TableInv, UnderWayInv, OpenUnderWay, GotInv, AckedIsWritten, ReadsAreCurrent,
       GotNothing, NoHandle, IsFile
  <2>2. FilesInv
    BY SftpAssumption DEF Init, FilesInv, IsFile, NoHandle, Inodes
  <2> QED
    BY <2>1, <2>2 DEF FInv
<1>2. FInv /\ [Next]_vars => FInv'
  BY FilesStep
<1> QED
  BY <1>1, <1>2, PTL DEF Spec

\* READ returns nothing older than what its handle wrote last or found when it was
\* opened, and what was answered with OK is in the file, for any number of handles,
\* files and other processes (sftp.py:250-273).
THEOREM ReadsStayCurrent == Spec => [](ReadsAreCurrent /\ AckedIsWritten)
<1>1. FInv => ReadsAreCurrent /\ AckedIsWritten
  BY DEF FInv
<1> QED
  BY <1>1, FilesInvariant, PTL

\* The name of a closed handle is not given again (sftp.py:187-196).
THEOREM ClosedNamesStayUnknown == Spec => HandlesNotReused
<1>1. ASSUME FInv, [Next]_vars
      PROVE  \A h \in Handles : h < nextHandle /\ handles[h] = NoHandle => handles'[h] = NoHandle
  <2> SUFFICES ASSUME NEW h \in Handles, h < nextHandle, handles[h] = NoHandle
               PROVE  handles'[h] = NoHandle
    OBVIOUS
  <2>0. /\ DOMAIN handles = Handles /\ handles[h].kind \notin {"file", "dir"}
        /\ h # nextHandle
    BY <1>1 DEF FInv, TableInv, NoHandle, Handles
  <2>1. CASE handles' = handles
    BY <2>1
  <2>2. CASE \E g \in Handles :
               Read(g) \/ SeekOnly(g) \/ Write(g) \/ WriteFails(g) \/ Close(g) \/ Readdir(g)
    <3> PICK g \in Handles :
           Read(g) \/ SeekOnly(g) \/ Write(g) \/ WriteFails(g) \/ Close(g) \/ Readdir(g)
      BY <2>2
    <3>1. g # h
      BY <2>0 DEF Read, Readable, SeekOnly, Write, WriteFails, Writable, Close, Drops, DropFails, Readdir
    <3>2. CASE Read(g) \/ Readdir(g)
      BY <2>0, <3>1, <3>2 DEF Read, Readdir
    <3>3. CASE SeekOnly(g) \/ Write(g) \/ WriteFails(g) \/ Close(g)
      BY <2>0, <3>1, <3>3 DEF SeekOnly, Write, WriteFails, Close, Drops, DropFails
    <3> QED
      BY <3>2, <3>3
  <2>3. CASE OpenOpens \/ Opendir
    BY <2>0, <2>3 DEF OpenOpens, Opened, Opendir, Gives, NewHandle
  <2>4. CASE ListEntry \/ ListSend
    <3>1. op.handle # h
      BY <1>1, <2>0, <2>4 DEF ListEntry, ListSend, FInv, UnderWayInv
    <3> QED
      BY <2>0, <2>4, <3>1 DEF ListEntry, ListSend
  <2>5. CASE CloseNext \/ CloseRaises
    BY <2>0, <2>5 DEF CloseNext, CloseRaises, First, Drops, DropFails
  <2>6. ASSUME Next, handles' # handles
        PROVE  \/ \E g \in Handles :
                    Read(g) \/ SeekOnly(g) \/ Write(g) \/ WriteFails(g) \/ Close(g) \/ Readdir(g)
               \/ OpenOpens \/ Opendir \/ ListEntry \/ ListSend \/ CloseNext \/ CloseRaises
    BY <2>6 DEF Next, Handling, Closing, Ask, Feed, FeedReturns, Unreadable, PlainRequest,
       RemovePath, Open, OpenLooks, OpenExcludes, OpenFails, EofArrives, CloseArrives,
       CloseEnds, Outside, OutsideWrites, OutsideRemoves, OutsideLists, tableVars
  <2> QED
    BY <1>1, <2>1, <2>2, <2>3, <2>4, <2>5, <2>6 DEF vars, tableVars
<1> QED
  BY <1>1, FilesInvariant, PTL DEF Spec, HandlesNotReused
-----------------------------------------------------------------------------
(* Listings *)

Distinct(s) == \A i, j \in DOMAIN s : s[i] = s[j] => i = j

LEMMA JoinedIsDistinct ==
    ASSUME NEW S, NEW s \in Seq(S), NEW t \in Seq(S), Distinct(s), Distinct(t),
           ToSet(s) \cap ToSet(t) = {}
    PROVE  /\ s \o t \in Seq(S) /\ Distinct(s \o t)
           /\ ToSet(s \o t) = ToSet(s) \cup ToSet(t)
<1> DEFINE u == s \o t
           m == Len(s)
           n == Len(t)
<1>1. /\ m \in Nat /\ n \in Nat /\ DOMAIN s = 1..m /\ DOMAIN t = 1..n
      /\ u \in Seq(S) /\ DOMAIN u = 1..m + n
      /\ \A i \in 1..m + n : u[i] = IF i <= m THEN s[i] ELSE t[i - m]
  OBVIOUS
<1> HIDE DEF u, m, n
<1>2. /\ \A i \in 1..m + n : i <= m => i \in 1..m /\ u[i] = s[i]
      /\ \A i \in 1..m + n : ~(i <= m) => i - m \in 1..n /\ u[i] = t[i - m]
  BY <1>1
<1>3. Distinct(u)
  <2> SUFFICES ASSUME NEW i \in 1..m + n, NEW j \in 1..m + n, u[i] = u[j]
               PROVE  i = j
    BY <1>1 DEF Distinct
  <2>0. i \in Int /\ j \in Int
    BY <1>1
  <2>1. CASE i <= m /\ j <= m
    BY <1>1, <1>2, <2>1 DEF Distinct
  <2>2. CASE ~(i <= m) /\ ~(j <= m)
    <3>1. i - m \in 1..n /\ j - m \in 1..n /\ t[i - m] = t[j - m]
      BY <1>2, <2>2
    <3>2. i - m = j - m
      BY <1>1, <3>1 DEF Distinct
    <3> QED
      BY <1>1, <2>0, <3>2
  <2>3. CASE i <= m /\ ~(j <= m)
    BY <1>1, <1>2, <2>3 DEF ToSet
  <2>4. CASE ~(i <= m) /\ j <= m
    BY <1>1, <1>2, <2>4 DEF ToSet
  <2> QED
    BY <2>1, <2>2, <2>3, <2>4
<1>4. \A i \in 1..n : m + i \in 1..m + n /\ u[m + i] = t[i]
  BY <1>1
<1>5. \A i \in 1..m : i \in 1..m + n /\ u[i] = s[i]
  BY <1>1
<1>6. ToSet(u) = ToSet(s) \cup ToSet(t)
  <2>1. ToSet(u) \subseteq ToSet(s) \cup ToSet(t)
    <3> SUFFICES ASSUME NEW i \in 1..m + n PROVE u[i] \in ToSet(s) \cup ToSet(t)
      BY <1>1 DEF ToSet
    <3>1. CASE i <= m
      BY <1>1, <1>2, <3>1 DEF ToSet
    <3>2. CASE ~(i <= m)
      BY <1>1, <1>2, <3>2 DEF ToSet
    <3> QED
      BY <3>1, <3>2
  <2>2. ToSet(s) \subseteq ToSet(u) /\ ToSet(t) \subseteq ToSet(u)
    <3>1. ASSUME NEW i \in 1..m PROVE s[i] \in ToSet(u)
      BY <1>1, <1>5 DEF ToSet
    <3>2. ASSUME NEW i \in 1..n PROVE t[i] \in ToSet(u)
      BY <1>1, <1>4 DEF ToSet
    <3>3. ToSet(s) = {s[i] : i \in 1..m} /\ ToSet(t) = {t[i] : i \in 1..n}
      BY <1>1 DEF ToSet
    <3> QED
      BY <3>1, <3>2, <3>3
  <2> QED
    BY <2>1, <2>2
<1> QED
  BY <1>1, <1>3, <1>6 DEF u

Entry == Names \cup {Dot}

SameAnswer(i, k) == (i - 1) \div Batch = (k - 1) \div Batch

\* one of the first n entries is in the answer of entry k and could not be described
Spoiled(d, n, k) == \E i \in 1..n : SameAnswer(i, k) /\ d.entries[i] \in d.bad

\* n entries are what a number of answers hold
Whole(n) == \E q \in Nat : n = q * Batch

\* Listing d, of which the first n entries have been answered: those have been told
\* whose answers were not spoiled, and no others.
Listed(d, n) ==
    /\ d.entries \in Seq(Entry) /\ Distinct(d.entries)
    /\ d.told \in Seq(Entry) /\ Distinct(d.told)
    /\ d.offset \in 0..Len(d.entries) /\ n \in 0..d.offset
    /\ d.offset = Len(d.entries) \/ Whole(d.offset)
    /\ \A k \in 1..Len(d.entries) : d.entries[k] \in d.bad => k <= d.offset
    /\ ToSet(d.told) \subseteq ToSet(d.entries)
    /\ \A k \in 1..Len(d.entries) : d.entries[k] \in ToSet(d.told) <=> k <= n /\ ~Spoiled(d, n, k)

\* Answer o, which is put together after the first n entries of d have been
\* answered: either its entries have been taken in as they come, and none was bad, or
\* fewer have been than are announced.
Partial(d, n, o) ==
    /\ Whole(n) /\ o.announced = d.offset - n /\ o.announced \in 1..Batch
    /\ o.batch \in Seq(Entry) /\ o.told \in Seq(Entry)
    /\ Len(o.told) + Len(o.batch) <= o.announced
    /\ \A i \in 1..Len(o.batch) : o.batch[i] = d.entries[d.offset - Len(o.batch) + i]
    /\ IF Len(o.told) + Len(o.batch) = o.announced
       THEN /\ \A i \in 1..Len(o.told) : o.told[i] = d.entries[n + i]
            /\ \A i \in n + 1..d.offset : d.entries[i] \notin d.bad
       ELSE \E i \in n + 1..d.offset : d.entries[i] \in d.bad

\* the entries of listing h that have been answered
Answered(h) ==
    IF at = "listing" /\ op.handle = h THEN handles[h].offset - op.announced
    ELSE handles[h].offset

ListInv ==
    /\ present \subseteq Names
    /\ at = "listing" => Partial(handles[op.handle], Answered(op.handle), op)
    /\ \A h \in Handles : handles[h].kind = "dir" => Listed(handles[h], Answered(h))

-----------------------------------------------------------------------------
(* Answers hold Batch entries each *)

LEMMA QuotientIs ==
    ASSUME NEW q \in Nat, NEW i \in Int, q * Batch < i, i <= q * Batch + Batch
    PROVE  (i - 1) \div Batch = q
<1>1. Batch \in Nat /\ Batch > 0 /\ q * Batch \in Nat
  BY SftpAssumption
<1> DEFINE r == i - 1 - q * Batch
<1>2. r \in 0..Batch - 1 /\ i - 1 = q * Batch + r
  BY <1>1
<1> HIDE DEF r
<1>3. (q * Batch + r) \div Batch = q
  BY <1>1, <1>2
<1> QED
  BY <1>2, <1>3

\* those after the first n share an answer, and none with an earlier one.
LEMMA AnswerIsOne ==
    ASSUME NEW n \in Nat, Whole(n), NEW m \in Nat, m <= n + Batch
    PROVE  /\ \A i, k \in n + 1..m : SameAnswer(i, k)
           /\ \A i \in 1..n : \A k \in n + 1..m : ~SameAnswer(i, k) /\ ~SameAnswer(k, i)
<1>1. PICK q \in Nat : n = q * Batch
  BY DEF Whole
<1>2. Batch \in Nat /\ Batch > 0
  BY SftpAssumption
<1>3. \A k \in n + 1..m : (k - 1) \div Batch = q
  <2> SUFFICES ASSUME NEW k \in n + 1..m PROVE (k - 1) \div Batch = q
    OBVIOUS
  <2>1. k \in Int /\ q * Batch < k /\ k <= q * Batch + Batch
    BY <1>1, <1>2
  <2> QED
    BY <2>1, QuotientIs
<1>4. \A i \in 1..n : (i - 1) \div Batch # q
  <2> SUFFICES ASSUME NEW i \in 1..n, (i - 1) \div Batch = q PROVE FALSE
    OBVIOUS
  <2> DEFINE j == i - 1
  <2>0. j \in Nat /\ j < q * Batch
    BY <1>1
  <2> HIDE DEF j
  <2>1. j = Batch * (j \div Batch) + (j % Batch) /\ j % Batch \in 0..Batch - 1
    BY <1>2, <2>0
  <2>2. j \div Batch = q
    BY DEF j
  <2>3. j = Batch * q + (j % Batch) /\ j % Batch >= 0 /\ j % Batch \in Int
    BY <1>2, <2>1, <2>2
  <2>4. Batch * q = q * Batch /\ q * Batch \in Nat
    BY <1>2
  <2> QED
    BY <2>0, <2>3, <2>4
<1> QED
  BY <1>3, <1>4 DEF SameAnswer

LEMMA WholeGrows ==
    ASSUME NEW n \in Nat, Whole(n)
    PROVE  Whole(n + Batch)
<1>1. PICK q \in Nat : n = q * Batch
  BY DEF Whole
<1>2. n + Batch = (q + 1) * Batch
  BY <1>1, SftpAssumption
<1> QED
  BY <1>2 DEF Whole

\* Listing d becomes x, of which m entries have been answered instead of n.
LEMMA AnswerSettles ==
    ASSUME NEW d, NEW x, NEW n, Listed(d, n), Whole(n), d.offset <= n + Batch,
           x.entries = d.entries, x.offset = d.offset, d.bad \subseteq x.bad,
           \A k \in 1..Len(d.entries) :
              d.entries[k] \in x.bad => d.entries[k] \in d.bad \/ k \in n + 1..d.offset,
           x.told \in Seq(Entry), Distinct(x.told),
           \/ /\ \A i \in n + 1..d.offset : d.entries[i] \notin x.bad
              /\ ToSet(x.told) = ToSet(d.told) \cup {d.entries[i] : i \in n + 1..d.offset}
           \/ /\ \E i \in n + 1..d.offset : d.entries[i] \in x.bad
              /\ x.told = d.told
    PROVE  Listed(x, d.offset)
<1> DEFINE s == d.entries
           m == d.offset
           N == Len(s)
<1>1. /\ N \in Nat /\ m \in 0..N /\ n \in 0..m /\ m \in Nat /\ n \in Nat /\ DOMAIN s = 1..N
      /\ s \in Seq(Entry) /\ Distinct(s)
      /\ \A k \in 1..N : s[k] \in ToSet(d.told) <=> k <= n /\ ~Spoiled(d, n, k)
      /\ ToSet(d.told) \subseteq ToSet(s)
  BY DEF Listed
<1>2. /\ \A i, k \in n + 1..m : SameAnswer(i, k)
      /\ \A i \in 1..n : \A k \in n + 1..m : ~SameAnswer(i, k) /\ ~SameAnswer(k, i)
  BY <1>1, AnswerIsOne
<1> HIDE DEF s, m, N
<1>3. \A k \in 1..n : Spoiled(x, m, k) <=> Spoiled(d, n, k)
  <2> SUFFICES ASSUME NEW k \in 1..n PROVE Spoiled(x, m, k) <=> Spoiled(d, n, k)
    OBVIOUS
  <2>1. \A i \in 1..m : SameAnswer(i, k) => i \in 1..n
    BY <1>1, <1>2
  <2>2. \A i \in 1..n : i \in 1..m /\ i \in 1..N /\ i \notin n + 1..m
    BY <1>1
  <2>3. \A i \in 1..n : s[i] \in x.bad <=> s[i] \in d.bad
    BY <2>2 DEF s, m, N
  <2> QED
    BY <2>1, <2>2, <2>3 DEF Spoiled, s
<1>4. \A k \in n + 1..m : Spoiled(x, m, k) <=> \E i \in n + 1..m : s[i] \in x.bad
  <2> SUFFICES ASSUME NEW k \in n + 1..m
               PROVE  Spoiled(x, m, k) <=> \E i \in n + 1..m : s[i] \in x.bad
    OBVIOUS
  <2>1. \A i \in 1..m : i \in 1..n \/ i \in n + 1..m
    BY <1>1
  <2>2. \A i \in n + 1..m : i \in 1..m
    BY <1>1
  <2> QED
    BY <1>2, <2>1, <2>2 DEF Spoiled, s
<1>5. \A k \in 1..N : s[k] \in ToSet(x.told) <=> k <= m /\ ~Spoiled(x, m, k)
  <2> SUFFICES ASSUME NEW k \in 1..N
               PROVE  s[k] \in ToSet(x.told) <=> k <= m /\ ~Spoiled(x, m, k)
    OBVIOUS
  <2>1. k \in 1..n \/ k \in n + 1..m \/ k > m
    BY <1>1
  <2>2. \A i \in n + 1..m : i \in 1..N
    BY <1>1
  <2>3. s[k] \in {s[i] : i \in n + 1..m} <=> k \in n + 1..m
    <3>1. ASSUME NEW i \in n + 1..m, s[k] = s[i] PROVE k = i
      BY <1>1, <2>2, <3>1 DEF Distinct
    <3> QED
      BY <3>1
  <2>4. s[k] \in ToSet(d.told) <=> k \in 1..n /\ ~Spoiled(d, n, k)
    BY <1>1
  <2>5. k \in 1..n => k <= m /\ k \notin n + 1..m
    BY <1>1
  <2>6. k \in n + 1..m => k <= m
    BY <1>1
  <2>7. CASE /\ \A i \in n + 1..m : s[i] \notin x.bad
             /\ ToSet(x.told) = ToSet(d.told) \cup {s[i] : i \in n + 1..m}
    BY <1>1, <1>3, <1>4, <2>1, <2>3, <2>4, <2>5, <2>6, <2>7
  <2>8. CASE /\ \E i \in n + 1..m : s[i] \in x.bad
             /\ x.told = d.told
    BY <1>1, <1>3, <1>4, <2>1, <2>4, <2>5, <2>6, <2>8
  <2> QED
    BY <2>7, <2>8 DEF s, m
<1>6. ToSet(x.told) \subseteq ToSet(s)
  <2>1. \A i \in n + 1..m : i \in 1..N
    BY <1>1
  <2>2. {s[i] : i \in n + 1..m} \subseteq ToSet(s)
    BY <1>1, <2>1 DEF ToSet
  <2> QED
    BY <1>1, <2>2 DEF s, m
<1>7. \A k \in 1..N : s[k] \in x.bad => k <= m
  <2>1. \A k \in n + 1..m : k <= m
    BY <1>1
  <2> QED
    BY <2>1 DEF Listed, s, m, N
<1> QED
  BY <1>1, <1>5, <1>6, <1>7 DEF Listed, s, m, N

\* ... and while one is put together.
LEMMA AnswerGoesOn ==
    ASSUME NEW d, NEW x, NEW n, Listed(d, n), x.entries = d.entries, x.offset = d.offset,
           x.told = d.told, d.bad \subseteq x.bad,
           \A k \in 1..Len(d.entries) :
              d.entries[k] \in x.bad => d.entries[k] \in d.bad \/ k \in n + 1..d.offset
    PROVE  Listed(x, n)
<1> DEFINE s == d.entries
           m == d.offset
           N == Len(s)
<1>1. /\ N \in Nat /\ m \in 0..N /\ n \in 0..m /\ m \in Nat /\ n \in Nat
  BY DEF Listed
<1>2. \A i \in 1..n : i \in 1..N /\ i \notin n + 1..m
  BY <1>1
<1>3. \A i \in 1..n : s[i] \in x.bad <=> s[i] \in d.bad
  BY <1>2
<1>4. \A k : Spoiled(x, n, k) <=> Spoiled(d, n, k)
  BY <1>3 DEF Spoiled
<1>5. \A k \in 1..N : s[k] \in x.bad => k <= m
  <2>1. \A k \in n + 1..m : k <= m
    BY <1>1
  <2> QED
    BY <2>1 DEF Listed
<1> QED
  BY <1>4, <1>5 DEF Listed

-----------------------------------------------------------------------------
(* The steps that use listings *)

LEMMA EmptyHasNothing == ToSet(<<>>) = {} /\ Distinct(<<>>) /\ \A S : <<>> \in Seq(S)
  BY DEF ToSet, Distinct

\* Steps that change no listing.
LEMMA ListingsStay ==
    ASSUME ListInv, present' \subseteq Names,
           \A h \in Handles : handles'[h].kind = "dir" => handles'[h] = handles[h],
           \/ at' = at /\ op' = op /\ handles' = handles
           \/ at # "listing" /\ at' # "listing"
    PROVE  ListInv'
<1>1. CASE at' = at /\ op' = op /\ handles' = handles
  <2>1. \A h : Answered(h)' = Answered(h)
    BY <1>1 DEF Answered
  <2>2. \A h, n : Listed(handles[h], n) => Listed(handles[h], n)'
    BY <1>1 DEF Listed, Spoiled
  <2>3. \A h, n : Partial(handles[h], n, op) => Partial(handles[h], n, op)'
    BY <1>1 DEF Partial
  <2> QED
    BY <1>1, <2>1, <2>2, <2>3 DEF ListInv
<1>2. CASE at # "listing" /\ at' # "listing"
  <2> SUFFICES ASSUME NEW h \in Handles, handles'[h].kind = "dir"
               PROVE  Listed(handles[h], Answered(h))'
    BY <1>2 DEF ListInv
  <2>1. handles'[h] = handles[h] /\ Listed(handles[h], Answered(h))
    BY DEF ListInv
  <2>2. Answered(h)' = Answered(h)
    BY <1>2, <2>1 DEF Answered
  <2> QED
    BY <2>1, <2>2 DEF Listed, Spoiled
<1> QED
  BY <1>1, <1>2

\* Steps that change listing h, of which n entries are answered afterwards, and no
\* other.
LEMMA ListingChanges ==
    ASSUME FInv, ListInv, NEW h \in Handles, NEW x, UNCHANGED present,
           handles' = [handles EXCEPT ![h] = x],
           at = "listing" => op.handle = h,
           NEW n, Listed(x, n),
           \/ at' # "listing" /\ n = x.offset
           \/ /\ at' = "listing" /\ op'.handle = h
              /\ n = x.offset - op'.announced /\ Partial(x, n, op')
    PROVE  ListInv'
<1>1. handles'[h] = x /\ \A g \in Handles : g # h => handles'[g] = handles[g]
  BY DEF FInv, TableInv
<1>2. /\ Answered(h)' = n
      /\ \A g \in Handles : g # h => /\ Answered(g) = handles[g].offset
                                     /\ Answered(g)' = handles[g].offset
  BY <1>1 DEF Answered
<1>3. \A g \in Handles : handles'[g].kind = "dir" => Listed(handles[g], Answered(g))'
  <2> SUFFICES ASSUME NEW g \in Handles, handles'[g].kind = "dir"
               PROVE  Listed(handles[g], Answered(g))'
    OBVIOUS
  <2>1. CASE g = h
    BY <1>1, <1>2, <2>1 DEF Listed, Spoiled
  <2>2. CASE g # h
    <3>1. Listed(handles[g], handles[g].offset)
      BY <1>1, <1>2, <2>2 DEF ListInv
    <3> QED
      BY <1>1, <1>2, <2>2, <3>1 DEF Listed, Spoiled
  <2> QED
    BY <2>1, <2>2
<1>4. CASE at' # "listing"
  BY <1>3, <1>4 DEF ListInv
<1>5. CASE at' = "listing"
  <2>1. handles'[op'.handle] = x /\ Answered(h)' = n /\ op'.handle = h /\ Partial(x, n, op')
    BY <1>1, <1>2, <1>5
  <2>2. Partial(handles[op.handle], Answered(op.handle), op)'
    BY <2>1 DEF Partial
  <2> QED
    BY <1>3, <2>2 DEF ListInv
<1> QED
  BY <1>4, <1>5

\* The fields of a listing of which one has been set.
LEMMA ListingFields ==
    ASSUME NEW d, DirShape(d), d.kind = "dir", NEW v
    PROVE  /\ LET x == [d EXCEPT !.offset = v]
              IN  x.offset = v /\ x.entries = d.entries /\ x.told = d.told /\ x.bad = d.bad
           /\ LET x == [d EXCEPT !.told = v]
              IN  x.told = v /\ x.entries = d.entries /\ x.offset = d.offset /\ x.bad = d.bad
           /\ LET x == [d EXCEPT !.bad = v]
              IN  x.bad = v /\ x.entries = d.entries /\ x.offset = d.offset /\ x.told = d.told
<1>1. DOMAIN d = {"kind", "entries", "offset", "told", "bad"}
  BY DEF DirShape
<1> QED
  BY <1>1

\* What READDIR takes next has not been told, and the offset moves behind it.
\* What READDIR takes next.
LEMMA BatchIsNext ==
    ASSUME NEW d, Listed(d, d.offset)
    PROVE  LET b == NextBatch(d)
               n == Advanced(d)
           IN  /\ n \in d.offset..Len(d.entries) /\ n <= d.offset + Batch
               /\ n = Len(d.entries) \/ n = d.offset + Batch
               /\ b \in Seq(Entry) /\ Len(b) = n - d.offset
               /\ \A i \in 1..Len(b) : b[i] = d.entries[d.offset + i]
<1> DEFINE s == d.entries
           m == d.offset
           n == IF m + Batch < Len(s) THEN m + Batch ELSE Len(s)
           b == SubSeq(s, m + 1, n)
<1>1. /\ s \in Seq(Entry) /\ Len(s) \in Nat
      /\ m \in 0..Len(s) /\ n \in m..Len(s) /\ m \in Nat /\ n \in Nat
      /\ n <= m + Batch /\ (n = Len(s) \/ n = m + Batch)
  BY SftpAssumption DEF Listed
<1>2. b \in Seq(Entry) /\ Len(b) = n - m /\ \A i \in 1..n - m : b[i] = s[m + i]
  <2> HIDE DEF n
  <2>1. n - m \in Nat /\ m + 1 \in Int /\ n \in Int
    BY <1>1
  <2>2. \A i \in m + 1..n : i \in 1..Len(s)
    BY <1>1
  <2>3. \A i \in m + 1..n : s[i] \in Entry
    BY <1>1, <2>2
  <2>4. /\ b \in Seq(Entry) /\ Len(b) = IF m + 1 <= n THEN n - (m + 1) + 1 ELSE 0
        /\ \A i \in 1..n - (m + 1) + 1 : b[i] = s[m + 1 + i - 1]
    BY <2>1, <2>3, SubSeqProperties
  <2> HIDE DEF b
  <2>5. Len(b) = n - m
    BY <1>1, <2>4
  <2>6. \A i \in 1..n - m : m + 1 + i - 1 = m + i /\ i \in 1..n - (m + 1) + 1
    BY <1>1
  <2> QED
    BY <2>4, <2>5, <2>6
<1>3. NextBatch(d) = b /\ Advanced(d) = n
  BY <1>1, <1>2 DEF NextBatch, Advanced
<1> HIDE DEF b, n
<1> QED
  BY <1>1, <1>2, <1>3

LEMMA ReaddirLists ==
    ASSUME FInv, ListInv, NEW h \in Handles, Readdir(h)
    PROVE  ListInv'
<1> DEFINE d == handles[h]
           s == d.entries
           m == d.offset
           b == NextBatch(d)
           n == Advanced(d)
           x == [d EXCEPT !.offset = n]
<1>1. d.kind = "dir" /\ DirShape(d) /\ DOMAIN handles = Handles
  BY DEF Readdir, FInv, TableInv
<1>2. handles' = [handles EXCEPT ![h] = x] /\ UNCHANGED present /\ at = "feeding"
  BY <1>1 DEF Readdir, fsVars, Takes
<1>3. Listed(d, m)
  BY <1>1, <1>2 DEF ListInv, Answered
<1>4. /\ n \in m..Len(s) /\ n <= m + Batch /\ (n = Len(s) \/ n = m + Batch)
      /\ b \in Seq(Entry) /\ Len(b) = n - m
      /\ \A i \in 1..Len(b) : b[i] = s[m + i]
  BY <1>3, BatchIsNext
<1>5. x.offset = n /\ x.entries = s /\ x.told = d.told /\ x.bad = d.bad
  BY <1>1, ListingFields
<1> HIDE DEF x, b, n
<1>6. /\ Len(s) \in Nat /\ m \in 0..Len(s) /\ (m = Len(s) \/ Whole(m))
      /\ \A k \in 1..Len(s) : s[k] \in d.bad => k <= m
  BY <1>3 DEF Listed
<1>7. Listed(x, m)
  <2>1. n = Len(s) \/ Whole(n)
    BY <1>4, <1>6, WholeGrows, SftpAssumption
  <2>2. \A k \in 1..Len(s) : s[k] \in x.bad => k <= n
    BY <1>4, <1>5, <1>6
  <2>3. n \in 0..Len(s) /\ m \in 0..n
    BY <1>4, <1>6
  <2>4. \A k : Spoiled(x, m, k) <=> Spoiled(d, m, k)
    BY <1>5 DEF Spoiled
  <2> QED
    BY <1>3, <1>5, <2>1, <2>2, <2>3, <2>4 DEF Listed
<1>8. CASE b = <<>> /\ at' # "listing"
  <2>1. m = n
    BY <1>4, <1>6, <1>8
  <2> QED
    BY <1>2, <1>5, <1>7, <1>8, <2>1, ListingChanges
<1>9. CASE /\ b # <<>> /\ at' = "listing"
           /\ op' = [kind |-> "readdir", handle |-> h, announced |-> Len(b),
                     batch |-> b, told |-> <<>>]
  <2>1. /\ op'.handle = h /\ op'.told = <<>> /\ op'.batch = b /\ op'.announced = n - m
    BY <1>4, <1>9
  <2>2. Len(b) # 0
    BY <1>4, <1>9, EmptySeq
  <2>3. n - m \in 1..Batch /\ m # Len(s)
    BY <1>4, <1>6, <2>2, SftpAssumption
  <2>4. \A i \in 1..Len(b) : b[i] = s[n - Len(b) + i]
    <3>1. n - Len(b) = m
      BY <1>4, <1>6
    <3>2. \A i \in 1..Len(b) : b[i] = s[m + i]
      BY <1>4
    <3> QED
      BY <3>1, <3>2
  <2>5. \A i \in m + 1..n : s[i] \notin d.bad
    <3>1. \A i \in m + 1..n : i \in 1..Len(s) /\ ~(i <= m)
      BY <1>4, <1>6
    <3> QED
      BY <1>6, <3>1
  <2>6. /\ Len(op'.told) = 0 /\ Len(op'.told) + Len(op'.batch) = op'.announced
        /\ op'.told \in Seq(Entry) /\ op'.batch \in Seq(Entry)
    BY <1>4, <1>6, <2>1
  <2>7. Partial(x, m, op')
    <3>1. Whole(m) /\ op'.announced = x.offset - m /\ op'.announced \in 1..Batch
      BY <1>5, <1>6, <2>1, <2>3
    <3>2. \A i \in 1..Len(op'.batch) : op'.batch[i] = x.entries[x.offset - Len(op'.batch) + i]
      BY <1>5, <2>1, <2>4
    <3>3. Len(op'.told) + Len(op'.batch) <= op'.announced
      BY <2>3, <2>1, <2>6
    <3>4. \A i \in 1..Len(op'.told) : op'.told[i] = x.entries[m + i]
      BY <2>6
    <3> QED
      BY <1>5, <2>5, <2>6, <3>1, <3>2, <3>3, <3>4 DEF Partial
  <2>8. m = x.offset - op'.announced
    BY <1>4, <1>5, <1>6, <2>1
  <2> QED
    BY <1>2, <1>7, <1>9, <2>1, <2>7, <2>8, ListingChanges
<1> QED
  BY <1>8, <1>9 DEF Readdir, Answers, b, n

\* What is known of an answer that is being put together.
LEMMA UnderWay ==
    ASSUME FInv, ListInv, ListEntry \/ ListSend
    PROVE  LET h == op.handle
               d == handles[h]
               n == d.offset - op.announced
           IN  /\ at = "listing" /\ h \in Handles /\ d.kind = "dir" /\ DirShape(d)
               /\ DOMAIN handles = Handles /\ UNCHANGED present
               /\ handles = [handles EXCEPT ![h] = d]
               /\ op = [kind |-> "readdir", handle |-> h, announced |-> op.announced,
                        batch |-> op.batch, told |-> op.told]
               /\ Listed(d, n) /\ Partial(d, n, op)
               /\ n \in Nat /\ d.offset \in Nat /\ n <= d.offset /\ d.offset <= n + Batch
               /\ d.offset <= Len(d.entries) /\ Len(d.entries) \in Nat
               /\ DOMAIN d.entries = 1..Len(d.entries)
<1> DEFINE h == op.handle
           d == handles[h]
           n == d.offset - op.announced
<1>1. /\ at = "listing" /\ h \in Handles /\ d.kind = "dir" /\ DirShape(d)
      /\ DOMAIN handles = Handles /\ UNCHANGED present
      /\ handles = [handles EXCEPT ![h] = d]
      /\ op = [kind |-> "readdir", handle |-> h, announced |-> op.announced,
               batch |-> op.batch, told |-> op.told]
  BY DEF ListEntry, ListSend, FInv, UnderWayInv, TableInv, fsVars
<1>2. Listed(d, n) /\ Partial(d, n, op)
  BY <1>1 DEF ListInv, Answered
<1>3. /\ n \in Nat /\ d.offset \in Nat /\ n <= d.offset /\ d.offset <= Len(d.entries)
      /\ Len(d.entries) \in Nat /\ DOMAIN d.entries = 1..Len(d.entries)
  BY <1>2 DEF Listed
<1>4. op.announced \in 1..Batch
  BY <1>2 DEF Partial
<1>5. d.offset <= n + Batch
  BY <1>3, <1>4, SftpAssumption
<1> QED
  BY <1>1, <1>2, <1>3, <1>5

LEMMA ListEntryLists ==
    ASSUME FInv, ListInv, ListEntry
    PROVE  ListInv'
<1> DEFINE h == op.handle
           d == handles[h]
           s == d.entries
           m == d.offset
           n == m - op.announced
           b == op.batch
           t == op.told
           e == Head(b)
           p == m - Len(b) + 1
           x == [d EXCEPT !.bad = d.bad \cup {e}]
<1>1. /\ at = "listing" /\ b # <<>> /\ h \in Handles /\ d.kind = "dir" /\ DirShape(d)
      /\ DOMAIN handles = Handles /\ UNCHANGED present
      /\ handles = [handles EXCEPT ![h] = d]
      /\ op = [kind |-> "readdir", handle |-> h, announced |-> op.announced, batch |-> b,
               told |-> t]
      /\ Listed(d, n) /\ Partial(d, n, op)
      /\ n \in Nat /\ m \in Nat /\ n <= m /\ m <= n + Batch /\ m <= Len(s)
      /\ Len(s) \in Nat /\ DOMAIN s = 1..Len(s)
  BY UnderWay DEF ListEntry
<1>2. /\ Whole(n) /\ op.announced = m - n /\ op.announced \in 1..Batch
      /\ b \in Seq(Entry) /\ t \in Seq(Entry)
      /\ Len(t) + Len(b) <= op.announced
      /\ \A i \in 1..Len(b) : b[i] = s[m - Len(b) + i]
      /\ IF Len(t) + Len(b) = op.announced
         THEN /\ \A i \in 1..Len(t) : t[i] = s[n + i]
              /\ \A i \in n + 1..m : s[i] \notin d.bad
         ELSE \E i \in n + 1..m : s[i] \in d.bad
  BY <1>1 DEF Partial
<1>0. op.batch = b /\ op.told = t /\ op.handle = h /\ s = d.entries /\ m = d.offset
  OBVIOUS
<1> HIDE DEF b, t
<1>3. /\ Len(b) \in Nat \ {0} /\ Len(t) \in Nat /\ e = b[1] /\ e \in Entry
      /\ Tail(b) \in Seq(Entry) /\ Len(Tail(b)) = Len(b) - 1
      /\ \A i \in 1..Len(b) - 1 : Tail(b)[i] = b[i + 1]
  BY <1>1, <1>2
<1> HIDE DEF n, m, s
<1>4. p \in n + 1..m /\ p \in 1..Len(s) /\ e = s[p]
  <2>1. Len(b) <= m - n
    BY <1>1, <1>2, <1>3
  <2>2. b[1] = s[m - Len(b) + 1]
    BY <1>2, <1>3
  <2> QED
    BY <1>1, <1>3, <2>1, <2>2
<1>5. \A i \in 1..Len(Tail(b)) : Tail(b)[i] = s[m - Len(Tail(b)) + i]
  <2> SUFFICES ASSUME NEW i \in 1..Len(b) - 1
               PROVE  Tail(b)[i] = s[m - (Len(b) - 1) + i]
    BY <1>3
  <2>1. i + 1 \in 1..Len(b) /\ m - Len(b) + (i + 1) = m - (Len(b) - 1) + i
    BY <1>1, <1>3
  <2> QED
    BY <1>2, <1>3, <2>1
<1>6. /\ x.bad = d.bad \cup {e} /\ x.entries = s /\ x.offset = m /\ x.told = d.told
  BY <1>1, ListingFields DEF s, m
<1>7. \A k \in 1..Len(s) : s[k] \in x.bad => s[k] \in d.bad \/ k \in n + 1..m
  BY <1>1, <1>4, <1>6 DEF Listed, Distinct, s
<1> HIDE DEF x, p, e
<1>9. CASE /\ op' = [op EXCEPT !.batch = Tail(@), !.told = Append(@, e)]
           /\ UNCHANGED <<at, handles>>
  <2> DEFINE u == Append(t, e)
  <2>1. op'.handle = h /\ op'.batch = Tail(b) /\ op'.told = u /\ op'.announced = op.announced
    <3>1. op' = [[op EXCEPT !.batch = Tail(b)] EXCEPT !.told = u]
      BY <1>0, <1>1, <1>9
    <3>2. DOMAIN op = {"kind", "handle", "announced", "batch", "told"}
      BY <1>1
    <3> QED
      BY <3>1, <3>2
  <2>2. /\ u \in Seq(Entry) /\ Len(u) = Len(t) + 1 /\ u[Len(t) + 1] = e
        /\ \A i \in 1..Len(t) : u[i] = t[i]
    BY <1>2, <1>3
  <2> HIDE DEF u
  <2>3. Len(u) + Len(Tail(b)) = Len(t) + Len(b)
    BY <1>3, <2>2
  <2>4. ASSUME Len(t) + Len(b) = op.announced, NEW i \in 1..Len(u)
        PROVE  u[i] = s[n + i]
    <3>1. n + Len(t) + 1 = p
      <4>1. Len(t) + Len(b) = m - n
        BY <1>2, <2>4
      <4>2. m \in Int /\ n \in Int /\ Len(b) \in Int /\ Len(t) \in Int
        BY <1>1, <1>3
      <4> QED
        BY <4>1, <4>2 DEF p
    <3>2. i \in 1..Len(t) \/ i = Len(t) + 1
      BY <1>3, <2>2
    <3>3. CASE i \in 1..Len(t)
      BY <1>2, <2>2, <2>4, <3>3
    <3>4. CASE i = Len(t) + 1
      <4>1. n + i = p
        BY <1>1, <1>3, <3>1, <3>4
      <4> QED
        BY <1>4, <2>2, <3>4, <4>1
    <3> QED
      BY <3>2, <3>3, <3>4
  <2>5. Partial(d, n, op')
    BY <1>0, <1>2, <1>3, <1>5, <2>1, <2>2, <2>3, <2>4 DEF Partial
  <2>6. n = d.offset - op'.announced
    BY <2>1 DEF n, m
  <2> QED
    BY <1>1, <1>9, <2>1, <2>5, <2>6, ListingChanges
<1>10. CASE /\ handles' = [handles EXCEPT ![h].bad = @ \cup {e}] /\ at' = at
            /\ op' = [op EXCEPT !.batch = Tail(@)]
  <2>1. op'.handle = h /\ op'.batch = Tail(b) /\ op'.told = t /\ op'.announced = op.announced
    <3>1. op' = [op EXCEPT !.batch = Tail(b)]
      BY <1>0, <1>10
    <3>2. DOMAIN op = {"kind", "handle", "announced", "batch", "told"}
      BY <1>1
    <3> QED
      BY <1>0, <3>1, <3>2
  <2>2. handles' = [handles EXCEPT ![h] = x]
    BY <1>1, <1>10 DEF x
  <2>3. Listed(x, n)
    BY <1>0, <1>1, <1>6, <1>7, AnswerGoesOn
  <2>4. Len(t) + Len(Tail(b)) < op.announced
    BY <1>1, <1>2, <1>3
  <2>5. \E i \in n + 1..m : s[i] \in x.bad
    BY <1>4, <1>6
  <2>6. Partial(x, n, op')
    <3>1. Len(t) + Len(Tail(b)) # op.announced /\ Len(t) + Len(Tail(b)) <= op.announced
      BY <1>2, <1>3, <2>4
    <3> QED
      BY <1>2, <1>3, <1>5, <1>6, <2>1, <2>5, <3>1 DEF Partial
  <2>7. n = x.offset - op'.announced
    BY <1>6, <2>1 DEF n
  <2> QED
    BY <1>1, <1>10, <2>1, <2>2, <2>3, <2>6, <2>7, ListingChanges
<1>11. CASE handles' = [handles EXCEPT ![h].bad = @ \cup {e}] /\ Answers(taken)
  <2>1. at' # "listing"
    BY <1>11 DEF Answers
  <2>2. handles' = [handles EXCEPT ![h] = x]
    BY <1>1, <1>11 DEF x
  <2>3. \E i \in n + 1..m : s[i] \in x.bad
    BY <1>4, <1>6
  <2>4. d.told \in Seq(Entry) /\ Distinct(d.told)
    BY <1>1 DEF Listed
  <2>5. Listed(x, m)
    <3>1. /\ x.entries = d.entries /\ x.offset = d.offset /\ d.bad \subseteq x.bad
          /\ x.told \in Seq(Entry) /\ Distinct(x.told) /\ x.told = d.told
          /\ d.offset <= n + Batch /\ Listed(d, n) /\ Whole(n)
      BY <1>0, <1>1, <1>2, <1>6, <2>4
    <3>2. \A k \in 1..Len(d.entries) :
             d.entries[k] \in x.bad => d.entries[k] \in d.bad \/ k \in n + 1..d.offset
      BY <1>0, <1>7
    <3>3. \E i \in n + 1..d.offset : d.entries[i] \in x.bad
      BY <1>0, <2>3
    <3>4. Listed(x, d.offset)
      BY <3>1, <3>2, <3>3, AnswerSettles
    <3> QED
      BY <1>0, <3>4
  <2> QED
    BY <1>1, <1>6, <2>1, <2>2, <2>5, ListingChanges
<1> QED
  BY <1>9, <1>10, <1>11 DEF ListEntry, e, b

LEMMA ListSendLists ==
    ASSUME FInv, ListInv, ListSend
    PROVE  ListInv'
<1> DEFINE h == op.handle
           d == handles[h]
           s == d.entries
           m == d.offset
           n == m - op.announced
           t == op.told
           x == [d EXCEPT !.told = d.told \o t]
<1>1. /\ at = "listing" /\ op.batch = <<>> /\ h \in Handles /\ d.kind = "dir" /\ DirShape(d)
      /\ DOMAIN handles = Handles /\ UNCHANGED present
      /\ handles = [handles EXCEPT ![h] = d]
      /\ Listed(d, n) /\ Partial(d, n, op)
      /\ n \in Nat /\ m \in Nat /\ n <= m /\ m <= n + Batch /\ m <= Len(s)
      /\ Len(s) \in Nat /\ DOMAIN s = 1..Len(s)
  BY UnderWay DEF ListSend
<1>2. /\ Whole(n) /\ op.announced = m - n /\ t \in Seq(Entry)
      /\ IF Len(t) = op.announced
         THEN /\ \A i \in 1..Len(t) : t[i] = s[n + i]
              /\ \A i \in n + 1..m : s[i] \notin d.bad
         ELSE \E i \in n + 1..m : s[i] \in d.bad
  <2>1. Len(op.batch) = 0 /\ Len(t) \in Nat
    BY <1>1 DEF Partial
  <2> QED
    BY <1>1, <2>1 DEF Partial
<1>3. /\ s \in Seq(Entry) /\ Distinct(s) /\ d.told \in Seq(Entry) /\ Distinct(d.told)
      /\ \A k \in 1..Len(s) : s[k] \in ToSet(d.told) => k <= n
  BY <1>1 DEF Listed
<1>4. at' # "listing"
  BY DEF ListSend, Answers
<1>0. op.told = t /\ op.handle = h /\ s = d.entries /\ m = d.offset
  OBVIOUS
<1> HIDE DEF n, m, s, t
<1>5. CASE Len(t) = op.announced
  <2>1. handles' = [handles EXCEPT ![h] = x]
    BY <1>0, <1>1, <1>5 DEF ListSend
  <2>2. /\ Len(t) = m - n /\ DOMAIN t = 1..m - n
        /\ \A i \in 1..m - n : t[i] = s[n + i] /\ n + i \in n + 1..m /\ n + i \in 1..Len(s)
    <3>1. Len(t) = m - n /\ DOMAIN t = 1..m - n
      BY <1>2, <1>5
    <3>2. \A i \in 1..m - n : t[i] = s[n + i]
      BY <1>2, <1>5, <3>1
    <3>3. \A i \in 1..m - n : n + i \in n + 1..m /\ n + i \in 1..Len(s)
      BY <1>1
    <3> QED
      BY <3>1, <3>2, <3>3
  <2>3. Distinct(t)
    <3> SUFFICES ASSUME NEW i \in 1..m - n, NEW j \in 1..m - n, t[i] = t[j]
                 PROVE  i = j
      BY <2>2 DEF Distinct
    <3>1. n + i = n + j
      <4>1. n + i \in DOMAIN s /\ n + j \in DOMAIN s /\ s[n + i] = s[n + j]
        BY <1>1, <2>2
      <4> QED
        BY <1>3, <4>1 DEF Distinct
    <3> QED
      BY <1>1, <3>1
  <2>4. ToSet(t) = {s[i] : i \in n + 1..m}
    <3>1. ToSet(t) = {t[i] : i \in 1..m - n}
      BY <2>2 DEF ToSet
    <3>2. \A i \in n + 1..m : i - n \in 1..m - n /\ n + (i - n) = i
      BY <1>1
    <3>3. \A i \in n + 1..m : t[i - n] = s[i]
      BY <2>2, <3>2
    <3>4. \A i \in 1..m - n : t[i] = s[n + i] /\ n + i \in n + 1..m
      BY <2>2
    <3>5. ToSet(t) \subseteq {s[i] : i \in n + 1..m}
      BY <3>1, <3>4
    <3>6. {s[i] : i \in n + 1..m} \subseteq ToSet(t)
      BY <3>1, <3>2, <3>3
    <3> QED
      BY <3>5, <3>6
  <2>5. ToSet(d.told) \cap ToSet(t) = {}
    <3>1. \A i \in n + 1..m : i \in 1..Len(s) /\ ~(i <= n)
      BY <1>1
    <3> QED
      BY <1>3, <2>4, <3>1
  <2>6. /\ d.told \o t \in Seq(Entry) /\ Distinct(d.told \o t)
        /\ ToSet(d.told \o t) = ToSet(d.told) \cup {s[i] : i \in n + 1..m}
    BY <1>2, <1>3, <2>3, <2>4, <2>5, JoinedIsDistinct
  <2>7. x.told = d.told \o t /\ x.entries = s /\ x.offset = m /\ x.bad = d.bad
    <3> DEFINE v == d.told \o t
    <3> HIDE DEF v
    <3>1. LET y == [d EXCEPT !.told = v]
          IN  y.told = v /\ y.entries = d.entries /\ y.offset = d.offset /\ y.bad = d.bad
      BY <1>1, ListingFields
    <3> QED
      BY <1>0, <3>1 DEF v
  <2> HIDE DEF x
  <2>8. Listed(x, m)
    <3>1. /\ x.entries = d.entries /\ x.offset = d.offset /\ x.bad = d.bad
          /\ x.told \in Seq(Entry) /\ Distinct(x.told)
          /\ d.offset <= n + Batch /\ Listed(d, n) /\ Whole(n)
      BY <1>0, <1>1, <1>2, <2>6, <2>7
    <3>2. /\ \A i \in n + 1..d.offset : d.entries[i] \notin x.bad
          /\ ToSet(x.told) = ToSet(d.told) \cup {d.entries[i] : i \in n + 1..d.offset}
      BY <1>0, <1>2, <1>5, <2>6, <2>7
    <3>3. Listed(x, d.offset)
      BY <3>1, <3>2, AnswerSettles
    <3> QED
      BY <1>0, <3>3
  <2> QED
    BY <1>1, <1>4, <2>1, <2>7, <2>8, ListingChanges
<1>6. CASE Len(t) # op.announced
  <2>1. handles' = [handles EXCEPT ![h] = d]
    BY <1>0, <1>1, <1>6 DEF ListSend
  <2>2. Listed(d, m)
    BY <1>0, <1>1, <1>2, <1>3, <1>6, AnswerSettles
  <2> QED
    BY <1>0, <1>1, <1>4, <2>1, <2>2, ListingChanges
<1> QED
  BY <1>5, <1>6

\* An OPENDIR lists the directory as it is, with "." before it.
LEMMA OpendirLists ==
    ASSUME FInv, ListInv, Opendir
    PROVE  ListInv'
<1>1. PICK order \in SetToSeqs(present) :
         Gives([kind |-> "dir", entries |-> <<Dot>> \o order, offset |-> 0,
                told |-> <<>>, bad |-> {}])
  BY DEF Opendir
<1> DEFINE s == <<Dot>> \o order
           x == [kind |-> "dir", entries |-> s, offset |-> 0, told |-> <<>>, bad |-> {}]
<1>2. Cardinality(present) \in Nat
  BY SftpAssumption, FS_Subset, FS_CardinalityType DEF ListInv
<1>3. order \in Seq(Entry) /\ Distinct(order) /\ ToSet(order) \subseteq Names
  <2>1. /\ order \in [1..Cardinality(present) -> present]
        /\ \A i, j \in 1..Cardinality(present) : i # j => order[i] # order[j]
    BY DEF SetToSeqs
  <2>2. order \in Seq(Entry)
    BY <1>2, <2>1 DEF ListInv, Entry
  <2> QED
    BY <2>1, <2>2 DEF Distinct, ToSet, ListInv
<1>4. <<Dot>> \in Seq(Entry) /\ Distinct(<<Dot>>) /\ ToSet(<<Dot>>) = {Dot}
  BY DEF Entry, Distinct, ToSet
<1>5. s \in Seq(Entry) /\ Distinct(s)
  <2>1. Dot \notin Names
    BY SftpAssumption DEF Dot
  <2>2. ToSet(<<Dot>>) \cap ToSet(order) = {}
    BY <1>3, <1>4, <2>1
  <2> QED
    BY <1>3, <1>4, <2>2, JoinedIsDistinct
<1> HIDE DEF s
<1>6. Listed(x, 0)
  <2>1. Whole(0)
    BY SftpAssumption DEF Whole
  <2> QED
    BY <1>5, <2>1, EmptyHasNothing DEF Listed
<1>7. handles' = [handles EXCEPT ![nextHandle] = x]
  BY <1>1 DEF Gives, NewHandle, s
<1>8. /\ nextHandle \in Handles /\ UNCHANGED present /\ at = "feeding" /\ at' # "listing"
  BY SftpAssumption DEF Opendir, Takes, Answers, fsVars, FInv, TableInv, Handles
<1>9. x.offset = 0
  OBVIOUS
<1> HIDE DEF x
<1> QED
  BY <1>6, <1>7, <1>8, <1>9, ListingChanges

LEMMA ListStep ==
    ASSUME FInv, ListInv, [Next]_vars
    PROVE  ListInv'
<1>0. present \subseteq Names /\ DOMAIN handles = Handles
  BY DEF ListInv, FInv, TableInv
<1>1. CASE Ask \/ Feed \/ FeedReturns \/ EofArrives \/ CloseArrives \/ CloseEnds
  BY <1>0, <1>1, ListingsStay DEF Ask, Feed, FeedReturns, EofArrives, CloseArrives, CloseEnds,
     tableVars, fsVars
<1>2. CASE Unreadable \/ PlainRequest \/ RemovePath
  BY <1>0, <1>2, ListingsStay DEF Unreadable, PlainRequest, RemovePath, Takes, Answers,
     tableVars, fsVars
<1>3. CASE OpenLooks \/ OpenExcludes \/ OpenFails
  BY <1>0, <1>3, ListingsStay DEF OpenLooks, OpenExcludes, OpenFails, Excludes, Answers,
     tableVars, fsVars
<1>4. CASE \E flags \in FlagSets : Open(flags)
  BY <1>0, <1>4, ListingsStay DEF Open, Excludes, Takes, tableVars, fsVars
<1>5. ASSUME NEW h \in Handles, Read(h) \/ SeekOnly(h) \/ Write(h) \/ WriteFails(h)
      PROVE  ListInv'
  <2>1. /\ IsFile(h) /\ FileShape(handles[h]) /\ UNCHANGED present
        /\ at = "feeding" /\ at' # "listing"
    BY <1>5 DEF Read, Readable, SeekOnly, Write, WriteFails, Writable, IsFile, Takes, Answers, FInv,
       TableInv
  <2>2. \E c, v : handles' = [handles EXCEPT ![h].cache = c, ![h].dirty = v]
    BY <1>5 DEF Read, SeekOnly, Write, WriteFails
  <2>3. PICK c, v : handles' = [handles EXCEPT ![h].cache = c, ![h].dirty = v]
    BY <2>2
  <2>4. /\ handles'[h] = [[handles[h] EXCEPT !.cache = c] EXCEPT !.dirty = v]
        /\ \A g \in Handles : g # h => handles'[g] = handles[g]
    BY <1>0, <2>3
  <2>5. handles'[h].kind = "file"
    <3>1. [[handles[h] EXCEPT !.cache = c] EXCEPT !.dirty = v] =
            [kind |-> "file", inode |-> handles[h].inode, reads |-> handles[h].reads,
             writes |-> handles[h].writes, cache |-> c, dirty |-> v]
      BY <2>1, BufferChanged
    <3>2. handles'[h] = [kind |-> "file", inode |-> handles[h].inode,
                         reads |-> handles[h].reads, writes |-> handles[h].writes,
                         cache |-> c, dirty |-> v]
      BY <2>4, <3>1
    <3> QED
      BY <3>2
  <2> QED
    BY <1>0, <2>1, <2>4, <2>5, ListingsStay
<1>6. ASSUME NEW h \in Handles, Drops(h) \/ DropFails(h), UNCHANGED present,
             at # "listing", at' # "listing"
      PROVE  ListInv'
  BY <1>0, <1>6, ListingsStay DEF Drops, DropFails, NoHandle
<1>7. CASE \E h \in Handles : Close(h)
  BY <1>6, <1>7 DEF Close, Takes, Answers
<1>8. CASE CloseNext \/ CloseRaises
  BY <1>6, <1>8 DEF CloseNext, CloseRaises
<1>9. CASE OpenOpens
  <2>1. \E i, v : Opened(i, v)
    BY <1>9 DEF OpenOpens
  <2>2. \E x : x.kind = "file" /\ handles' = [handles EXCEPT ![nextHandle] = x]
    BY <2>1 DEF Opened, Gives, NewHandle
  <2>3. \A h \in Handles : handles'[h].kind = "dir" => handles'[h] = handles[h]
    BY <1>0, <2>2
  <2> QED
    BY <1>0, <1>9, <2>3, ListingsStay DEF OpenOpens, Answers
<1>10. CASE \E h \in Handles : Readdir(h)
  BY <1>10, ReaddirLists
<1>11. CASE Opendir \/ ListEntry \/ ListSend
  BY <1>11, OpendirLists, ListEntryLists, ListSendLists
<1>12. CASE OutsideWrites \/ OutsideRemoves \/ OutsideLists
  <2>1. present' \subseteq Names /\ UNCHANGED <<at, op, handles>>
    BY <1>0, <1>12 DEF OutsideWrites, OutsideRemoves, OutsideLists, Outside, tableVars
  <2> QED
    BY <2>1, ListingsStay
<1>13. CASE UNCHANGED vars
  BY <1>0, <1>13, ListingsStay DEF vars, tableVars, fsVars
<1> QED
  BY <1>1, <1>2, <1>3, <1>4, <1>5, <1>7, <1>8, <1>9, <1>10, <1>11, <1>12, <1>13
     DEF Next, Handling, Closing

\* Up to its offset, a listing has told every entry once whose answer could be put
\* together whole, and no entry of an answer that could not, for directories and
\* answers of any size (sftp.py:220-241).
THEOREM ListingsAreWhole == Spec => []EntriesAccountedFor
<1>1. Init => ListInv
  BY DEF Init, ListInv, NoHandle
<1>2. FInv /\ ListInv /\ [Next]_vars => ListInv'
  BY ListStep
<1>3. ASSUME ListInv
      PROVE  EntriesAccountedFor
  <2> SUFFICES ASSUME at # "listing", NEW h \in Handles, handles[h].kind = "dir",
                      NEW k \in 1..handles[h].offset
               PROVE  Cardinality({j \in 1..Len(handles[h].told) :
                                     handles[h].told[j] = handles[h].entries[k]})
                        = IF Companions(handles[h], k) \cap handles[h].bad = {} THEN 1 ELSE 0
    BY DEF EntriesAccountedFor
  <2> DEFINE d == handles[h]
             e == d.entries[k]
             T == {j \in 1..Len(d.told) : d.told[j] = e}
  <2>1. Listed(d, d.offset)
    BY <1>3 DEF ListInv, Answered
  <2>2. DOMAIN d.told = 1..Len(d.told) /\ k \in 1..Len(d.entries) /\ k <= d.offset
    BY <2>1 DEF Listed
  <2>3. e \in ToSet(d.told) <=> ~Spoiled(d, d.offset, k)
    BY <2>1, <2>2 DEF Listed
  <2>4. Companions(d, k) \cap d.bad = {} <=> ~Spoiled(d, d.offset, k)
    BY DEF Companions, Spoiled, SameAnswer
  <2>5. CASE Spoiled(d, d.offset, k)
    <3>1. T = {}
      BY <2>2, <2>3, <2>5 DEF ToSet
    <3> QED
      BY <2>4, <2>5, <3>1, FS_EmptySet
  <2>6. CASE ~Spoiled(d, d.offset, k)
    <3>1. PICK j \in 1..Len(d.told) : d.told[j] = e
      BY <2>2, <2>3, <2>6 DEF ToSet
    <3>2. T = {j}
      BY <2>1, <2>2, <3>1 DEF Listed, Distinct
    <3> QED
      BY <2>4, <2>6, <3>2, FS_Singleton
  <2> QED
    BY <2>5, <2>6
<1> QED
  BY <1>1, <1>2, <1>3, FilesInvariant, PTL DEF Spec
===============================================================================
