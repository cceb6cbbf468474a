------------------------------ MODULE SftpServer ------------------------------
(***************************************************************************)
(* The SFTP server of a session channel (sftp.py, SFTPServer), with the    *)
(* calls of client.py that feed and close it.                              *)
(*                                                                         *)
(* All of it runs in the client's reader: feed() puts what arrived into a  *)
(* buffer and handles every whole packet in it, one after the other.  What *)
(* runs beside it are the other processes of the machine, which create,    *)
(* write and remove files between any two system calls of a handler, so a  *)
(* handler that makes several is several steps here.                       *)
(*                                                                         *)
(* A packet is two units of the byte stream, its length and its body.      *)
(* What is in a packet is chosen when it is handled: nothing depends on it *)
(* earlier.  There is one path for files and one directory; the content of *)
(* a file is one value, the number of the request that wrote it.  Requests *)
(* that are one system call on a path are one kind, "path".                *)
(***************************************************************************)
EXTENDS Integers, Sequences, FiniteSets, SequencesExt

CONSTANTS Names,        \* names of directory entries
          Odd,          \* those that cannot be put into a packet
          Batch,        \* entries in an answer to READDIR (64)
          FlagSets,     \* the flags an OPEN may carry
          MaxRequests,  \* bound: requests asked
          MaxAhead,     \* bound: requests asked and not handled
          MaxHandles,   \* bound: handles given
          MaxOutside    \* bound: steps of other processes

Flags == {"READ", "WRITE", "APPEND", "CREAT", "TRUNC", "EXCL"}

ASSUME SftpAssumption ==
    /\ IsFiniteSet(Names) /\ "." \notin Names
    /\ Odd \subseteq Names
    /\ Batch \in Nat \ {0}
    /\ FlagSets \subseteq SUBSET Flags
    /\ MaxRequests \in Nat /\ MaxAhead \in Nat /\ MaxHandles \in Nat
    /\ MaxOutside \in Nat

VARIABLES
    asked,      \* packets the operator has sent
    fed,        \* units of them that have reached the buffer, in all
    taken,      \* packets taken out of the buffer
    at,         \* where the reader stands
    op,         \* the request being handled
    replies,    \* history: the requests answered, in order
    handles,    \* SFTPServer.handles
    nextHandle, \* SFTPServer.next_handle
    inode,      \* the file the path leads to
    content,    \* what the files hold
    present,    \* the entries of the directory
    outside,    \* steps other processes have made
    acked,      \* history: what the files should hold, going by the answers
    fresh,      \* history: what a READ of a handle may return
    got,        \* history: the handle and value of the DATA just sent
    missing,    \* history: the path was absent while an OPEN was handled
    eof,        \* history: the channel was ended by an EOF
    stuck       \* history: handles whose file could not be flushed by close()

streamVars == <<asked, fed, taken>>
tableVars == <<handles, nextHandle>>
endVars == <<eof, stuck>>
fsVars == <<inode, content, present, outside>>
historyVars == <<acked, fresh, got, missing, endVars>>
vars == <<streamVars, at, op, replies, tableVars, fsVars, historyVars>>

Handles == 1..MaxHandles
Inodes == 1..(MaxHandles + 1)
NoFile == 0
NoValue == -1
Blank == 0
Foreign == MaxRequests + 1
Values == Blank..Foreign
Dot == "."

Places == {"idle", "feeding", "exists", "excl", "open", "listing", "closing",
           "closing_again", "failed", "ended"}

NoOp == [kind |-> "none"]
NoHandle == [kind |-> "none"]

\* an object of handles: a file, or the listing of a directory
FileHandles == [kind : {"file"}, inode : Inodes, reads : BOOLEAN, writes : BOOLEAN,
                cache : Values \cup {NoValue},  \* read ahead
                dirty : Values \cup {NoValue}]  \* written and not yet flushed
DirHandles == [kind : {"dir"}, entries : Seq(Names \cup {Dot}), offset : Nat,
               told : Seq(Names \cup {Dot}), bad : SUBSET (Names \cup {Dot})]

Ops == {NoOp} \cup [kind : {"open"}, flags : FlagSets, mode : {"r+b", "wb", "ab", "rb", "w+b"}]
              \cup [kind : {"readdir"}, handle : Handles, announced : Nat,
                    batch : Seq(Names \cup {Dot}), told : Seq(Names \cup {Dot})]

TypeOK ==
    /\ asked \in 0..MaxRequests /\ taken \in 0..asked
    /\ fed \in 2 * taken..2 * asked
    /\ at \in Places /\ op \in Ops
    /\ replies \in Seq(1..MaxRequests)
    /\ handles \in [Handles -> {NoHandle} \cup FileHandles \cup DirHandles]
    /\ nextHandle \in 1..MaxHandles + 1
    /\ inode \in Inodes \cup {NoFile}
    /\ content \in [Inodes -> Values] /\ acked \in [Inodes -> Values]
    /\ present \subseteq Names
    /\ outside \in 0..MaxOutside
    /\ fresh \in [Handles -> SUBSET Values]
    /\ got \in [handle : Handles \cup {0}, value : Values]
    /\ missing \in BOOLEAN
    /\ eof \in BOOLEAN /\ stuck \subseteq Handles

GotNothing == [handle |-> 0, value |-> Blank]

Init ==
    /\ asked = 0 /\ fed = 0 /\ taken = 0
    /\ at = "idle" /\ op = NoOp /\ replies = <<>>
    /\ handles = [h \in Handles |-> NoHandle] /\ nextHandle = 1
    /\ inode \in {NoFile, 1}
    /\ content = [i \in Inodes |-> Foreign] /\ acked = content
    /\ present = Names /\ outside = 0
    /\ fresh = [h \in Handles |-> {}]
    /\ got = GotNothing /\ missing = FALSE
    /\ eof = FALSE /\ stuck = {}

-----------------------------------------------------------------------------
(* feed() *)

\* bound: the operator asks no more than MaxAhead requests ahead
Ask ==
    /\ at \notin {"failed", "ended"}
    /\ asked < MaxRequests /\ asked - taken < MaxAhead
    /\ asked' = asked + 1
    /\ UNCHANGED <<fed, taken, at, op, replies, tableVars, fsVars, historyVars>>

\* CHANNEL_DATA: any part of what was asked
Feed ==
    /\ at = "idle"
    /\ fed' \in fed + 1..2 * asked
    /\ at' = "feeding"
    /\ UNCHANGED <<asked, taken, op, replies, tableVars, fsVars, historyVars>>

WholePacket == fed >= 2 * taken + 2

FeedReturns ==
    /\ at = "feeding"
    /\ ~WholePacket
    /\ at' = "idle"
    /\ UNCHANGED <<streamVars, op, replies, tableVars, fsVars, historyVars>>

\* the next packet leaves the buffer
Takes ==
    /\ at = "feeding"
    /\ WholePacket
    /\ taken' = taken + 1
    /\ UNCHANGED <<asked, fed>>

\* request n is answered.  Without the connection the answer cannot be sent, nor
\* the status that reports it, which raises out of feed(); run() ends, and
\* closes the channel
Answers(n) ==
    /\ op' = NoOp
    /\ \/ replies' = Append(replies, n) /\ at' = "feeding"
       \/ replies' = replies /\ at' = "closing_again"

\* an empty packet, an INIT or a request number that is cut short
Unreadable ==
    /\ Takes
    /\ at' = "closing_again"
    /\ UNCHANGED <<op, replies, tableVars, fsVars, historyVars>>

\* one answer and no effect on what is modelled: INIT, requests about paths,
\* FSTAT, and whatever fails at once, a handle that is unknown or of the wrong
\* kind among them; CLOSE of an unknown handle is answered with OK
PlainRequest ==
    /\ Takes
    /\ Answers(taken')
    /\ got' = GotNothing
    /\ UNCHANGED <<tableVars, fsVars, acked, fresh, missing, endVars>>

-----------------------------------------------------------------------------
(* Files *)

\* file i holds v from now on, as far as the answers tell; READs of handle h,
\* which wrote it, may return nothing older
Expected(i, v, h) ==
    /\ acked' = [acked EXCEPT ![i] = v]
    /\ fresh' = [g \in Handles |->
                   IF g = h THEN {v}
                   ELSE IF handles[g].kind = "file" /\ handles[g].inode = i
                        THEN fresh[g] \cup {v} ELSE fresh[g]]

Holds(i, v) == content' = [content EXCEPT ![i] = v]

\* a step of some handle that flushes what it holds back, if it can
Flushes(h) ==
    LET f == handles[h] IN
    IF f.dirty = NoValue THEN UNCHANGED <<content, acked, fresh>>
    ELSE Holds(f.inode, f.dirty) /\ Expected(f.inode, f.dirty, 0)

Readable(h) == handles[h].kind = "file" /\ handles[h].reads
Writable(h) == handles[h].kind = "file" /\ handles[h].writes

\* seek() stays within what was read ahead; whether a read leaves something read
\* ahead depends on its size
Read(h) ==
    /\ Readable(h)
    /\ Takes
    /\ Flushes(h)
    /\ LET v == IF handles[h].cache # NoValue THEN handles[h].cache
                ELSE content'[handles[h].inode]
       IN /\ got' = [handle |-> h, value |-> v]
          /\ \E c \in {NoValue, v} :
               handles' = [handles EXCEPT ![h].cache = c, ![h].dirty = NoValue]
    /\ Answers(taken')
    /\ UNCHANGED <<nextHandle, inode, present, outside, missing, endVars>>

\* a READ or WRITE that the mode of the file does not allow fails after its seek(),
\* which has flushed the file
SeekOnly(h) ==
    /\ handles[h].kind = "file" /\ ~(handles[h].reads /\ handles[h].writes)
    /\ Takes
    /\ Flushes(h)
    /\ \E c \in {NoValue, handles[h].cache} :
         handles' = [handles EXCEPT ![h].cache = c, ![h].dirty = NoValue]
    /\ Answers(taken')
    /\ got' = GotNothing
    /\ UNCHANGED <<nextHandle, inode, present, outside, missing, endVars>>

\* mutant: what was read ahead is kept
WriteKeepsReadAhead(h) ==
    /\ Writable(h)
    /\ Takes
    /\ handles' = [handles EXCEPT ![h].dirty = NoValue]
    /\ Holds(handles[h].inode, taken')
    /\ Expected(handles[h].inode, taken', h)
    /\ Answers(taken')
    /\ got' = GotNothing
    /\ UNCHANGED <<nextHandle, inode, present, outside, missing, endVars>>

\* write, then flush, which empties the buffer
Write(h) ==
    /\ Writable(h)
    /\ Takes
    /\ handles' = [handles EXCEPT ![h].cache = NoValue, ![h].dirty = NoValue]
    /\ Holds(handles[h].inode, taken')
    /\ Expected(handles[h].inode, taken', h)
    /\ Answers(taken')
    /\ got' = GotNothing
    /\ UNCHANGED <<nextHandle, inode, present, outside, missing, endVars>>

\* mutant: OK is sent before the flush, and FAILURE after it
WriteFailsTwice(h) ==
    /\ Writable(h)
    /\ Takes
    /\ Flushes(h)
    /\ handles' = [handles EXCEPT ![h].cache = NoValue, ![h].dirty = taken']
    /\ replies' = replies \o <<taken', taken'>> /\ at' = "feeding" /\ op' = NoOp
    /\ got' = GotNothing
    /\ UNCHANGED <<nextHandle, inode, present, outside, missing, endVars>>

\* flush fails: the answer is FAILURE, and the data stays in the buffer, to be
\* written by whatever flushes the file next
WriteFails(h) ==
    /\ Writable(h)
    /\ Takes
    /\ Flushes(h)
    /\ handles' = [handles EXCEPT ![h].cache = NoValue, ![h].dirty = taken']
    /\ Answers(taken')
    /\ got' = GotNothing
    /\ UNCHANGED <<nextHandle, inode, present, outside, missing, endVars>>

\* _close_handle: the handle leaves the table, and its file is flushed
Drops(h) ==
    /\ handles' = [handles EXCEPT ![h] = NoHandle]
    /\ \/ handles[h].kind = "file" /\ Flushes(h)
       \/ handles[h].kind = "dir" /\ UNCHANGED <<content, acked, fresh>>

\* ... or cannot be flushed, which raises
DropFails(h) ==
    /\ handles[h].kind = "file" /\ handles[h].dirty # NoValue
    /\ handles' = [handles EXCEPT ![h] = NoHandle]
    /\ UNCHANGED <<content, acked, fresh>>

Close(h) ==
    /\ handles[h] # NoHandle
    /\ Takes
    /\ Drops(h) \/ DropFails(h)
    /\ Answers(taken')
    /\ got' = GotNothing
    /\ UNCHANGED <<nextHandle, inode, present, outside, missing, endVars>>

-----------------------------------------------------------------------------
(* OPEN: the mode is chosen, the path is looked at once or twice, the file is
   opened *)

ModeFor(flags) ==
    CASE {"READ", "WRITE"} \subseteq flags -> "r+b"
      [] "WRITE" \in flags /\ "READ" \notin flags ->
           IF "APPEND" \in flags THEN "ab" ELSE IF "TRUNC" \in flags THEN "wb" ELSE "r+b"
      [] OTHER -> "rb"

\* where OPEN goes after it has chosen its mode
Excludes(flags) == IF "EXCL" \in flags THEN "excl" ELSE "open"

Open(flags) ==
    /\ nextHandle <= MaxHandles
    /\ Takes
    /\ op' = [kind |-> "open", flags |-> flags, mode |-> ModeFor(flags)]
    /\ at' = IF "CREAT" \in flags /\ ModeFor(flags) = "r+b" THEN "exists"
             ELSE Excludes(flags)
    /\ missing' = (inode = NoFile)
    /\ got' = GotNothing
    /\ UNCHANGED <<replies, tableVars, fsVars, acked, fresh, endVars>>

\* mutant: a file that is to be created is opened with w+b, without looking
OpenLooksAway ==
    /\ at = "exists"
    /\ op' = [op EXCEPT !.mode = "w+b"]
    /\ at' = Excludes(op.flags)
    /\ UNCHANGED <<streamVars, replies, tableVars, fsVars, historyVars>>

OpenLooks ==
    /\ at = "exists"
    /\ op' = [op EXCEPT !.mode = IF inode = NoFile THEN "w+b" ELSE @]
    /\ at' = Excludes(op.flags)
    /\ UNCHANGED <<streamVars, replies, tableVars, fsVars, historyVars>>

OpenExcludes ==
    /\ at = "excl"
    /\ IF inode = NoFile THEN at' = "open" /\ UNCHANGED <<op, replies>>
       ELSE Answers(taken)
    /\ UNCHANGED <<streamVars, tableVars, fsVars, historyVars>>

\* the name of a new handle
NewHandle == nextHandle

Gives(object) ==
    /\ handles' = [handles EXCEPT ![NewHandle] = object]
    /\ nextHandle' = nextHandle + 1

UnusedInode ==
    CHOOSE i \in Inodes :
        i # inode /\ \A h \in Handles : handles[h].kind = "file" => handles[h].inode # i

\* open() succeeds with file i, which then holds v
Opened(i, v) ==
    /\ inode' = i
    /\ Holds(i, v)
    /\ acked' = [acked EXCEPT ![i] = v]
    /\ fresh' = [h \in Handles |->
                   IF h = NewHandle THEN {v}
                   ELSE IF handles[h].kind = "file" /\ handles[h].inode = i
                        THEN fresh[h] \cup {v} ELSE fresh[h]]
    /\ Gives([kind |-> "file", inode |-> i,
              reads |-> op.mode \in {"rb", "r+b", "w+b"}, writes |-> op.mode # "rb",
              cache |-> NoValue, dirty |-> NoValue])

OpenOpens ==
    /\ at = "open"
    /\ IF inode # NoFile
       THEN Opened(inode, IF op.mode \in {"wb", "w+b"} THEN Blank ELSE content[inode])
       ELSE op.mode \in {"wb", "w+b", "ab"} /\ Opened(UnusedInode, Blank)
    /\ Answers(taken)
    /\ UNCHANGED <<streamVars, present, outside, got, missing, endVars>>

\* open() raises
OpenFails ==
    /\ at = "open"
    /\ Answers(taken)
    /\ UNCHANGED <<streamVars, tableVars, fsVars, historyVars>>

\* REMOVE of the path, or a RENAME of it
RemovePath ==
    /\ inode # NoFile
    /\ Takes
    /\ inode' = NoFile
    /\ Answers(taken')
    /\ got' = GotNothing
    /\ UNCHANGED <<tableVars, content, present, outside, acked, fresh, missing, endVars>>

-----------------------------------------------------------------------------
(* Directories *)

Opendir ==
    /\ nextHandle <= MaxHandles
    /\ Takes
    /\ \E order \in SetToSeqs(present) :
         Gives([kind |-> "dir", entries |-> <<Dot>> \o order, offset |-> 0,
                told |-> <<>>, bad |-> {}])
    /\ Answers(taken')
    /\ got' = GotNothing
    /\ UNCHANGED <<fsVars, acked, fresh, missing, endVars>>

NextBatch(d) ==
    SubSeq(d.entries, d.offset + 1,
           IF d.offset + Batch < Len(d.entries) THEN d.offset + Batch ELSE Len(d.entries))

\* mutant: the offset moves a whole batch and one
AdvancedTooFar(d) == d.offset + Len(NextBatch(d)) + 1

Advanced(d) == d.offset + Len(NextBatch(d))

\* the offset moves, and the number of entries is put into the answer, before
\* they are looked at
Readdir(h) ==
    /\ handles[h].kind = "dir"
    /\ Takes
    /\ handles' = [handles EXCEPT ![h].offset = Advanced(handles[h])]
    /\ IF NextBatch(handles[h]) = <<>> THEN Answers(taken')
       ELSE /\ op' = [kind |-> "readdir", handle |-> h,
                      announced |-> Len(NextBatch(handles[h])),
                      batch |-> NextBatch(handles[h]), told |-> <<>>]
            /\ at' = "listing" /\ UNCHANGED replies
    /\ got' = GotNothing
    /\ UNCHANGED <<nextHandle, fsVars, acked, fresh, missing, endVars>>

\* lstat of the next entry: described, gone and left out, or not to be put into a
\* packet, which fails the whole request
ListEntry ==
    /\ at = "listing" /\ op.batch # <<>>
    /\ LET e == Head(op.batch)
           Bad == handles' = [handles EXCEPT ![op.handle].bad = @ \cup {e}]
       IN
       \/ /\ e \in present \cup {Dot} /\ e \notin Odd
          /\ op' = [op EXCEPT !.batch = Tail(@), !.told = Append(@, e)]
          /\ UNCHANGED <<at, replies, handles>>
       \/ /\ e \notin present \cup {Dot} /\ Bad
          /\ op' = [op EXCEPT !.batch = Tail(@)]
          /\ UNCHANGED <<at, replies>>
       \/ e \in present \cap Odd /\ Bad /\ Answers(taken)
    /\ UNCHANGED <<streamVars, nextHandle, fsVars, historyVars>>

\* An answer that carries fewer entries than it announces cannot be read, so it
\* tells none.
ListSend ==
    /\ at = "listing" /\ op.batch = <<>>
    /\ handles' = IF Len(op.told) = op.announced
                  THEN [handles EXCEPT ![op.handle].told = @ \o op.told] ELSE handles
    /\ Answers(taken)
    /\ UNCHANGED <<streamVars, nextHandle, fsVars, historyVars>>

-----------------------------------------------------------------------------
(* The end of the channel *)

\* EOF: on_eof closes the server and then finishes the channel
EofArrives ==
    /\ at = "idle"
    /\ at' = "closing" /\ eof' = TRUE
    /\ UNCHANGED <<streamVars, op, replies, tableVars, fsVars, acked, fresh, got,
                   missing, stuck>>

\* CLOSE, or the end of run()
CloseArrives ==
    /\ at = "idle"
    /\ at' = "closing_again"
    /\ UNCHANGED <<streamVars, op, replies, tableVars, fsVars, historyVars>>

\* the first handle in the table
First(h) == handles[h] # NoHandle /\ \A g \in 1..h - 1 : handles[g] = NoHandle

\* close(): one handle after the other
CloseNext ==
    /\ at \in {"closing", "closing_again"}
    /\ \E h \in Handles : First(h) /\ Drops(h)
    /\ UNCHANGED <<streamVars, at, op, replies, nextHandle, inode, present, outside,
                   got, missing, endVars>>

\* mutant: the object is closed before its handle leaves the table
CloseRaisesKeeps ==
    /\ at \in {"closing", "closing_again"}
    /\ \E h \in Handles :
         /\ First(h) /\ handles[h].kind = "file" /\ handles[h].dirty # NoValue
         /\ stuck' = stuck \cup {h}
    /\ at' = IF at = "closing" THEN "closing_again" ELSE "failed"
    /\ UNCHANGED <<streamVars, op, replies, tableVars, fsVars, acked, fresh, got,
                   missing, eof>>

\* a file that cannot be flushed: raised out of on_eof, that ends run(), which
\* closes the channel and so the server again; the second time nobody does
CloseRaises ==
    /\ at \in {"closing", "closing_again"}
    /\ \E h \in Handles : First(h) /\ DropFails(h) /\ stuck' = stuck \cup {h}
    /\ at' = IF at = "closing" THEN "closing_again" ELSE "failed"
    /\ UNCHANGED <<streamVars, op, replies, nextHandle, inode, present, outside, got,
                   missing, eof>>

CloseEnds ==
    /\ at \in {"closing", "closing_again"}
    /\ \A h \in Handles : handles[h] = NoHandle
    /\ at' = "ended"
    /\ UNCHANGED <<streamVars, op, replies, tableVars, fsVars, historyVars>>

-----------------------------------------------------------------------------
(* The other processes *)

Outside ==
    /\ outside < MaxOutside
    /\ outside' = outside + 1
    /\ UNCHANGED <<streamVars, at, op, replies, tableVars, got, endVars>>

\* while an OPEN is being handled
OpenUnderWay == at \in {"exists", "excl", "open"}

OutsideWrites ==
    /\ Outside
    /\ LET i == IF inode = NoFile THEN UnusedInode ELSE inode IN
         inode' = i /\ Holds(i, Foreign) /\ Expected(i, Foreign, 0)
    /\ UNCHANGED <<present, missing>>

OutsideRemoves ==
    /\ Outside
    /\ inode # NoFile
    /\ inode' = NoFile
    /\ missing' = (missing \/ OpenUnderWay)
    /\ UNCHANGED <<content, present, acked, fresh>>

OutsideLists ==
    /\ Outside
    /\ \E n \in Names :
         present' = IF n \in present THEN present \ {n} ELSE present \cup {n}
    /\ UNCHANGED <<inode, content, acked, fresh, missing>>

-----------------------------------------------------------------------------
Handling ==
    \/ Unreadable \/ PlainRequest \/ RemovePath \/ Opendir
    \/ \E flags \in FlagSets : Open(flags)
    \/ OpenLooks \/ OpenExcludes \/ OpenOpens \/ OpenFails
    \/ \E h \in Handles :
         Read(h) \/ SeekOnly(h) \/ Write(h) \/ WriteFails(h) \/ Close(h) \/ Readdir(h)
    \/ ListEntry \/ ListSend

Closing == CloseNext \/ CloseRaises \/ CloseEnds

Next ==
    \/ Ask \/ Feed \/ FeedReturns \/ Handling
    \/ EofArrives \/ CloseArrives \/ Closing
    \/ OutsideWrites \/ OutsideRemoves \/ OutsideLists

Spec == Init /\ [][Next]_vars

-----------------------------------------------------------------------------
(* Properties *)

\* Requests are answered once each and in order, however their bytes are cut into
\* portions, whether they succeed, fail, or fail half-way (sftp.py:103-182).
Queue == INSTANCE ReplyQueue
AnswersInOrder == Queue!QueueSpec

\* What WRITE has answered with OK is in the file, for every process and through
\* whatever handle it is read next, until somebody writes again, and so is what
\* an OPEN has emptied (sftp.py:250-273).
AckedIsWritten == acked = content

\* READ returns nothing older than what its own handle wrote last, or than its
\* OPEN, though files are read through a buffer (sftp.py:259-273).
ReadsAreCurrent == got.handle # 0 => got.value \in fresh[got.handle]

\* A name once given to a handle is never given again, so that a late request
\* with the name of a closed handle fails (sftp.py:188-197).
HandlesNotReused ==
    [][\A h \in Handles : h < nextHandle /\ handles[h] = NoHandle =>
                            handles'[h] = NoHandle]_vars

\* the entries that share the answer of entry k
Companions(d, k) ==
    {d.entries[j] : j \in {i \in 1..d.offset : (i - 1) \div Batch = (k - 1) \div Batch}}

\* Up to where a listing has come, every entry was told exactly once if all the
\* entries of its answer could be described, and not at all if one of them could
\* not: an entry that vanished takes the others of its answer along, for the answer
\* then carries fewer than it announces (sftp.py:225-241).
EntriesAccountedFor ==
    at # "listing" =>
        \A h \in Handles : handles[h].kind = "dir" =>
            LET d == handles[h] IN
            \A k \in 1..d.offset :
                Cardinality({j \in 1..Len(d.told) : d.told[j] = d.entries[k]})
                    = IF Companions(d, k) \cap d.bad = {} THEN 1 ELSE 0

\* An entry that is still there has been told once the listing is past it.  The
\* code does not have this property (sftp.py:233, 238-239, 178-179).
PresentAreTold ==
    at # "listing" =>
        \A h \in Handles : handles[h].kind = "dir" =>
            LET d == handles[h] IN
            \A k \in 1..d.offset : d.entries[k] \in d.bad \/ d.entries[k] \in ToSet(d.told)

\* An OPEN without TRUNC empties an existing file, and one with EXCL succeeds,
\* only if the path was absent at some time while it was handled: the checks and
\* open() are separate calls (sftp.py:251-255).
OpensWhatWasMissing ==
    [][at = "open" /\ nextHandle' # nextHandle /\ (op.mode = "w+b" \/ "EXCL" \in op.flags)
         => missing]_vars

\* A file that cannot be flushed when the channel ends does not stand in the way of
\* the others after an EOF: its handle is off the table before it is closed, so
\* that the second close(), which the end of run() makes, gets past it.  Files are
\* left open only by a second such file, or by the first when a CLOSE or the end
\* of the connection ended the channel (sftp.py:119-121, 194-197;
\* client.py:342-345, 348-355, 207-210).
StuckFileIsPassed ==
    at \in {"ended", "failed"} /\ (\E h \in Handles : handles[h] # NoHandle) =>
        IF eof THEN \E g, h \in stuck : g # h ELSE stuck # {}

\* No file is left open.  The code does not have this property: what close() raises
\* at one handle keeps it from those after it (sftp.py:119-121).
NothingLeftOpen ==
    at \in {"ended", "failed"} => \A h \in Handles : handles[h] = NoHandle

\* READ returns what the file holds.  The code does not have this property: what
\* was read ahead through a handle stays there while others write.
ReadsAreFresh ==
    [][\A h \in Handles : Read(h) => got'.value = content'[handles[h].inode]]_vars
=============================================================================
