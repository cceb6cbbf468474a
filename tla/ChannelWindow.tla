----------------------------- MODULE ChannelWindow -----------------------------
(***************************************************************************)
(* Flow control of one SSH channel at the relay (relay.py, SSHChannelBase  *)
(* and SSHConnection.send_channel_data), in bytes.                         *)
(*                                                                         *)
(* Towards the operator: one thread (the client's reader) cuts what the    *)
(* client sent into chunks it reserves from remote_window, and writes them *)
(* outside the lock; the operator's thread adds to the window and may mark *)
(* the channel closed at any time in between.  Towards the client: the     *)
(* operator spends the CHANNEL_WINDOW the relay announced, and the relay   *)
(* hands the same amount back once it has passed the bytes on.             *)
(***************************************************************************)
EXTENDS Integers

CONSTANTS Cap,            \* 0xFFFFFFFF, where add_window stops
          MinPacket,      \* 1024
          MaxPacket,      \* CHANNEL_MAX_PACKET
          LocalWindow,    \* CHANNEL_WINDOW
          Amounts,        \* numbers of bytes in messages
          MaxBytes        \* bound: bytes granted, and bytes sent by the operator

ASSUME SizesAssumption ==
    /\ Cap \in Nat /\ LocalWindow \in Nat /\ MaxBytes \in Nat
    /\ MinPacket \in Nat \ {0} /\ MaxPacket \in Nat /\ MinPacket <= MaxPacket
ASSUME AmountsAssumption == Amounts \subseteq 0..Cap

VARIABLES
    bound,      \* recipient is set
    window,     \* remote_window
    maxPacket,  \* remote_max_packet
    closed,     \* _closed
    pc,         \* where the sending thread stands
    rest,       \* len(data) - pos
    chunk,      \* bytes it has reserved and not yet written
    granted,    \* history: bytes the operator has allowed
    offered,    \* history: bytes send_channel_data was called with
    sent,       \* history: bytes written to the operator
    credit,     \* what the operator may still send
    unread,     \* bytes from the operator the relay has not passed on
    passed,     \* bytes passed on and not yet handed back
    opGranted,  \* history: bytes the relay has allowed the operator
    opSent      \* history: bytes the operator has sent

outVars == <<bound, window, maxPacket, closed, pc, rest, chunk, granted,
             offered, sent>>
inVars == <<credit, unread, passed, opGranted, opSent>>
vars == <<outVars, inVars>>

TypeOK ==
    /\ bound \in BOOLEAN /\ closed \in BOOLEAN
    /\ window \in 0..Cap
    /\ maxPacket \in MinPacket..MaxPacket
    /\ pc \in {"idle", "reserving", "writing", "failed"}
    /\ rest \in Nat /\ chunk \in Nat /\ granted \in Nat
    /\ offered \in Nat /\ sent \in Nat
    /\ credit \in Nat /\ unread \in Nat /\ passed \in Nat
    /\ opGranted \in Nat /\ opSent \in Nat

Init ==
    /\ bound = FALSE /\ closed = FALSE
    /\ window = 0 /\ maxPacket = MaxPacket
    /\ pc = "idle" /\ rest = 0 /\ chunk = 0
    /\ granted = 0 /\ offered = 0 /\ sent = 0
    /\ credit = 0 /\ unread = 0 /\ passed = 0
    /\ opGranted = 0 /\ opSent = 0

Smaller(a, b) == IF a <= b THEN a ELSE b
Larger(a, b) == IF a <= b THEN b ELSE a

-----------------------------------------------------------------------------
(* The operator's thread *)

\* mutant: the operator's maximum packet size is taken as it is
PacketLimitAsIs(p) == Smaller(p, MaxPacket)

PacketLimit(p) == Larger(MinPacket, Smaller(p, MaxPacket))

\* set_recipient, and the CONFIRMATION that announces CHANNEL_WINDOW
SetRecipient(w, p) ==
    /\ ~bound
    /\ w <= MaxBytes
    /\ bound' = TRUE
    /\ window' = w
    /\ maxPacket' = PacketLimit(p)
    /\ granted' = w
    /\ credit' = LocalWindow
    /\ opGranted' = LocalWindow
    /\ UNCHANGED <<closed, pc, rest, chunk, offered, sent, unread, passed, opSent>>

Added(n) == Smaller(Cap, window + n)

\* WINDOW_ADJUST
AddWindow(n) ==
    /\ bound
    /\ granted + n <= MaxBytes
    /\ window' = Added(n)
    /\ granted' = granted + n
    /\ UNCHANGED <<bound, maxPacket, closed, pc, rest, chunk, offered, sent, inVars>>

MarkClosed ==
    /\ bound /\ ~closed
    /\ closed' = TRUE
    /\ UNCHANGED <<bound, window, maxPacket, pc, rest, chunk, granted, offered, sent,
                   inVars>>

-----------------------------------------------------------------------------
(* The sending thread *)

\* send_channel_data is called with n bytes
SendData(n) ==
    /\ bound /\ pc = "idle"
    /\ offered + n <= MaxBytes
    /\ rest' = n
    /\ offered' = offered + n
    /\ pc' = IF n > 0 THEN "reserving" ELSE "idle"
    /\ UNCHANGED <<bound, window, maxPacket, closed, chunk, granted, sent,
                   inVars>>

Chunk == Smaller(rest, Smaller(window, maxPacket))

\* mutant: the chunk is not taken off the window
ReserveForFree ==
    /\ pc = "reserving"
    /\ window > 0 /\ ~closed
    /\ chunk' = Chunk
    /\ pc' = "writing"
    /\ UNCHANGED <<bound, window, maxPacket, closed, rest, granted, offered, sent,
                   inVars>>

Reserve ==
    /\ pc = "reserving"
    /\ window > 0 /\ ~closed
    /\ chunk' = Chunk
    /\ window' = window - chunk'
    /\ pc' = "writing"
    /\ UNCHANGED <<bound, maxPacket, closed, rest, granted, offered, sent,
                   inVars>>

\* EOFError, or TimeoutError after 60 seconds
ReserveFails ==
    /\ pc = "reserving"
    /\ closed \/ window = 0
    /\ pc' = "failed"
    /\ UNCHANGED <<bound, window, maxPacket, closed, rest, chunk, granted, offered, sent,
                   inVars>>

Write ==
    /\ pc = "writing"
    /\ sent' = sent + chunk
    /\ rest' = rest - chunk
    /\ chunk' = 0
    /\ pc' = IF rest' > 0 THEN "reserving" ELSE "idle"
    /\ UNCHANGED <<bound, window, maxPacket, closed, granted, offered, inVars>>

WriteFails ==
    /\ pc = "writing"
    /\ pc' = "failed"
    /\ UNCHANGED <<bound, window, maxPacket, closed, rest, chunk, granted, offered, sent,
                   inVars>>

-----------------------------------------------------------------------------
(* From the operator to the client *)

\* the operator, which keeps to what it was allowed
OperatorSends(n) ==
    /\ bound /\ 0 < n /\ n <= credit
    /\ opSent + n <= MaxBytes
    /\ credit' = credit - n
    /\ unread' = unread + n
    /\ opSent' = opSent + n
    /\ UNCHANGED <<outVars, passed, opGranted>>

\* CHANNEL_DATA of n bytes: on_ssh_data ...
PassOn(n) ==
    /\ passed = 0
    /\ 0 < n /\ n <= unread
    /\ unread' = unread - n
    /\ passed' = n
    /\ UNCHANGED <<outVars, credit, opGranted, opSent>>

\* mutant: the whole window is handed back
HandBackAll ==
    /\ passed > 0
    /\ credit' = credit + LocalWindow
    /\ opGranted' = opGranted + LocalWindow
    /\ passed' = 0
    /\ UNCHANGED <<outVars, unread, opSent>>

\* ... and _adjust_local_window
HandBack ==
    /\ passed > 0
    /\ credit' = credit + passed
    /\ opGranted' = opGranted + passed
    /\ passed' = 0
    /\ UNCHANGED <<outVars, unread, opSent>>

-----------------------------------------------------------------------------
Next ==
    \/ \E w, p \in Amounts : SetRecipient(w, p)
    \/ \E n \in Amounts :
         AddWindow(n) \/ SendData(n) \/ OperatorSends(n) \/ PassOn(n)
    \/ MarkClosed
    \/ Reserve \/ ReserveFails \/ Write \/ WriteFails
    \/ HandBack

Spec == Init /\ [][Next]_vars

\* The sending thread runs; its wait for a window ends after 60 seconds.
SenderGoesOn == Reserve \/ ReserveFails \/ Write \/ WriteFails

FairSpec == Spec /\ WF_vars(SenderGoesOn)

-----------------------------------------------------------------------------
(* Properties *)

\* What was written, what is reserved and what is left of the window are within
\* what the operator granted, and are all of it as long as the cap of add_window
\* takes nothing away: concurrent adjustments neither lose credit nor make it up
\* (relay.py:265-289).
WithinCredit ==
    /\ sent + chunk + window <= granted
    /\ granted <= Cap => sent + chunk + window = granted

\* Cutting data into chunks neither skips nor repeats a byte, however the window
\* and the packet size cut it (relay.py:892-900).
NothingSkipped == pc # "failed" => sent + rest = offered

\* The relay hands back exactly what it passed on: the operator's credit never
\* leaks away and never grows beyond CHANNEL_WINDOW (relay.py:728-741, 888-890).
LocalWindowKept == bound => credit + unread + passed = LocalWindow

\* The sending direction implements the abstract flow of credit: every write is
\* within what was granted before it (relay.py:272-300, 892-900).
Out == INSTANCE CreditFlow WITH spent <- sent

OutImplementsCreditFlow == Out!CreditSpec

\* Sending ends, whatever packet size the operator asked for: every chunk makes
\* progress (relay.py:265-289, 896-900).
SendingEnds == (pc \in {"reserving", "writing"}) ~> (pc \in {"idle", "failed"})
=============================================================================
