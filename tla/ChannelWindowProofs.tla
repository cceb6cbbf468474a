-------------------------- MODULE ChannelWindowProofs --------------------------
(***************************************************************************)
(* Proofs about flow control, for any cap, packet limits, window sizes and *)
(* message sizes.                                                          *)
(*                                                                         *)
(* That writes stay within the credit is an invariant of the sum of what   *)
(* was sent, what is reserved and the window.  It becomes inductive with   *)
(* SenderState, which ties what is reserved to where the thread stands (a  *)
(* reserved chunk is never empty and never longer than what is left to     *)
(* send), and with Untouched, which says that nothing moves before the     *)
(* channel has a recipient.                                                *)
(***************************************************************************)
EXTENDS ChannelWindow, TLAPS

SenderState ==
    /\ pc = "idle" => rest = 0 /\ chunk = 0
    /\ pc = "reserving" => rest > 0 /\ chunk = 0
    /\ pc = "writing" => 0 < chunk /\ chunk <= rest /\ chunk <= maxPacket

Untouched ==
    ~bound => /\ window = 0 /\ granted = 0 /\ sent = 0 /\ pc = "idle"
              /\ credit = 0 /\ unread = 0 /\ passed = 0

IInv ==
    /\ TypeOK
    /\ SenderState
    /\ Untouched
    /\ WithinCredit
    /\ NothingSkipped
    /\ LocalWindowKept

-----------------------------------------------------------------------------
\* The smaller and the larger of two numbers.
LEMMA SmallerLarger ==
    ASSUME NEW a \in Nat, NEW b \in Nat
    PROVE  /\ Smaller(a, b) \in Nat /\ Larger(a, b) \in Nat
           /\ Smaller(a, b) <= a /\ Smaller(a, b) <= b
           /\ Smaller(a, b) = a \/ Smaller(a, b) = b
           /\ Larger(a, b) >= a /\ Larger(a, b) >= b
           /\ Larger(a, b) = a \/ Larger(a, b) = b
  BY DEF Smaller, Larger

\* A packet limit is one the relay uses, whatever the operator asked for.
LEMMA PacketLimitBounds ==
    ASSUME NEW p \in Nat
    PROVE  PacketLimit(p) \in MinPacket..MaxPacket
  BY SizesAssumption DEF PacketLimit, Smaller, Larger

\* A chunk is never empty and fits what is left, the window and the packet.
LEMMA ChunkFits ==
    ASSUME TypeOK, rest > 0, window > 0
    PROVE  /\ Chunk \in Nat \ {0}
           /\ Chunk <= rest /\ Chunk <= window /\ Chunk <= maxPacket
  BY SizesAssumption DEF TypeOK, Chunk, Smaller

\* Message sizes are numbers within the cap.
LEMMA AmountsAreNat == Amounts \subseteq Nat /\ \A n \in Amounts : n <= Cap
  BY AmountsAssumption, SizesAssumption

\* The initial state satisfies the inductive invariant.
LEMMA InitIInv == Init => IInv
<1> SUFFICES ASSUME Init PROVE IInv
  OBVIOUS
<1> USE SizesAssumption DEF Init
<1>1. bound \in BOOLEAN /\ closed \in BOOLEAN
  OBVIOUS
<1>2. TypeOK
  BY <1>1 DEF TypeOK
<1>3. SenderState /\ Untouched /\ WithinCredit /\ NothingSkipped
  BY DEF SenderState, Untouched, WithinCredit, NothingSkipped
<1>4. LocalWindowKept
  BY DEF LocalWindowKept
<1> QED
  BY <1>2, <1>3, <1>4 DEF IInv

\* Every step keeps the inductive invariant.
LEMMA NextIInv == IInv /\ [Next]_vars => IInv'
<1> SUFFICES ASSUME IInv, [Next]_vars PROVE IInv'
  OBVIOUS
<1> USE SizesAssumption, AmountsAreNat
<1> USE DEF IInv, TypeOK, SenderState, Untouched, WithinCredit, NothingSkipped,
            LocalWindowKept
<1>1. ASSUME NEW w \in Amounts, NEW p \in Amounts, SetRecipient(w, p)
      PROVE  IInv'
  BY <1>1, PacketLimitBounds DEF SetRecipient, inVars
<1>2. ASSUME NEW n \in Amounts, AddWindow(n) PROVE IInv'
  BY <1>2 DEF AddWindow, Added, Smaller, inVars
<1>3. CASE MarkClosed
  BY <1>3 DEF MarkClosed, inVars
<1>4. ASSUME NEW n \in Amounts, SendData(n) PROVE IInv'
  BY <1>4 DEF SendData, inVars
<1>5. CASE Reserve
  <2>1. rest > 0 /\ window > 0 /\ chunk = 0
    BY <1>5 DEF Reserve
  <2>2. /\ chunk' \in Nat \ {0} /\ chunk' <= rest /\ chunk' <= window
        /\ chunk' <= maxPacket
    BY <1>5, <2>1, ChunkFits DEF Reserve
  <2> QED
    BY <1>5, <2>1, <2>2 DEF Reserve, inVars
<1>6. CASE ReserveFails
  BY <1>6 DEF ReserveFails, inVars
<1>7. CASE Write
  BY <1>7 DEF Write, inVars
<1>8. CASE WriteFails
  BY <1>8 DEF WriteFails, inVars
<1>9. ASSUME NEW n \in Amounts, OperatorSends(n) PROVE IInv'
  BY <1>9 DEF OperatorSends, outVars
<1>10. ASSUME NEW n \in Amounts, PassOn(n) PROVE IInv'
  BY <1>10 DEF PassOn, outVars
<1>11. CASE HandBack
  BY <1>11 DEF HandBack, outVars
<1>12. CASE UNCHANGED vars
  BY <1>12 DEF vars, outVars, inVars
<1> QED
  BY <1>1, <1>2, <1>3, <1>4, <1>5, <1>6, <1>7, <1>8, <1>9, <1>10, <1>11, <1>12
  DEF Next

\* The inductive invariant holds in every reachable state.
LEMMA Invariance == Spec => []IInv
  BY InitIInv, NextIInv, PTL DEF Spec

-----------------------------------------------------------------------------
\* Every variable keeps its type; in particular the window stays a uint32
\* (relay.py:265-275).
THEOREM TypeCorrect == Spec => []TypeOK
<1>1. IInv => TypeOK
  BY DEF IInv
<1> QED
  BY Invariance, <1>1, PTL

\* Writes stay within what the operator granted, and no credit is lost
\* (relay.py:265-289, 892-912).
THEOREM CreditIsKept == Spec => []WithinCredit
<1>1. IInv => WithinCredit
  BY DEF IInv
<1> QED
  BY Invariance, <1>1, PTL

\* No byte is skipped or repeated by the cutting into chunks (relay.py:892-912).
THEOREM DataIsWhole == Spec => []NothingSkipped
<1>1. IInv => NothingSkipped
  BY DEF IInv
<1> QED
  BY Invariance, <1>1, PTL

\* What the operator may still send, what is unread, and what was passed on but
\* not yet handed back add up to the initial window (relay.py:888-890).
THEOREM LocalWindowIsKept == Spec => []LocalWindowKept
<1>1. IInv => LocalWindowKept
  BY DEF IInv
<1> QED
  BY Invariance, <1>1, PTL

\* The sending direction implements the abstract flow of credit: SetRecipient
\* and AddWindow grant, Write spends, and the other steps stutter.
THEOREM ImplementsCreditFlow == Spec => OutImplementsCreditFlow
<1>1. Init => Out!CreditInit
  BY DEF Init, Out!CreditInit
<1>2. IInv /\ [Next]_vars => [Out!Grant \/ Out!Spend]_(Out!creditVars)
  <2> SUFFICES ASSUME IInv, [Next]_vars
               PROVE  Out!Grant \/ Out!Spend \/ UNCHANGED <<granted, sent>>
    BY DEF Out!creditVars
  <2> USE AmountsAreNat DEF IInv, TypeOK
  <2>1. ASSUME NEW w \in Amounts, NEW p \in Amounts, SetRecipient(w, p)
        PROVE  Out!Grant
    BY <2>1 DEF SetRecipient, Untouched, Out!Grant
  <2>2. ASSUME NEW n \in Amounts, AddWindow(n) PROVE Out!Grant
    BY <2>2 DEF AddWindow, Out!Grant
  <2>3. CASE Write
    BY <2>3 DEF Write, SenderState, WithinCredit, Out!Spend
  <2>4. ASSUME NEW n \in Amounts, OperatorSends(n) \/ PassOn(n) \/ SendData(n)
        PROVE  UNCHANGED <<granted, sent>>
    BY <2>4 DEF OperatorSends, PassOn, SendData, outVars
  <2>5. CASE MarkClosed \/ Reserve \/ ReserveFails \/ WriteFails \/ HandBack
    BY <2>5 DEF MarkClosed, Reserve, ReserveFails, WriteFails, HandBack, outVars
  <2>6. CASE UNCHANGED vars
    BY <2>6 DEF vars, outVars
  <2> QED
    BY <2>1, <2>2, <2>3, <2>4, <2>5, <2>6 DEF Next
<1> QED
  BY <1>1, <1>2, Invariance, PTL DEF Spec, OutImplementsCreditFlow, Out!CreditSpec
=============================================================================
