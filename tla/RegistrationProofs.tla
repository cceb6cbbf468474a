-------------------------- MODULE RegistrationProofs --------------------------
(***************************************************************************)
(* Proofs about the registry and about registration end to end, for any    *)
(* numbers of identifiers, connections, operators and machines.            *)
(*                                                                         *)
(* First the registry alone (Spec of ClientRegistry): the types, that a    *)
(* live client keeps its entry, and that it implements the lease of        *)
(* identifiers.  LiveClientIsRegistered is not inductive alone.  That      *)
(* AddClient does not take a live client's entry needs nothing but its     *)
(* guard; that a late CloseRemove does not needs the "is client" test; but *)
(* that both write to the dictionary at all (EXCEPT outside the domain     *)
(* changes nothing) needs that a connection past its REGISTER has an       *)
(* identifier and is born alive, and the lease needs that a connection     *)
(* being removed is no longer alive.                                       *)
(*                                                                         *)
(* Then the composition: the registry goes on as it does alone, so that    *)
(* what is proved of it holds here too; what is added ties a machine to    *)
(* its connection, and the connection to the machine's identifier.         *)
(***************************************************************************)
EXTENDS Registration, TLAPS

-----------------------------------------------------------------------------
(* The registry alone *)

Registered == {"adding", "rejecting", "answering", "serving", "handling", "stranded",
               "removing", "closing", "closed"}

IdentifierKnown == \A c \in Conns : pc[c] \in Registered => ident[c] \in Identifiers

NewClientIsAlive == \A c \in Conns : pc[c] = "adding" => alive[c]

RemovedIsDead ==
    \A c \in Conns : pc[c] \in {"removing", "closing", "closed"} => ~alive[c]

IInv ==
    /\ TypeOK
    /\ IdentifierKnown
    /\ NewClientIsAlive
    /\ RemovedIsDead
    /\ LiveClientIsRegistered
    /\ EntriesAreAdded

-----------------------------------------------------------------------------
\* Appending a frame to what was written to a connection keeps wire's type.
LEMMA WireAppend ==
    ASSUME NEW w \in [Conns -> Seq(Frames)], NEW c \in Conns, NEW f \in Frames
    PROVE  [w EXCEPT ![c] = Append(w[c], f)] \in [Conns -> Seq(Frames)]
<1>1. Append(w[c], f) \in Seq(Frames)
  OBVIOUS
<1> QED
  BY <1>1, Zenon

\* The initial state satisfies the inductive invariant.
LEMMA InitIInv == Init => IInv
  BY NoConnAssumption
  DEF Init, IInv, TypeOK, Places, IdentifierKnown, Registered,
      NewClientIsAlive, RemovedIsDead,
      LiveClientIsRegistered, EntriesAreAdded

\* Every step of every thread keeps the types.
LEMMA NextTypeOK == TypeOK /\ [Next]_vars => TypeOK'
<1> SUFFICES ASSUME TypeOK, [Next]_vars PROVE TypeOK'
  OBVIOUS
<1> USE DEF TypeOK
<1>0. {"ok", "no", "auth"} \subseteq Frames
  BY DEF Frames
<1>1. ASSUME NEW c \in Conns, Accept(c) PROVE TypeOK'
  BY <1>1 DEF Accept, Places
<1>2. ASSUME NEW c \in Conns, NEW i \in Identifiers, RegisterFrame(c, i)
      PROVE  TypeOK'
  BY <1>2 DEF RegisterFrame, Places
<1>3. ASSUME NEW c \in Conns, BadFirstFrame(c) PROVE TypeOK'
  <2>1a. [wire EXCEPT ![c] = Append(wire[c], "no")] \in [Conns -> Seq(Frames)]
    BY <1>0, WireAppend
  <2>1. wire' \in [Conns -> Seq(Frames)]
    BY <1>3, <2>1a DEF BadFirstFrame
  <2> QED
    BY <1>3, <2>1 DEF BadFirstFrame, Places
<1>4. ASSUME NEW c \in Conns, AddClient(c) PROVE TypeOK'
  BY <1>4 DEF AddClient, Places
<1>5. ASSUME NEW c \in Conns, AddRefused(c) PROVE TypeOK'
  BY <1>5 DEF AddRefused, Places
<1>6. ASSUME NEW c \in Conns, Reject(c) PROVE TypeOK'
  <2>1a. [wire EXCEPT ![c] = Append(wire[c], "no")] \in [Conns -> Seq(Frames)]
    BY <1>0, WireAppend
  <2>1. wire' \in [Conns -> Seq(Frames)]
    BY <1>6, <2>1a DEF Reject
  <2> QED
    BY <1>6, <2>1 DEF Reject, Places
<1>7. ASSUME NEW c \in Conns, Answer(c) PROVE TypeOK'
  <2>1a. [wire EXCEPT ![c] = Append(wire[c], "ok")] \in [Conns -> Seq(Frames)]
    BY <1>0, WireAppend
  <2>1. wire' \in [Conns -> Seq(Frames)]
    BY <1>7, <2>1a DEF Answer
  <2> QED
    BY <1>7, <2>1 DEF Answer, Places
<1>8. ASSUME NEW c \in Conns, AnswerFails(c) PROVE TypeOK'
  BY <1>8 DEF AnswerFails, Places
<1>9. ASSUME NEW c \in Conns, ReaderFails(c) PROVE TypeOK'
  BY <1>9 DEF ReaderFails, Places
<1>10. ASSUME NEW c \in Conns, CloseRemove(c) PROVE TypeOK'
  BY <1>10 DEF CloseRemove, Removed, Places
<1>11. ASSUME NEW c \in Conns, CloseSocket(c) PROVE TypeOK'
  BY <1>11 DEF CloseSocket, Places
<1>12. ASSUME NEW c \in Conns, PeerDown(c) PROVE TypeOK'
  BY <1>12 DEF PeerDown
<1>13. ASSUME NEW o \in Operators, NEW i \in Identifiers, OperatorGet(o, i)
       PROVE  TypeOK'
  BY <1>13 DEF OperatorGet
<1>14. ASSUME NEW o \in Operators, OperatorSend(o) PROVE TypeOK'
  <2>1. ref[o] \in Conns
    BY <1>14 DEF OperatorSend
  <2>2a. [wire EXCEPT ![ref[o]] = Append(wire[ref[o]], "auth")] \in [Conns -> Seq(Frames)]
    BY <1>0, <2>1, WireAppend
  <2>2. wire' \in [Conns -> Seq(Frames)]
    BY <1>14, <2>2a DEF OperatorSend
  <2> QED
    BY <1>14, <2>2 DEF OperatorSend
<1>15. ASSUME NEW c \in Conns, HandleFrame(c) \/ FrameHandled(c) PROVE TypeOK'
  BY <1>15 DEF HandleFrame, FrameHandled, Places
<1>16. CASE UNCHANGED vars
  BY <1>16 DEF vars
<1> QED
  BY <1>1, <1>2, <1>3, <1>4, <1>5, <1>6, <1>7, <1>8, <1>9, <1>10, <1>11,
     <1>12, <1>13, <1>14, <1>15, <1>16 DEF Next

-----------------------------------------------------------------------------
\* Every step of every thread keeps the inductive invariant.
LEMMA NextIInv == IInv /\ [Next]_vars => IInv'
<1> SUFFICES ASSUME IInv, [Next]_vars PROVE IInv'
  OBVIOUS
<1>0. TypeOK'
  BY NextTypeOK DEF IInv
<1> USE NoConnAssumption, <1>0
<1> USE DEF IInv, TypeOK, IdentifierKnown, Registered,
            NewClientIsAlive, RemovedIsDead,
            LiveClientIsRegistered, EntriesAreAdded
<1>1. ASSUME NEW c \in Conns, Accept(c) PROVE IInv'
  BY <1>1 DEF Accept
<1>2. ASSUME NEW c \in Conns, NEW i \in Identifiers, RegisterFrame(c, i)
      PROVE  IInv'
  BY <1>2 DEF RegisterFrame
<1>3. ASSUME NEW c \in Conns, BadFirstFrame(c) PROVE IInv'
  BY <1>3 DEF BadFirstFrame
<1>4. ASSUME NEW c \in Conns, AddClient(c) PROVE IInv'
  <2>1. ident[c] \in Identifiers
    BY <1>4 DEF AddClient
  <2>2. clients'[ident[c]] = c
    BY <1>4, <2>1 DEF AddClient
  <2>3. \A d \in Conns \ {c} : pc[d] \in {"answering", "serving", "handling", "stranded"}
                                  => ident[d] # ident[c]
    BY <1>4, <2>1 DEF AddClient, Occupied
  <2>4. LiveClientIsRegistered'
    <3> SUFFICES ASSUME NEW d \in Conns,
                        pc'[d] \in {"answering", "serving", "handling", "stranded"}
                 PROVE  clients'[ident[d]] = d /\ alive[d]
      BY <1>4 DEF AddClient
    <3>1. CASE d = c
      BY <1>4, <2>2, <3>1 DEF AddClient
    <3>2. CASE d # c
      BY <1>4, <2>3, <3>2 DEF AddClient
    <3> QED
      BY <3>1, <3>2
  <2>5. EntriesAreAdded'
    BY <1>4, <2>1, <2>2 DEF AddClient
  <2> QED
    BY <1>4, <2>4, <2>5 DEF AddClient
<1>5. ASSUME NEW c \in Conns, AddRefused(c) PROVE IInv'
  BY <1>5 DEF AddRefused
<1>6. ASSUME NEW c \in Conns, Reject(c) PROVE IInv'
  BY <1>6 DEF Reject
<1>7. ASSUME NEW c \in Conns, Answer(c) PROVE IInv'
  BY <1>7 DEF Answer
<1>8. ASSUME NEW c \in Conns, AnswerFails(c) PROVE IInv'
  BY <1>8 DEF AnswerFails
<1>9. ASSUME NEW c \in Conns, ReaderFails(c) PROVE IInv'
  BY <1>9 DEF ReaderFails
<1>10. ASSUME NEW c \in Conns, CloseRemove(c) PROVE IInv'
  <2>1. ident[c] \in Identifiers /\ pc[c] = "removing" /\ ~alive[c]
    BY <1>10 DEF CloseRemove
  <2>2. LiveClientIsRegistered'
    BY <1>10, <2>1 DEF CloseRemove, Removed
  <2>3. EntriesAreAdded'
    BY <1>10, <2>1 DEF CloseRemove, Removed
  <2> QED
    BY <1>10, <2>2, <2>3 DEF CloseRemove
<1>11. ASSUME NEW c \in Conns, CloseSocket(c) PROVE IInv'
  BY <1>11 DEF CloseSocket
<1>12. ASSUME NEW c \in Conns, PeerDown(c) PROVE IInv'
  BY <1>12 DEF PeerDown
<1>13. ASSUME NEW o \in Operators, NEW i \in Identifiers, OperatorGet(o, i)
       PROVE  IInv'
  BY <1>13 DEF OperatorGet
<1>14. ASSUME NEW o \in Operators, OperatorSend(o) PROVE IInv'
  BY <1>14 DEF OperatorSend
<1>15. ASSUME NEW c \in Conns, HandleFrame(c) \/ FrameHandled(c) PROVE IInv'
  <2>1. /\ UNCHANGED <<clients, alive, ident>>
        /\ \A d \in Conns : pc'[d] # pc[d] => /\ pc[d] \in {"serving", "handling"}
                                             /\ pc'[d] \in {"serving", "handling"}
    BY <1>15 DEF HandleFrame, FrameHandled
  <2>2. IdentifierKnown' /\ NewClientIsAlive' /\ RemovedIsDead'
    BY <2>1
  <2>3. LiveClientIsRegistered' /\ EntriesAreAdded'
    BY <2>1
  <2> QED
    BY <2>2, <2>3
<1>16. CASE UNCHANGED vars
  BY <1>16 DEF vars
<1> QED
  BY <1>1, <1>2, <1>3, <1>4, <1>5, <1>6, <1>7, <1>8, <1>9, <1>10, <1>11,
     <1>12, <1>13, <1>14, <1>15, <1>16 DEF Next

\* The inductive invariant holds in every reachable state.
LEMMA Invariance == Spec => []IInv
  BY InitIInv, NextIInv, PTL DEF Spec

\* Every variable keeps its type (relay.py:88-149, 997-1024).
THEOREM TypeCorrect == Spec => []TypeOK
<1>1. IInv => TypeOK
  BY DEF IInv
<1> QED
  BY Invariance, <1>1, PTL

\* A live client keeps its registry entry, however many connections register
\* under its identifier and however late their close() runs (relay.py:95-107,
\* 137-143).
THEOREM LiveClientKeepsEntry == Spec => []LiveClientIsRegistered
<1>1. IInv => LiveClientIsRegistered
  BY DEF IInv
<1> QED
  BY Invariance, <1>1, PTL

\* Every registry entry points at a connection that add() put there and that
\* has not removed itself (relay.py:95-107).
THEOREM EntriesPointAtAdded == Spec => []EntriesAreAdded
<1>1. IInv => EntriesAreAdded
  BY DEF IInv
<1> QED
  BY Invariance, <1>1, PTL
-----------------------------------------------------------------------------
(* The refinement.  add() acquires, the assignment alive = False releases,  *)
(* and every other step, the removal of the entry included, is a stutter.   *)

\* add() acquires the identifier (relay.py:95-101).
LEMMA AddAcquires ==
    ASSUME IInv, NEW c \in Conns, AddClient(c)
    PROVE  Lease!Acquire(ident[c], c)
<1> USE NoConnAssumption DEF IInv, TypeOK, Holder, Former, Occupied
<1>1. ident[c] \in Identifiers /\ pc[c] = "adding" /\ alive[c]
  BY DEF AddClient, IdentifierKnown, Registered, NewClientIsAlive
<1>2. Holder[ident[c]] = NoConn
  BY <1>1 DEF AddClient
<1>3. \A j \in Identifiers : clients[j] # c
  BY <1>1 DEF EntriesAreAdded
<1>4. \A j \in Identifiers : Holder[j] # c
  BY <1>3
<1>5. c \notin Former
  BY <1>1
<1>6. Holder' = [Holder EXCEPT ![ident[c]] = c]
  BY <1>1 DEF AddClient
<1>7. Former' = Former
  BY <1>1 DEF AddClient
<1> QED
  BY <1>2, <1>4, <1>5, <1>6, <1>7 DEF Lease!Acquire

\* A reader that fails gives its identifier up (relay.py:138).
LEMMA FailureReleases ==
    ASSUME IInv, NEW c \in Conns, ReaderFails(c)
    PROVE  Lease!Release(ident[c], c)
<1> USE NoConnAssumption DEF IInv, TypeOK, Holder, Former, Occupied
<1>1. /\ ident[c] \in Identifiers /\ pc[c] \in {"serving", "handling"}
      /\ clients[ident[c]] = c /\ alive[c]
  BY DEF ReaderFails, IdentifierKnown, Registered, LiveClientIsRegistered
<1>2. Holder[ident[c]] = c
  BY <1>1
<1>3. \A j \in Identifiers \ {ident[c]} : clients[j] # c
  BY <1>1 DEF EntriesAreAdded
<1>4. Holder' = [Holder EXCEPT ![ident[c]] = NoConn]
  BY <1>1, <1>3 DEF ReaderFails
<1>5. Former' = Former \cup {c}
  BY <1>1 DEF ReaderFails
<1> QED
  BY <1>2, <1>4, <1>5 DEF Lease!Release

\* Removing the entry of a dead client changes nothing get() shows.
LEMMA RemovalStutters ==
    ASSUME IInv, NEW c \in Conns, CloseRemove(c)
    PROVE  UNCHANGED <<Holder, Former>>
<1> USE NoConnAssumption DEF IInv, TypeOK, Holder, Former, Occupied
<1>1. pc[c] = "removing" /\ ~alive[c]
  BY DEF CloseRemove, RemovedIsDead
<1>2. Holder' = Holder
  BY <1>1 DEF CloseRemove, Removed
<1>3. Former' = Former
  BY <1>1 DEF CloseRemove
<1> QED
  BY <1>2, <1>3

\* A step that touches neither the dictionary nor alive, and moves no thread
\* into or out of close(), changes nothing get() shows.
LEMMA OtherStepsStutter ==
    ASSUME UNCHANGED <<clients, alive>>,
           \A d \in Conns : pc'[d] \in {"removing", "closing", "closed"}
                             <=> pc[d] \in {"removing", "closing", "closed"}
    PROVE  UNCHANGED <<Holder, Former>>
  BY DEF Holder, Former, Occupied

\* The registry implements the lease of identifiers (relay.py:88-149).
THEOREM RegistryImplementsLease == Spec => LeaseRefinement
<1>1. Init => Lease!LeaseInit
  BY DEF Init, Lease!LeaseInit, Holder, Former, Occupied
<1>2. IInv /\ [Next]_vars => [Lease!LeaseNext]_(Lease!leaseVars)
  <2> SUFFICES ASSUME IInv, [Next]_vars
               PROVE  Lease!LeaseNext \/ UNCHANGED <<Holder, Former>>
    BY DEF Lease!leaseVars
  <2>0. \A c \in Conns : pc[c] \in Registered => ident[c] \in Identifiers
    BY DEF IInv, IdentifierKnown
  <2>1. ASSUME NEW c \in Conns, AddClient(c) PROVE Lease!LeaseNext
    BY <2>0, <2>1, AddAcquires DEF AddClient, Registered, Lease!LeaseNext
  <2>2. ASSUME NEW c \in Conns, ReaderFails(c) PROVE Lease!LeaseNext
    BY <2>0, <2>2, FailureReleases DEF ReaderFails, Registered, Lease!LeaseNext
  <2>3. ASSUME NEW c \in Conns, CloseRemove(c) PROVE UNCHANGED <<Holder, Former>>
    BY <2>3, RemovalStutters
  <2>4. ASSUME NEW c \in Conns,
               \/ Accept(c)
               \/ \E i \in Identifiers : RegisterFrame(c, i)
               \/ BadFirstFrame(c) \/ AddRefused(c) \/ Reject(c)
               \/ Answer(c) \/ AnswerFails(c) \/ CloseSocket(c) \/ PeerDown(c)
               \/ HandleFrame(c) \/ FrameHandled(c)
        PROVE  UNCHANGED <<Holder, Former>>
    <3>1. pc \in [Conns -> Places]
      BY DEF IInv, TypeOK
    <3>2. UNCHANGED <<clients, alive>> \/ \E i \in Identifiers : RegisterFrame(c, i)
      BY <2>4 DEF Accept, BadFirstFrame, AddRefused, Reject, Answer,
                  AnswerFails, CloseSocket, PeerDown, HandleFrame, FrameHandled
    <3>3. \A d \in Conns : pc'[d] \in {"removing", "closing", "closed"}
                            <=> pc[d] \in {"removing", "closing", "closed"}
      BY <2>4, <3>1 DEF Accept, RegisterFrame, BadFirstFrame, AddRefused,
                        Reject, Answer, AnswerFails, CloseSocket, PeerDown,
                        HandleFrame, FrameHandled
    <3>4. CASE UNCHANGED <<clients, alive>>
      BY <3>3, <3>4, OtherStepsStutter
    <3>5. ASSUME NEW i \in Identifiers, RegisterFrame(c, i)
          PROVE  UNCHANGED <<Holder, Former>>
      <4>1. \A j \in Identifiers : clients[j] # c
        BY <3>5, NoConnAssumption DEF RegisterFrame, IInv, EntriesAreAdded
      <4>2. \A j \in Identifiers : Occupied(j)' <=> Occupied(j)
        BY <3>5, <4>1 DEF RegisterFrame, Occupied, IInv, TypeOK
      <4>3. Holder' = Holder
        BY <3>5, <4>2 DEF RegisterFrame, Holder
      <4> QED
        BY <3>3, <4>3 DEF Former
    <3> QED
      BY <3>2, <3>4, <3>5
  <2>5. ASSUME NEW o \in Operators,
               (\E i \in Identifiers : OperatorGet(o, i)) \/ OperatorSend(o)
        PROVE  UNCHANGED <<Holder, Former>>
    BY <2>5, OtherStepsStutter DEF OperatorGet, OperatorSend
  <2>6. CASE UNCHANGED vars
    BY <2>6, OtherStepsStutter DEF vars
  <2> QED
    BY <2>1, <2>2, <2>3, <2>4, <2>5, <2>6 DEF Next
<1> QED
  BY <1>1, <1>2, Invariance, PTL DEF Spec, LeaseRefinement, Lease!LeaseSpec

-----------------------------------------------------------------------------
(* The registry and the machines *)

Admitted == {"serving", "handling", "removing", "closing", "closed"}

\* a connection is a machine's from the start, and gives its identifier
OwnersKnown ==
    \A c \in Conns : pc[c] \in Registered =>
        owner[c] \in Machines /\ ident[c] = MachineIdent[owner[c]]

\* a machine waits on, or runs over, a connection of its own
ConnectionsKnown ==
    \A m \in Machines : mstate[m] \in {"registering", "running"} =>
        mconn[m] \in Conns /\ pc[mconn[m]] # "idle" /\ owner[mconn[m]] = m

\* an approval is written by the handler that goes on to serve, and by no other
ApprovalsAreAnswers ==
    \A c \in Conns : \A k \in 1..Len(wire[c]) : wire[c][k] = "ok" => pc[c] \in Admitted

\* a machine runs once it has read an approval
RunningIsAdmitted ==
    \A m \in Machines : mstate[m] = "running" => pc[mconn[m]] \in Admitted

\* no handler is past its answer that wrote none
AdmittedAreAnswered == \A c \in Conns : pc[c] \in Admitted => wire[c] # <<>>

RInv ==
    /\ RegistrationTypeOK
    /\ OwnersKnown
    /\ ConnectionsKnown
    /\ ApprovalsAreAnswers
    /\ RunningIsAdmitted
    /\ AdmittedAreAnswered

-----------------------------------------------------------------------------
\* Every step of the composition is a step of the registry, or none.
LEMMA StepsOfRegistry ==
    ASSUME RegistrationTypeOK, [RegistrationNext]_rvars
    PROVE  [Next]_vars
<1> USE MachineIdentAssumption DEF RegistrationTypeOK
<1>1. ASSUME NEW m \in Machines,
             \/ \E c \in Conns : Connect(m, c)
             \/ ReadResult(m) \/ ConnectionFails(m) \/ Retry(m)
      PROVE  [Next]_vars
  BY <1>1 DEF Connect, ReadResult, ConnectionFails, Retry, Next
<1>2. ASSUME NEW c \in Conns, ReadRegister(c) PROVE [Next]_vars
  <2>1. owner[c] \in Machines
    BY <1>2 DEF ReadRegister
  <2>2. MachineIdent[owner[c]] \in Identifiers
    BY <2>1
  <2> QED
    BY <1>2, <2>2 DEF ReadRegister, Next
<1>3. ASSUME NEW c \in Conns, LoseRegister(c) \/ RelayStep(c) PROVE [Next]_vars
  BY <1>3 DEF LoseRegister, RelayStep, Next
<1>4. ASSUME NEW o \in Operators, OperatorStep(o) PROVE [Next]_vars
  BY <1>4 DEF OperatorStep, Next
<1>5. CASE UNCHANGED rvars
  BY <1>5 DEF rvars, vars
<1> QED
  BY <1>1, <1>2, <1>3, <1>4, <1>5 DEF RegistrationNext

\* The initial state satisfies the invariants.
LEMMA InitRInv == RegistrationInit => RInv /\ IInv
<1> SUFFICES ASSUME RegistrationInit PROVE RInv /\ IInv
  OBVIOUS
<1>1. IInv
  BY InitIInv DEF RegistrationInit
<1>2. RegistrationTypeOK
  BY <1>1 DEF RegistrationInit, RegistrationTypeOK, IInv, MStates
<1> QED
  BY <1>1, <1>2 DEF RInv, RegistrationInit, Init, OwnersKnown, ConnectionsKnown,
     ApprovalsAreAnswers, RunningIsAdmitted, Registered, Admitted, AdmittedAreAnswered

\* Every step keeps the types.
LEMMA RegistrationKeepsTypes ==
    ASSUME RegistrationTypeOK, [RegistrationNext]_rvars
    PROVE  RegistrationTypeOK'
<1>0. TypeOK'
  BY StepsOfRegistry, NextTypeOK DEF RegistrationTypeOK
<1> USE DEF RegistrationTypeOK, MStates
<1>1. ASSUME NEW m \in Machines, NEW c \in Conns, Connect(m, c)
      PROVE  RegistrationTypeOK'
  BY <1>0, <1>1 DEF Connect
<1>2. ASSUME NEW m \in Machines, ReadResult(m) PROVE RegistrationTypeOK'
  BY <1>0, <1>2 DEF ReadResult, Outcome
<1>3. ASSUME NEW m \in Machines, ConnectionFails(m) \/ Retry(m)
      PROVE  RegistrationTypeOK'
  BY <1>0, <1>3 DEF ConnectionFails, Retry
<1>4. ASSUME UNCHANGED mvars PROVE RegistrationTypeOK'
  BY <1>0, <1>4 DEF mvars
<1> QED
  BY <1>1, <1>2, <1>3, <1>4
  DEF RegistrationNext, ReadRegister, LoseRegister, RelayStep, OperatorStep, rvars

-----------------------------------------------------------------------------
\* What any step of the relay does to a connection: none goes back to the start,
\* an identifier once given stays, and whoever is admitted remains so.
LEMMA RegistrySteps ==
    ASSUME TypeOK, [Next]_vars, NEW c \in Conns
    PROVE  /\ pc[c] # "idle" => pc'[c] # "idle"
           /\ pc[c] \in Registered => ident'[c] = ident[c]
           /\ pc[c] \in Admitted => pc'[c] \in Admitted
<1> DEFINE Goal == /\ pc[c] # "idle" => pc'[c] # "idle"
                   /\ pc[c] \in Registered => ident'[c] = ident[c]
                   /\ pc[c] \in Admitted => pc'[c] \in Admitted
<1> USE DEF TypeOK, Registered, Admitted, Places
<1>1. ASSUME NEW d \in Conns,
             \/ Accept(d)
             \/ \E i \in Identifiers : RegisterFrame(d, i)
             \/ BadFirstFrame(d)
             \/ AddClient(d) \/ AddRefused(d)
      PROVE  Goal
  BY <1>1 DEF Accept, RegisterFrame, BadFirstFrame, AddClient, AddRefused
<1>2. ASSUME NEW d \in Conns,
             \/ Reject(d) \/ Answer(d) \/ AnswerFails(d)
             \/ ReaderFails(d) \/ CloseRemove(d) \/ CloseSocket(d)
             \/ PeerDown(d) \/ HandleFrame(d) \/ FrameHandled(d)
      PROVE  Goal
  BY <1>2 DEF Reject, Answer, AnswerFails, ReaderFails, CloseRemove, CloseSocket, PeerDown,
              HandleFrame, FrameHandled
<1>3. ASSUME NEW o \in Operators,
             (\E i \in Identifiers : OperatorGet(o, i)) \/ OperatorSend(o)
      PROVE  Goal
  BY <1>3 DEF OperatorGet, OperatorSend
<1>4. CASE UNCHANGED vars
  BY <1>4 DEF vars
<1> QED
  BY <1>1, <1>2, <1>3, <1>4 DEF Next

\* What is new on a connection is one frame, an approval only if it is admitted.
LEMMA NewFrames ==
    ASSUME TypeOK, [Next]_vars, NEW c \in Conns
    PROVE  \/ wire'[c] = wire[c]
           \/ \E f \in Frames : /\ wire'[c] = Append(wire[c], f)
                                /\ f = "ok" => pc'[c] \in Admitted
<1> DEFINE Goal == \/ wire'[c] = wire[c]
                   \/ \E f \in Frames : /\ wire'[c] = Append(wire[c], f)
                                        /\ f = "ok" => pc'[c] \in Admitted
<1> USE DEF TypeOK, Frames
<1>1. ASSUME NEW d \in Conns, BadFirstFrame(d) \/ Reject(d) PROVE Goal
  BY <1>1 DEF BadFirstFrame, Reject
<1>2. ASSUME NEW d \in Conns, Answer(d) PROVE Goal
  BY <1>2 DEF Answer, Admitted
<1>3. ASSUME NEW o \in Operators, OperatorSend(o) PROVE Goal
  <2>1. ref[o] \in Conns
    BY <1>3 DEF OperatorSend
  <2> QED
    BY <1>3, <2>1 DEF OperatorSend
<1>4. CASE UNCHANGED wire
  BY <1>4
<1> QED
  BY <1>1, <1>2, <1>3, <1>4
  DEF Next, vars, Accept, RegisterFrame, AddClient, AddRefused, AnswerFails,
      HandleFrame, FrameHandled, ReaderFails, CloseRemove, CloseSocket, PeerDown, OperatorGet

\* Approvals stay answers.
LEMMA KeepsApprovals ==
    ASSUME TypeOK, [Next]_vars, ApprovalsAreAnswers
    PROVE  ApprovalsAreAnswers'
<1> SUFFICES ASSUME NEW c \in Conns, NEW k \in 1..Len(wire'[c]), wire'[c][k] = "ok"
             PROVE  pc'[c] \in Admitted
  BY DEF ApprovalsAreAnswers
<1>0. wire[c] \in Seq(Frames) /\ (pc[c] \in Admitted => pc'[c] \in Admitted)
  BY RegistrySteps DEF TypeOK
<1>1. CASE wire'[c] = wire[c]
  BY <1>0, <1>1 DEF ApprovalsAreAnswers
<1>2. ASSUME NEW f \in Frames, wire'[c] = Append(wire[c], f),
             f = "ok" => pc'[c] \in Admitted
      PROVE  pc'[c] \in Admitted
  <2>1. CASE k = Len(wire[c]) + 1
    BY <1>0, <1>2, <2>1
  <2>2. CASE k \in 1..Len(wire[c])
    BY <1>0, <1>2, <2>2 DEF ApprovalsAreAnswers
  <2> QED
    BY <1>0, <1>2, <2>1, <2>2
<1> QED
  BY <1>1, <1>2, NewFrames

\* Only the answer admits: a step that lets a handler go on to serve has written.
LEMMA KeepsAnswered ==
    ASSUME TypeOK, [Next]_vars, AdmittedAreAnswered
    PROVE  AdmittedAreAnswered'
<1> SUFFICES ASSUME NEW c \in Conns, pc'[c] \in Admitted, wire'[c] = wire[c]
             PROVE  wire[c] # <<>>
  <2>1. ASSUME NEW c \in Conns, NEW f \in Frames, wire'[c] = Append(wire[c], f)
        PROVE  wire'[c] # <<>>
    <3>1. wire[c] \in Seq(Frames)
      BY DEF TypeOK
    <3> QED
      BY <2>1, <3>1
  <2> QED
    BY <2>1, NewFrames DEF AdmittedAreAnswered
<1>1. CASE pc[c] \in Admitted
  BY <1>1 DEF AdmittedAreAnswered
<1>2. CASE pc[c] \notin Admitted
  <2>1. Answer(c)
    BY <1>2 DEF TypeOK, Admitted, Next, vars, Accept, RegisterFrame, BadFirstFrame, AddClient,
       AddRefused, Reject, Answer, AnswerFails, ReaderFails, CloseRemove, CloseSocket, PeerDown,
       HandleFrame, FrameHandled, OperatorGet, OperatorSend
  <2>2. wire[c] \in Seq(Frames) /\ wire'[c] = Append(wire[c], "ok")
    BY <2>1 DEF Answer, TypeOK
  <2> QED
    BY <2>2
<1> QED
  BY <1>1, <1>2

\* Owners stay those whose identifier the connection gave.
LEMMA KeepsOwners ==
    ASSUME RInv, [RegistrationNext]_rvars
    PROVE  OwnersKnown'
<1> USE DEF RInv, RegistrationTypeOK, TypeOK, OwnersKnown, Registered
<1>1. ASSUME NEW m \in Machines, NEW c \in Conns, Connect(m, c) PROVE OwnersKnown'
  BY <1>1 DEF Connect, Accept
<1>2. ASSUME NEW c \in Conns, ReadRegister(c) PROVE OwnersKnown'
  BY <1>2 DEF ReadRegister, RegisterFrame, mvars
<1>3. ASSUME NEW c \in Conns, LoseRegister(c) PROVE OwnersKnown'
  BY <1>3 DEF LoseRegister, BadFirstFrame, mvars
<1>4. ASSUME NEW c \in Conns, AddClient(c) \/ AddRefused(c) \/ Reject(c), UNCHANGED mvars
      PROVE  OwnersKnown'
  BY <1>4 DEF AddClient, AddRefused, Reject, mvars
<1>5. ASSUME NEW c \in Conns,
             Answer(c) \/ AnswerFails(c) \/ ReaderFails(c) \/ CloseRemove(c) \/ CloseSocket(c),
             UNCHANGED mvars
      PROVE  OwnersKnown'
  BY <1>5 DEF Answer, AnswerFails, ReaderFails, CloseRemove, CloseSocket, mvars
<1>6. ASSUME NEW c \in Conns, HandleFrame(c) \/ FrameHandled(c), UNCHANGED mvars
      PROVE  OwnersKnown'
  BY <1>6 DEF HandleFrame, FrameHandled, mvars
<1>7. ASSUME UNCHANGED <<pc, ident, owner>> PROVE OwnersKnown'
  BY <1>7
<1> QED
  BY <1>1, <1>2, <1>3, <1>4, <1>5, <1>6, <1>7
  DEF RegistrationNext, RelayStep, PeerDown, OperatorStep, OperatorGet, OperatorSend,
      ReadResult, ConnectionFails, Retry, rvars, vars, mvars

\* Machines stay with connections of their own, and run only over admitted ones.
LEMMA KeepsConnections ==
    ASSUME RInv, [RegistrationNext]_rvars
    PROVE  ConnectionsKnown' /\ RunningIsAdmitted'
<1> USE DEF RInv, RegistrationTypeOK, ConnectionsKnown, RunningIsAdmitted, MStates
<1>0. \A c \in Conns : /\ pc[c] # "idle" => pc'[c] # "idle"
                       /\ pc[c] \in Admitted => pc'[c] \in Admitted
  BY StepsOfRegistry, RegistrySteps
<1>1. ASSUME NEW m \in Machines, NEW c \in Conns, Connect(m, c)
      PROVE  ConnectionsKnown' /\ RunningIsAdmitted'
  <2>1. pc[c] = "idle" /\ pc'[c] = "accepted" /\ owner'[c] = m /\ mconn'[m] = c
        /\ mstate'[m] = "registering"
    BY <1>1 DEF Connect, Accept, TypeOK
  <2>2. \A n \in Machines \ {m} : mstate'[n] = mstate[n] /\ mconn'[n] = mconn[n]
    BY <1>1 DEF Connect
  <2>3. \A d \in Conns \ {c} : owner'[d] = owner[d]
    BY <1>1 DEF Connect
  <2> QED
    BY <1>0, <2>1, <2>2, <2>3
<1>2. ASSUME NEW m \in Machines, ReadResult(m)
      PROVE  ConnectionsKnown' /\ RunningIsAdmitted'
  <2>1. mconn[m] \in Conns /\ mstate[m] = "registering" /\ wire[mconn[m]] # <<>>
    BY <1>2 DEF ReadResult
  <2>2. wire[mconn[m]] \in Seq(Frames)
    BY <2>1 DEF TypeOK
  <2>3. mstate'[m] = "running" => wire[mconn[m]][1] = "ok"
    BY <1>2, <2>1, <2>2 DEF ReadResult, Outcome
  <2>4. mstate'[m] = "running" => pc[mconn[m]] \in Admitted
    BY <2>1, <2>2, <2>3 DEF ApprovalsAreAnswers
  <2> QED
    BY <1>2, <2>1, <2>4 DEF ReadResult, vars
<1>3. ASSUME NEW m \in Machines, ConnectionFails(m) \/ Retry(m)
      PROVE  ConnectionsKnown' /\ RunningIsAdmitted'
  BY <1>3 DEF ConnectionFails, Retry, vars
<1>4. ASSUME UNCHANGED mvars PROVE ConnectionsKnown' /\ RunningIsAdmitted'
  BY <1>0, <1>4 DEF mvars
<1> QED
  BY <1>1, <1>2, <1>3, <1>4
  DEF RegistrationNext, ReadRegister, LoseRegister, RelayStep, OperatorStep, rvars

\* The invariants hold in every reachable state.
LEMMA RegistrationInvariance == RegistrationSpec => [](RInv /\ IInv)
<1>1. RInv /\ IInv /\ [RegistrationNext]_rvars => (RInv /\ IInv)'
  <2> SUFFICES ASSUME RInv, IInv, [RegistrationNext]_rvars PROVE RInv' /\ IInv'
    OBVIOUS
  <2>1. TypeOK /\ [Next]_vars
    BY StepsOfRegistry DEF RInv, RegistrationTypeOK
  <2>2. IInv'
    BY <2>1, NextIInv
  <2>3. RegistrationTypeOK'
    BY RegistrationKeepsTypes DEF RInv
  <2>4. ApprovalsAreAnswers'
    BY <2>1, KeepsApprovals DEF RInv
  <2>5. AdmittedAreAnswered'
    BY <2>1, KeepsAnswered DEF RInv
  <2> QED
    BY <2>2, <2>3, <2>4, <2>5, KeepsOwners, KeepsConnections DEF RInv
<1> QED
  BY InitRInv, <1>1, PTL DEF RegistrationSpec

-----------------------------------------------------------------------------
\* Seen from the relay, machines are peers like any others: everything proved of
\* the registry alone holds of it here (relay.py:997-1024, client.py:563-585).
THEOREM RegistryGoesOnAsAlone == RegistrationSpec => Spec
<1>1. RInv /\ [RegistrationNext]_rvars => [Next]_vars
  BY StepsOfRegistry DEF RInv
<1>2. RegistrationInit => Init
  BY DEF RegistrationInit
<1> QED
  BY RegistrationInvariance, <1>1, <1>2, PTL DEF RegistrationSpec, Spec

\* With machines that reconnect and give up, the registry still implements the
\* lease of identifiers (relay.py:88-149).
THEOREM RegistrationImplementsLease == RegistrationSpec => LeaseRefinement
  BY RegistryGoesOnAsAlone, RegistryImplementsLease, PTL

\* A running machine's connection is admitted: it is what the identifier leads
\* to, or it is dead.
LEMMA RunningIsRegistered ==
    ASSUME RInv, IInv, NEW m \in Machines, mstate[m] = "running"
    PROVE  /\ mconn[m] \in Conns /\ owner[mconn[m]] = m
           /\ clients[MachineIdent[m]] = mconn[m] \/ ~alive[mconn[m]]
<1>1. mconn[m] \in Conns /\ owner[mconn[m]] = m /\ pc[mconn[m]] \in Admitted
  BY DEF RInv, ConnectionsKnown, RunningIsAdmitted
<1>2. ident[mconn[m]] = MachineIdent[m]
  BY <1>1 DEF RInv, OwnersKnown, Registered, Admitted
<1>3. CASE pc[mconn[m]] \in {"serving", "handling"}
  BY <1>1, <1>2, <1>3 DEF IInv, LiveClientIsRegistered
<1>4. CASE pc[mconn[m]] \notin {"serving", "handling"}
  BY <1>1, <1>4 DEF IInv, RemovedIsDead, Admitted
<1> QED
  BY <1>1, <1>3, <1>4

\* A machine that was told "registered" is the one its identifier leads to, or
\* the relay has given its connection up (client.py:161-164; relay.py:1011-1018).
THEOREM ToldIsRegistered == RegistrationSpec => []ToldSoIsRegistered
<1>1. RInv /\ IInv => ToldSoIsRegistered
  BY RunningIsRegistered DEF ToldSoIsRegistered
<1> QED
  BY RegistrationInvariance, <1>1, PTL

\* Of two machines with one identifier that run at once, the relay has given one
\* up (relay.py:95-101).
THEOREM NeverTwoServed == RegistrationSpec => []NoTwoServed
<1>1. RInv /\ IInv => NoTwoServed
  <2> SUFFICES ASSUME RInv, IInv, NEW m \in Machines, NEW n \in Machines, m # n,
                      MachineIdent[m] = MachineIdent[n],
                      mstate[m] = "running", mstate[n] = "running",
                      alive[mconn[m]], alive[mconn[n]]
               PROVE  FALSE
    BY DEF NoTwoServed
  <2>1. owner[mconn[m]] = m /\ clients[MachineIdent[m]] = mconn[m]
    BY RunningIsRegistered
  <2>2. owner[mconn[n]] = n /\ clients[MachineIdent[n]] = mconn[n]
    BY RunningIsRegistered
  <2> QED
    BY <2>1, <2>2
<1> QED
  BY RegistrationInvariance, <1>1, PTL

\* A machine that waits for its registration result has one to read, is owed one
\* by a handler, or faces a socket the relay closed (relay.py:1011-1024).
THEOREM AnswersAreDue == RegistrationSpec => []AnswerIsDue
<1>1. RInv => AnswerIsDue
  <2> SUFFICES ASSUME RInv, NEW m \in Machines, mstate[m] = "registering",
                      wire[mconn[m]] = <<>>, SocketOpen(mconn[m])
               PROVE  pc[mconn[m]] \in {"accepted", "adding", "rejecting", "answering"}
    BY DEF AnswerIsDue
  <2>1. mconn[m] \in Conns
    BY DEF RInv, ConnectionsKnown
  <2>2. pc[mconn[m]] \in Places /\ pc[mconn[m]] \notin Admitted
    BY <2>1 DEF RInv, AdmittedAreAnswered, RegistrationTypeOK, TypeOK
  <2> QED
    BY <2>2 DEF SocketOpen, Places, Admitted
<1> QED
  BY RegistrationInvariance, <1>1, PTL
=============================================================================
