--------------------------- MODULE OperatorAuthProofs ---------------------------
(***************************************************************************)
(* Proofs about the approval of operators, for any numbers of operators,   *)
(* keys and connections, and without a bound on what is asked.             *)
(*                                                                         *)
(* That an operator that was let in was approved is the end of a chain:    *)
(* its event was set by an answer, the answer was made for a request, and  *)
(* the request carries the operator's key.  IInv follows that chain        *)
(* backwards.  What holds it together is that an id names one request of   *)
(* one operator for as long as anybody may act on it (RequestOK and        *)
(* DifferentRequests): the answer to a request that has timed out can be   *)
(* late, but it cannot be taken for the answer to another one.             *)
(*                                                                         *)
(* That a trust is in the file before anybody is let in by it needs more:  *)
(* that a request is in one place at a time (PInv), so that no other       *)
(* answer to it is on the way while the human is asked.                    *)
(***************************************************************************)
EXTENDS OperatorAuth, TLAPS

\* o has a request, and oconn, oid and okey are those of that request
Active(o) == opc[o] \in {"sending", "waiting", "expired", "authed"}

\* r is a request that connection c was given, and whoever waits for the answer
\* to it has the key it names
RequestOK(c, r) ==
    /\ r[1] < authCounter[c]
    /\ \A o \in Operators :
          Active(o) /\ oconn[o] = c /\ oid[o] = r[1] => okey[o] = r[2]

\* a is an answer that connection c may bring: a "yes" is an approved one
AnswerOK(c, a) ==
    a[2] => \E k \in Keys : RequestOK(c, <<a[1], k>>) /\ Approved(c, a[1], k)

MachineIsConnected == mpc # "reading" => mconn \in Conns

\* the messages of a queue
InQueue(q) == {q[i] : i \in 1..Len(q)}

RequestsOK == \A c \in Conns : \A r \in InQueue(toMachine[c]) : RequestOK(c, r)

MachineOK ==
    /\ mpc # "reading" => RequestOK(mconn, mreq)
    /\ mpc \in {"persisting", "responding"} /\ mok =>
          Approved(mconn, mreq[1], mreq[2])
    /\ mpc = "persisting" => Trusted(mreq[2])

AnswersOK == \A c \in Conns : \A a \in InQueue(toRelay[c]) : AnswerOK(c, a)

OperatorsOK ==
    \A o \in Operators :
        /\ Active(o) => oid[o] < authCounter[oconn[o]]
        /\ Active(o) /\ event[o] = "yes" => Approved(oconn[o], oid[o], okey[o])
        /\ opc[o] = "authed" => event[o] = "yes"

DifferentRequests ==
    \A o, p \in Operators :
        Active(o) /\ Active(p) /\ o # p =>
            <<oconn[o], oid[o]>> # <<oconn[p], oid[p]>>

PendingAreRequests ==
    \A c \in Conns : \A e \in pendingAuth[c] :
        /\ opc[e[2]] \in {"sending", "waiting", "expired", "ended"}
        /\ oconn[e[2]] = c /\ oid[e[2]] = e[1]
        /\ event[e[2]] = "unset"

IInv ==
    /\ TypeOK /\ MachineIsConnected
    /\ StrictNeverPrompts /\ OnlyTrustPersists
    /\ RequestsOK /\ MachineOK /\ AnswersOK
    /\ OperatorsOK /\ DifferentRequests /\ PendingAreRequests
    /\ WaitersAreReachable

-----------------------------------------------------------------------------
\* Appending to one of the queues keeps its type.
LEMMA QueueAppend ==
    ASSUME NEW S, NEW q \in [Conns -> Seq(S)], NEW c \in Conns, NEW m \in S
    PROVE  [q EXCEPT ![c] = Append(q[c], m)] \in [Conns -> Seq(S)]
<1>1. Append(q[c], m) \in Seq(S)
  OBVIOUS
<1> QED
  BY <1>1, Zenon

\* What a queue holds after an append was in it or is new.
LEMMA AppendHolds ==
    ASSUME NEW S, NEW q \in Seq(S), NEW m \in S, NEW i \in 1..Len(Append(q, m))
    PROVE  \/ Append(q, m)[i] = m
           \/ i \in 1..Len(q) /\ Append(q, m)[i] = q[i]
  OBVIOUS

\* What a queue holds after its head was taken was in it.
LEMMA TailHolds ==
    ASSUME NEW S, NEW q \in Seq(S), q # <<>>, NEW i \in 1..Len(Tail(q))
    PROVE  i + 1 \in 1..Len(q) /\ Tail(q)[i] = q[i + 1]
  OBVIOUS

\* The head of a queue is in it.
LEMMA HeadHolds ==
    ASSUME NEW S, NEW q \in Seq(S), q # <<>>
    PROVE  1 \in 1..Len(q) /\ Head(q) = q[1] /\ Head(q) \in S /\ Tail(q) \in Seq(S)
  OBVIOUS

-----------------------------------------------------------------------------
\* The initial states: nobody asks, nothing is on the way, nobody was let in.
LEMMA InitIInv == Init => IInv
<1> SUFFICES ASSUME Init
             PROVE  IInv
  OBVIOUS
<1>1. AnyKey \in Keys /\ AnyConn \in Conns
  BY SomeAssumption DEF AnyKey, AnyConn
<1>2. \A S : <<>> \in Seq(S)
  OBVIOUS
<1>3. TypeOK
  BY <1>1, <1>2, ModeAssumption, KeysAssumption
  DEF Init, TypeOK, OPlaces, MPlaces
<1>4. MachineIsConnected /\ StrictNeverPrompts /\ OnlyTrustPersists
  BY DEF Init, MachineIsConnected, StrictNeverPrompts, OnlyTrustPersists
<1>5. RequestsOK /\ MachineOK /\ AnswersOK
  BY DEF Init, RequestsOK, MachineOK, AnswersOK, InQueue
<1>6. OperatorsOK /\ DifferentRequests /\ PendingAreRequests /\ WaitersAreReachable
  BY DEF Init, OperatorsOK, DifferentRequests, PendingAreRequests,
         WaitersAreReachable, Active
<1> QED
  BY <1>3, <1>4, <1>5, <1>6 DEF IInv

-----------------------------------------------------------------------------
\* Every step keeps the types, and the machine handles requests only on a
\* connection.
LEMMA NextTypeOK ==
    ASSUME TypeOK, MachineIsConnected, [Next]_vars
    PROVE  TypeOK' /\ MachineIsConnected'
<1> USE DEF TypeOK, MachineIsConnected, OPlaces, MPlaces, vars, relayVars,
            machineVars, netVars
<1>1. ASSUME NEW o \in Operators, NEW k \in Keys, AskFor(o, k)
      PROVE  TypeOK' /\ MachineIsConnected'
  <2>1. registered \in Conns
    BY <1>1 DEF AskFor
  <2>2. okey' \in [Operators -> Keys] /\ oconn' \in [Operators -> Conns]
    BY <1>1, <2>1 DEF AskFor
  <2>3. opc' \in [Operators -> OPlaces] /\ tries' \in Nat
    BY <1>1 DEF AskFor
  <2> QED
    BY <1>1, <2>2, <2>3 DEF AskFor
<1>2. ASSUME NEW o \in Operators, Allocate(o)
      PROVE  TypeOK' /\ MachineIsConnected'
  <2>1. authCounter[oconn[o]] \in Nat /\ oconn[o] \in Conns
    BY <1>2
  <2>2. oid' \in [Operators -> Nat] /\ oid'[o] = authCounter[oconn[o]]
    BY <1>2, <2>1 DEF Allocate
  <2>3. pendingAuth' \in [Conns -> SUBSET (Nat \X Operators)]
    <3> DEFINE S == {p \in pendingAuth[oconn[o]] : p[1] # oid'[o]} \cup {<<oid'[o], o>>}
    <3>1. S \in SUBSET (Nat \X Operators)
      <4>1. oid'[o] \in Nat
        BY <2>1, <2>2
      <4>2. pendingAuth[oconn[o]] \subseteq Nat \X Operators
        BY <2>1
      <4> HIDE DEF TypeOK
      <4> QED
        BY <4>1, <4>2
    <3>2. pendingAuth' = [pendingAuth EXCEPT ![oconn[o]] = S]
      BY <1>2 DEF Allocate
    <3> HIDE DEF S
    <3> QED
      BY <2>1, <3>1, <3>2
  <2>4. authCounter' \in [Conns -> Nat]
    <3>1. authCounter' = [authCounter EXCEPT ![oconn[o]] = authCounter[oconn[o]] + 1]
      BY <1>2 DEF Allocate
    <3> QED
      BY <2>1, <3>1
  <2> QED
    BY <1>2, <2>2, <2>3, <2>4 DEF Allocate
<1>3. ASSUME NEW o \in Operators, Send(o)
      PROVE  TypeOK' /\ MachineIsConnected'
  <2>1. toMachine' \in [Conns -> Seq(Nat \X Keys)]
    <3>1. CASE toMachine' = toMachine
      BY <3>1
    <3>2. CASE toMachine' = [toMachine EXCEPT ![oconn[o]] =
                               Append(toMachine[oconn[o]], <<oid[o], okey[o]>>)]
      <4>1. <<oid[o], okey[o]>> \in Nat \X Keys /\ oconn[o] \in Conns
        OBVIOUS
      <4> QED
        BY <3>2, <4>1, QueueAppend
    <3> QED
      BY <1>3, <3>1, <3>2 DEF Send
  <2> QED
    BY <1>3, <2>1 DEF Send
<1>4. ASSUME NEW o \in Operators,
             SendFails(o) \/ Wake(o) \/ Expire(o) \/ OperatorLeaves(o)
      PROVE  TypeOK' /\ MachineIsConnected'
  BY <1>4 DEF SendFails, Wake, Expire, OperatorLeaves
<1>5. ASSUME NEW o \in Operators, GiveUp(o)
      PROVE  TypeOK' /\ MachineIsConnected'
  BY <1>5 DEF GiveUp
<1>6. ASSUME NEW c \in Conns, Register(c)
      PROVE  TypeOK' /\ MachineIsConnected'
  BY <1>6 DEF Register
<1>7. ASSUME ReadRequest
      PROVE  TypeOK' /\ MachineIsConnected'
  <2>1. mconn \in Conns
    BY <1>7 DEF ReadRequest
  <2>2. /\ Head(toMachine[mconn]) \in Nat \X Keys
        /\ Tail(toMachine[mconn]) \in Seq(Nat \X Keys)
    BY <1>7, <2>1, HeadHolds DEF ReadRequest
  <2>3. toMachine' \in [Conns -> Seq(Nat \X Keys)]
    BY <1>7, <2>1, <2>2 DEF ReadRequest
  <2> QED
    BY <1>7, <2>1, <2>2, <2>3 DEF ReadRequest
<1>8. ASSUME NEW a \in Answers, HumanAnswers(a)
      PROVE  TypeOK' /\ MachineIsConnected'
  <2>1. <<mconn, mreq[1], mreq[2], a>> \in Conns \X Nat \X Keys \X Answers
    BY <1>8 DEF HumanAnswers
  <2> QED
    BY <1>8, <2>1 DEF HumanAnswers, AfterPrompt
<1>9. ASSUME Persist
      PROVE  TypeOK' /\ MachineIsConnected'
  BY <1>9 DEF Persist
<1>10. ASSUME Respond
       PROVE  TypeOK' /\ MachineIsConnected'
  <2>1. toRelay' \in [Conns -> Seq(Nat \X BOOLEAN)]
    <3>1. CASE toRelay' = toRelay
      BY <3>1
    <3>2. CASE toRelay' = [toRelay EXCEPT ![mconn] =
                             Append(toRelay[mconn], <<mreq[1], mok>>)]
      <4>1. <<mreq[1], mok>> \in Nat \X BOOLEAN /\ mconn \in Conns
        BY <1>10 DEF Respond
      <4> QED
        BY <3>2, <4>1, QueueAppend
    <3> QED
      BY <1>10, <3>1, <3>2 DEF Respond
  <2> QED
    BY <1>10, <2>1 DEF Respond
<1>11. ASSUME Crash
       PROVE  TypeOK' /\ MachineIsConnected'
  <2>1. <<>> \in Seq(Nat \X Keys)
    OBVIOUS
  <2> QED
    BY <1>11, <2>1 DEF Crash
<1>12. ASSUME NEW c \in Conns, ReadResponse(c)
       PROVE  TypeOK' /\ MachineIsConnected'
  <2>1. Tail(toRelay[c]) \in Seq(Nat \X BOOLEAN)
    BY <1>12, HeadHolds DEF ReadResponse
  <2>2. toRelay' \in [Conns -> Seq(Nat \X BOOLEAN)]
    BY <1>12, <2>1 DEF ReadResponse
  <2>3. event' \in [Operators -> {"unset", "yes", "no"}]
    BY <1>12 DEF ReadResponse, Deliver
  <2> QED
    BY <1>12, <2>2, <2>3 DEF ReadResponse, Deliver
<1>13. ASSUME NEW c \in Conns, CloseClient(c) \/ LoseLink(c)
       PROVE  TypeOK' /\ MachineIsConnected'
  BY <1>13 DEF CloseClient, LoseLink
<1>14. ASSUME UNCHANGED vars
       PROVE  TypeOK' /\ MachineIsConnected'
  BY <1>14
<1> QED
  BY <1>1, <1>2, <1>3, <1>4, <1>5, <1>6, <1>7, <1>8, <1>9, <1>10, <1>11, <1>12,
     <1>13, <1>14
  DEF Next, OperatorStep, MachineStep, ConnStep

-----------------------------------------------------------------------------
\* In a step an operator keeps its request, has none afterwards, or is given
\* one under an id that its connection has never used.
LEMMA RequestsAreFresh ==
    ASSUME TypeOK, [Next]_vars, NEW o \in Operators
    PROVE  \/ /\ Active(o)
              /\ okey'[o] = okey[o] /\ oconn'[o] = oconn[o] /\ oid'[o] = oid[o]
           \/ ~Active(o)'
           \/ /\ Allocate(o) /\ oconn[o] \in Conns
              /\ okey'[o] = okey[o] /\ oconn'[o] = oconn[o]
              /\ oid'[o] = authCounter[oconn[o]]
              /\ authCounter'[oconn[o]] = authCounter[oconn[o]] + 1
<1> DEFINE Goal == \/ /\ Active(o)
                      /\ okey'[o] = okey[o] /\ oconn'[o] = oconn[o]
                      /\ oid'[o] = oid[o]
                   \/ ~Active(o)'
                   \/ /\ Allocate(o) /\ oconn[o] \in Conns
                      /\ okey'[o] = okey[o] /\ oconn'[o] = oconn[o]
                      /\ oid'[o] = authCounter[oconn[o]]
                      /\ authCounter'[oconn[o]] = authCounter[oconn[o]] + 1
<1> USE DEF TypeOK
<1>1. ASSUME NEW p \in Operators, NEW k \in Keys, AskFor(p, k)
      PROVE  Goal
  BY <1>1 DEF AskFor, Active
<1>2. ASSUME NEW p \in Operators, Allocate(p)
      PROVE  Goal
  <2>1. CASE p = o
    BY <1>2, <2>1 DEF Allocate
  <2>2. CASE p # o
    BY <1>2, <2>2 DEF Allocate, Active
  <2> QED
    BY <2>1, <2>2
<1>3. ASSUME NEW p \in Operators,
             Send(p) \/ SendFails(p) \/ Wake(p) \/ Expire(p) \/ GiveUp(p)
               \/ OperatorLeaves(p)
      PROVE  Goal
  BY <1>3 DEF Send, SendFails, Wake, Expire, GiveUp, OperatorLeaves, Active
<1>4. ASSUME MachineStep
      PROVE  Goal
  BY <1>4 DEF MachineStep, Register, ReadRequest, HumanAnswers, Persist, Respond,
              Crash, Active, relayVars
<1>5. ASSUME NEW c \in Conns, ConnStep(c)
      PROVE  Goal
  BY <1>5 DEF ConnStep, ReadResponse, Deliver, CloseClient, LoseLink, Active,
              relayVars
<1>6. ASSUME UNCHANGED vars
      PROVE  Goal
  BY <1>6 DEF vars, relayVars, Active
<1> QED
  BY <1>1, <1>2, <1>3, <1>4, <1>5, <1>6 DEF Next, OperatorStep

\* No id is given out twice, nothing that was said is unsaid, and the allowlist
\* does not come and go.
LEMMA NothingIsForgotten ==
    ASSUME TypeOK, [Next]_vars
    PROVE  /\ \A c \in Conns : authCounter[c] <= authCounter'[c]
           /\ said \subseteq said'
           /\ strict' = strict
<1> USE DEF TypeOK
<1>1. ASSUME NEW o \in Operators, Allocate(o)
      PROVE  /\ \A c \in Conns : authCounter[c] <= authCounter'[c]
             /\ said' = said /\ strict' = strict
  <2> DEFINE d == oconn[o]
  <2>1. d \in Conns /\ authCounter \in [Conns -> Nat]
    OBVIOUS
  <2>2. authCounter' = [authCounter EXCEPT ![d] = authCounter[d] + 1]
    BY <1>1 DEF Allocate
  <2>3. said' = said /\ strict' = strict
    BY <1>1 DEF Allocate, machineVars
  <2> HIDE DEF d, TypeOK
  <2>4. \A c \in Conns : authCounter[c] <= authCounter'[c]
    BY <2>1, <2>2
  <2> QED
    BY <2>3, <2>4
<1>2. ASSUME NEW o \in Operators, OperatorStep(o), ~Allocate(o)
      PROVE  authCounter' = authCounter /\ said' = said /\ strict' = strict
  BY <1>2 DEF OperatorStep, AskFor, Send, SendFails, Wake, Expire, GiveUp,
              OperatorLeaves, machineVars
<1>3. ASSUME MachineStep
      PROVE  authCounter' = authCounter /\ said \subseteq said' /\ strict' = strict
  BY <1>3 DEF MachineStep, Register, ReadRequest, HumanAnswers, Persist, Respond,
              Crash, relayVars
<1>4. ASSUME NEW c \in Conns, ConnStep(c)
      PROVE  authCounter' = authCounter /\ said' = said /\ strict' = strict
  BY <1>4 DEF ConnStep, ReadResponse, CloseClient, LoseLink, machineVars, relayVars
<1>5. ASSUME UNCHANGED vars
      PROVE  authCounter' = authCounter /\ said' = said /\ strict' = strict
  BY <1>5 DEF vars, relayVars, machineVars
<1> QED
  BY <1>1, <1>2, <1>3, <1>4, <1>5 DEF Next

\* A request stays that of whoever has it.
LEMMA RequestStays ==
    ASSUME TypeOK, TypeOK', [Next]_vars,
           NEW c \in Conns, NEW r \in Nat \X Keys, RequestOK(c, r)
    PROVE  RequestOK(c, r)'
<1>1. r[1] \in Nat /\ authCounter[c] \in Nat /\ authCounter'[c] \in Nat
  BY DEF TypeOK
<1>2. r[1] < authCounter'[c]
  BY <1>1, NothingIsForgotten DEF RequestOK
<1>3. ASSUME NEW o \in Operators, Active(o)', oconn'[o] = c, oid'[o] = r[1]
      PROVE  okey'[o] = r[2]
  BY <1>1, <1>3, RequestsAreFresh DEF RequestOK
<1> QED
  BY <1>2, <1>3 DEF RequestOK

\* What was approved stays approved.
LEMMA ApprovedStays ==
    ASSUME TypeOK, [Next]_vars, NEW c, NEW id, NEW k, Approved(c, id, k)
    PROVE  Approved(c, id, k)'
  BY NothingIsForgotten DEF Approved, Trusted

LEMMA AnswerStays ==
    ASSUME TypeOK, TypeOK', [Next]_vars,
           NEW c \in Conns, NEW a \in Nat \X BOOLEAN, AnswerOK(c, a)
    PROVE  AnswerOK(c, a)'
<1> SUFFICES ASSUME a[2]
             PROVE  \E k \in Keys : RequestOK(c, <<a[1], k>>)' /\ Approved(c, a[1], k)'
  BY DEF AnswerOK
<1>1. PICK k \in Keys : RequestOK(c, <<a[1], k>>) /\ Approved(c, a[1], k)
  BY DEF AnswerOK
<1>2. <<a[1], k>> \in Nat \X Keys
  OBVIOUS
<1> QED
  BY <1>1, <1>2, RequestStays, ApprovedStays

-----------------------------------------------------------------------------
\* A request on the way was on the way before, or is being sent.
LEMMA RequestsOnTheWay ==
    ASSUME TypeOK, MachineIsConnected, [Next]_vars,
           NEW c \in Conns, NEW i \in 1..Len(toMachine'[c])
    PROVE  \/ \E j \in 1..Len(toMachine[c]) : toMachine'[c][i] = toMachine[c][j]
           \/ \E o \in Operators : /\ Send(o) /\ oconn[o] = c
                                   /\ toMachine'[c][i] = <<oid[o], okey[o]>>
<1> DEFINE q == toMachine[c]
           Old == \E j \in 1..Len(q) : toMachine'[c][i] = q[j]
<1>1. q \in Seq(Nat \X Keys)
  BY DEF TypeOK
<1>2. ASSUME NEW o \in Operators, Send(o), toMachine' # toMachine
      PROVE  \/ Old
             \/ /\ Send(o) /\ oconn[o] = c
                /\ toMachine'[c][i] = <<oid[o], okey[o]>>
  <2> DEFINE m == <<oid[o], okey[o]>>
  <2>1. /\ oconn[o] \in Conns /\ m \in Nat \X Keys
        /\ toMachine \in [Conns -> Seq(Nat \X Keys)]
    BY DEF TypeOK
  <2>2. toMachine' = [toMachine EXCEPT ![oconn[o]] = Append(toMachine[oconn[o]], m)]
    BY <1>2 DEF Send
  <2>3. CASE oconn[o] # c
    BY <2>1, <2>2, <2>3
  <2>4. CASE oconn[o] = c
    <3>1. toMachine'[c] = Append(q, m)
      BY <2>1, <2>2, <2>4
    <3>2. i \in 1..Len(Append(q, m))
      BY <3>1
    <3>3. Append(q, m)[i] = m \/ (i \in 1..Len(q) /\ Append(q, m)[i] = q[i])
      BY <1>1, <2>1, <3>2, AppendHolds
    <3> QED
      BY <1>2, <2>4, <3>1, <3>3
  <2> QED
    BY <2>3, <2>4
<1>3. ASSUME ReadRequest
      PROVE  Old
  <2>1. /\ mconn \in Conns /\ toMachine[mconn] # <<>>
        /\ toMachine' = [toMachine EXCEPT ![mconn] = Tail(toMachine[mconn])]
    BY <1>3 DEF ReadRequest, TypeOK
  <2>2. CASE mconn # c
    BY <2>1, <2>2 DEF TypeOK
  <2>3. CASE mconn = c
    <3>1. toMachine'[c] = Tail(q) /\ q # <<>>
      BY <2>1, <2>3 DEF TypeOK
    <3> QED
      BY <1>1, <3>1, TailHolds
  <2> QED
    BY <2>2, <2>3
<1>4. ASSUME Crash
      PROVE  Old
  <2>1. mconn \in Conns /\ toMachine' = [toMachine EXCEPT ![mconn] = <<>>]
    BY <1>4 DEF Crash, TypeOK
  <2>2. CASE mconn # c
    BY <2>1, <2>2 DEF TypeOK
  <2>3. CASE mconn = c
    BY <2>1, <2>3 DEF TypeOK
  <2> QED
    BY <2>2, <2>3
<1>5. CASE toMachine' = toMachine
  BY <1>5
<1>6. ASSUME toMachine' # toMachine
      PROVE  (\E o \in Operators : Send(o)) \/ ReadRequest \/ Crash
  BY <1>6
  DEF Next, OperatorStep, MachineStep, ConnStep, AskFor, Allocate, SendFails, Wake,
      Expire, GiveUp, OperatorLeaves, Register, HumanAnswers, Persist, Respond,
      ReadResponse, CloseClient, LoseLink, vars, netVars
<1> QED
  BY <1>2, <1>3, <1>4, <1>5, <1>6

\* An answer on the way was on the way before, or is being sent.
LEMMA AnswersOnTheWay ==
    ASSUME TypeOK, MachineIsConnected, [Next]_vars,
           NEW c \in Conns, NEW i \in 1..Len(toRelay'[c])
    PROVE  \/ \E j \in 1..Len(toRelay[c]) : toRelay'[c][i] = toRelay[c][j]
           \/ Respond /\ mconn = c /\ toRelay'[c][i] = <<mreq[1], mok>>
<1> DEFINE q == toRelay[c]
           Old == \E j \in 1..Len(q) : toRelay'[c][i] = q[j]
<1>1. q \in Seq(Nat \X BOOLEAN)
  BY DEF TypeOK
<1>2. ASSUME Respond, toRelay' # toRelay
      PROVE  Old \/ (mconn = c /\ toRelay'[c][i] = <<mreq[1], mok>>)
  <2> DEFINE m == <<mreq[1], mok>>
  <2>1. /\ mconn \in Conns /\ m \in Nat \X BOOLEAN
        /\ toRelay \in [Conns -> Seq(Nat \X BOOLEAN)]
    BY <1>2 DEF TypeOK, MachineIsConnected, Respond
  <2>2. toRelay' = [toRelay EXCEPT ![mconn] = Append(toRelay[mconn], m)]
    BY <1>2 DEF Respond
  <2>3. CASE mconn # c
    BY <2>1, <2>2, <2>3
  <2>4. CASE mconn = c
    <3>1. toRelay'[c] = Append(q, m)
      BY <2>1, <2>2, <2>4
    <3>2. i \in 1..Len(Append(q, m))
      BY <3>1
    <3>3. Append(q, m)[i] = m \/ (i \in 1..Len(q) /\ Append(q, m)[i] = q[i])
      BY <1>1, <2>1, <3>2, AppendHolds
    <3> QED
      BY <2>4, <3>1, <3>3
  <2> QED
    BY <2>3, <2>4
<1>3. ASSUME NEW d \in Conns, ReadResponse(d)
      PROVE  Old
  <2>1. toRelay[d] # <<>> /\ toRelay' = [toRelay EXCEPT ![d] = Tail(toRelay[d])]
    BY <1>3 DEF ReadResponse
  <2>2. CASE d # c
    BY <2>1, <2>2 DEF TypeOK
  <2>3. CASE d = c
    <3>1. toRelay'[c] = Tail(q) /\ q # <<>>
      BY <2>1, <2>3 DEF TypeOK
    <3> QED
      BY <1>1, <3>1, TailHolds
  <2> QED
    BY <2>2, <2>3
<1>4. CASE toRelay' = toRelay
  BY <1>4
<1>5. ASSUME toRelay' # toRelay
      PROVE  Respond \/ \E d \in Conns : ReadResponse(d)
  BY <1>5
  DEF Next, OperatorStep, MachineStep, ConnStep, AskFor, Allocate, Send, SendFails,
      Wake, Expire, GiveUp, OperatorLeaves, Register, ReadRequest, HumanAnswers,
      Persist, Crash, CloseClient, LoseLink, vars, netVars
<1> QED
  BY <1>2, <1>3, <1>4, <1>5

-----------------------------------------------------------------------------
\* A request that is sent carries its operator's id and key, and no other
\* operator has that id.
LEMMA NextRequestsOK ==
    ASSUME IInv, TypeOK', [Next]_vars
    PROVE  RequestsOK'
<1> SUFFICES ASSUME NEW c \in Conns, NEW i \in 1..Len(toMachine'[c]),
                    NEW r, r = toMachine'[c][i]
             PROVE  RequestOK(c, r)'
  BY DEF RequestsOK, InQueue
<1> USE DEF IInv
<1>1. ASSUME NEW j \in 1..Len(toMachine[c]), r = toMachine[c][j]
      PROVE  r \in Nat \X Keys /\ RequestOK(c, r)
  <2>1. toMachine[c] \in Seq(Nat \X Keys)
    BY DEF TypeOK
  <2>2. r \in InQueue(toMachine[c])
    BY <1>1 DEF InQueue
  <2> QED
    BY <1>1, <2>1, <2>2 DEF RequestsOK
<1>2. ASSUME NEW o \in Operators, Send(o), oconn[o] = c, r = <<oid[o], okey[o]>>
      PROVE  r \in Nat \X Keys /\ RequestOK(c, r)
  <2>1. Active(o)
    BY <1>2 DEF Send, Active
  <2>2. r[1] = oid[o] /\ r[2] = okey[o] /\ oid[o] < authCounter[c]
    BY <1>2, <2>1 DEF OperatorsOK
  <2>3. ASSUME NEW p \in Operators, Active(p), oconn[p] = c, oid[p] = r[1]
        PROVE  okey[p] = r[2]
    BY <1>2, <2>1, <2>2, <2>3 DEF DifferentRequests
  <2>4. r \in Nat \X Keys
    BY <1>2 DEF TypeOK
  <2> QED
    BY <2>2, <2>3, <2>4 DEF RequestOK
<1>3. r \in Nat \X Keys /\ RequestOK(c, r)
  BY <1>1, <1>2, RequestsOnTheWay
<1> QED
  BY <1>3, RequestStays

\* The machine answers yes to a request it has read only when that request is
\* approved; while it works on one it keeps it.
LEMMA NextMachineOK ==
    ASSUME IInv, TypeOK', [Next]_vars
    PROVE  MachineOK'
<1> USE DEF IInv
<1>1. ASSUME ReadRequest
      PROVE  MachineOK'
  <2>1. mconn \in Conns /\ mreq' = Head(toMachine[mconn]) /\ mconn' = mconn
    BY <1>1 DEF ReadRequest, TypeOK
  <2>2. mreq' \in Nat \X Keys /\ RequestOK(mconn, mreq')
    BY <1>1, <2>1, HeadHolds DEF ReadRequest, TypeOK, RequestsOK, InQueue
  <2>3. \A r : r = mreq' => r \in Nat \X Keys /\ RequestOK(mconn, r)'
    <3> SUFFICES ASSUME NEW r, r = mreq'
                 PROVE  r \in Nat \X Keys
                        /\ \A d \in Conns : d = mconn => RequestOK(d, r)'
      BY <2>1 DEF RequestOK, Active
    <3> QED
      BY <2>2, RequestStays
  <2>4. RequestOK(mconn, mreq)'
    BY <2>1, <2>3 DEF RequestOK, Active
  <2>5. mpc' \in {"prompting", "responding"} /\ (mok' <=> Approve(mreq'[2]) = "yes")
    BY <1>1, <2>1 DEF ReadRequest
  <2>6. mok' => Approved(mconn, mreq'[1], mreq'[2])
    BY <2>5 DEF Approve, Approved, OnlyTrustPersists
  <2>7. mok' => Approved(mconn, mreq[1], mreq[2])'
    BY <1>1, <2>1, <2>6 DEF ReadRequest, Approved, Trusted
  <2> QED
    BY <2>4, <2>5, <2>7 DEF MachineOK
<1>2. ASSUME NEW a \in Answers, HumanAnswers(a)
      PROVE  MachineOK'
  <2>1. /\ mconn \in Conns /\ mpc = "prompting" /\ mreq \in Nat \X Keys
        /\ mconn' = mconn /\ mreq' = mreq /\ strict' = strict
        /\ <<mconn, mreq[1], mreq[2], a>> \in said'
        /\ mok' = (a # "reject") /\ mpc' = AfterPrompt(a)
    BY <1>2 DEF HumanAnswers, MachineIsConnected, TypeOK
  <2>2. RequestOK(mconn, mreq)'
    BY <1>2, <2>1 DEF HumanAnswers, MachineOK, RequestOK, Active, relayVars
  <2>3. ~strict
    BY <2>1 DEF StrictNeverPrompts
  <2>4. a = "trust" => Trusted(mreq[2])'
    BY <2>1 DEF Trusted
  <2>5. a = "once" => <<mconn, mreq[1], mreq[2], "once">> \in said'
    BY <2>1
  <2>6. mok' => Approved(mconn, mreq[1], mreq[2])'
    BY <2>1, <2>3, <2>4, <2>5 DEF Approved, Answers
  <2>7. mpc' = "persisting" => Trusted(mreq[2])'
    BY <2>1, <2>4 DEF AfterPrompt
  <2> QED
    BY <2>2, <2>6, <2>7 DEF MachineOK
<1>3. ASSUME Persist
      PROVE  MachineOK'
  BY <1>3 DEF Persist, MachineOK, RequestOK, Active, Approved, Trusted, relayVars
<1>4. ASSUME Respond \/ Crash \/ (\E c \in Conns : Register(c))
      PROVE  MachineOK'
  BY <1>4 DEF Respond, Crash, Register, MachineOK
<1>5. ASSUME UNCHANGED machineVars
      PROVE  MachineOK'
  <2>1. mpc # "reading" => mconn \in Conns /\ mreq \in Nat \X Keys
                           /\ RequestOK(mconn, mreq)
    BY DEF MachineIsConnected, MachineOK, TypeOK
  <2>2. ASSUME NEW c \in Conns, NEW r \in Nat \X Keys, RequestOK(c, r)
        PROVE  RequestOK(c, r)'
    BY <2>2, RequestStays
  <2>3. mpc # "reading" => RequestOK(mconn, mreq)'
    BY <1>5, <2>1, <2>2 DEF RequestOK, Active, machineVars
  <2> QED
    BY <1>5, <2>3 DEF MachineOK, machineVars, Approved, Trusted
<1>6. \/ ReadRequest \/ (\E a \in Answers : HumanAnswers(a)) \/ Persist
      \/ Respond \/ Crash \/ (\E c \in Conns : Register(c))
      \/ UNCHANGED machineVars
  BY DEF Next, OperatorStep, MachineStep, ConnStep, AskFor, Allocate, Send,
         SendFails, Wake, Expire, GiveUp, OperatorLeaves, ReadResponse, CloseClient,
         LoseLink, vars
<1> QED
  BY <1>1, <1>2, <1>3, <1>4, <1>5, <1>6

\* A "yes" that is sent answers a request that is approved.
LEMMA NextAnswersOK ==
    ASSUME IInv, TypeOK', [Next]_vars
    PROVE  AnswersOK'
<1> SUFFICES ASSUME NEW c \in Conns, NEW i \in 1..Len(toRelay'[c]),
                    NEW a, a = toRelay'[c][i]
             PROVE  AnswerOK(c, a)'
  BY DEF AnswersOK, InQueue
<1> USE DEF IInv
<1>1. ASSUME NEW j \in 1..Len(toRelay[c]), a = toRelay[c][j]
      PROVE  a \in Nat \X BOOLEAN /\ AnswerOK(c, a)
  <2>1. toRelay[c] \in Seq(Nat \X BOOLEAN)
    BY DEF TypeOK
  <2>2. a \in InQueue(toRelay[c])
    BY <1>1 DEF InQueue
  <2> QED
    BY <1>1, <2>1, <2>2 DEF AnswersOK
<1>2. ASSUME Respond, mconn = c, a = <<mreq[1], mok>>
      PROVE  a \in Nat \X BOOLEAN /\ AnswerOK(c, a)
  <2>1. mreq \in Nat \X Keys /\ mok \in BOOLEAN /\ mreq = <<mreq[1], mreq[2]>>
    BY DEF TypeOK
  <2>2. RequestOK(c, <<mreq[1], mreq[2]>>) /\ (mok => Approved(c, mreq[1], mreq[2]))
    BY <1>2, <2>1 DEF Respond, MachineOK
  <2>3. a \in Nat \X BOOLEAN /\ a[1] = mreq[1] /\ a[2] = mok /\ mreq[2] \in Keys
    BY <1>2, <2>1
  <2> QED
    BY <2>2, <2>3 DEF AnswerOK
<1>3. a \in Nat \X BOOLEAN /\ AnswerOK(c, a)
  BY <1>1, <1>2, AnswersOnTheWay
<1> QED
  BY <1>3, AnswerStays

-----------------------------------------------------------------------------
\* Only a new request and an answer touch an event.
LEMMA EventSteps ==
    ASSUME [Next]_vars
    PROVE  \/ event' = event
           \/ \E c \in Conns : ReadResponse(c)
           \/ \E p \in Operators : Allocate(p)
  BY DEF Next, OperatorStep, MachineStep, ConnStep, AskFor, Send, SendFails, Wake,
         Expire, GiveUp, OperatorLeaves, Register, ReadRequest, HumanAnswers,
         Persist, Respond, Crash, CloseClient, LoseLink, vars, relayVars

\* The answer in an operator's event was made for its own request.
LEMMA NextOperatorsOK ==
    ASSUME IInv, TypeOK', [Next]_vars
    PROVE  OperatorsOK'
<1> USE DEF IInv
<1> SUFFICES ASSUME NEW o \in Operators
             PROVE  /\ Active(o)' => oid'[o] < authCounter'[oconn'[o]]
                    /\ Active(o)' /\ event'[o] = "yes" =>
                          Approved(oconn[o], oid[o], okey[o])'
                    /\ opc'[o] = "authed" => event'[o] = "yes"
  BY DEF OperatorsOK
<1>1. /\ oid[o] \in Nat /\ oconn[o] \in Conns /\ okey[o] \in Keys
      /\ \A c \in Conns : authCounter[c] \in Nat /\ authCounter'[c] \in Nat
  BY DEF TypeOK
<1>2. Active(o)' => oid'[o] < authCounter'[oconn'[o]]
  BY <1>1, RequestsAreFresh, NothingIsForgotten DEF OperatorsOK
<1>3. ASSUME event'[o] = "yes", event[o] # "yes"
      PROVE  Active(o) => Approved(oconn[o], oid[o], okey[o])
  <2>1. PICK c \in Conns : ReadResponse(c)
    <3>1. ASSUME NEW p \in Operators, Allocate(p)
          PROVE  FALSE
      <4>1. event' = [event EXCEPT ![p] = "unset"] /\ event \in [Operators -> {"unset", "yes", "no"}]
        BY <3>1 DEF Allocate, TypeOK
      <4> QED
        BY <1>3, <4>1
    <3>2. event' # event
      BY <1>3
    <3> QED
      BY <3>1, <3>2, EventSteps
  <2> DEFINE a == Head(toRelay[c])
  <2>2. a \in Nat \X BOOLEAN /\ a \in InQueue(toRelay[c])
    BY <2>1, HeadHolds DEF ReadResponse, TypeOK, InQueue
  <2>3. <<a[1], o>> \in pendingAuth[c] /\ a[2]
    BY <1>3, <2>1 DEF ReadResponse, Deliver, TypeOK
  <2>4. oconn[o] = c /\ oid[o] = a[1]
    BY <2>3 DEF PendingAreRequests
  <2>5. PICK k \in Keys : RequestOK(c, <<a[1], k>>) /\ Approved(c, a[1], k)
    BY <2>2, <2>3 DEF AnswersOK, AnswerOK
  <2>6. Active(o) => okey[o] = k
    BY <2>4, <2>5 DEF RequestOK
  <2> QED
    BY <2>4, <2>5, <2>6
<1>4. ASSUME Active(o), event'[o] = "yes"
      PROVE  Approved(oconn[o], oid[o], okey[o])
  BY <1>3, <1>4 DEF OperatorsOK
<1>5. ASSUME Active(o), NEW c, NEW id, NEW k, Approved(c, id, k)
      PROVE  Approved(c, id, k)'
  BY <1>5, ApprovedStays
<1>6. ASSUME Active(o)', event'[o] = "yes"
      PROVE  Approved(oconn[o], oid[o], okey[o])'
  <2>1. ~Allocate(o)
    BY <1>6 DEF Allocate, TypeOK
  <2>2. /\ Active(o)
        /\ okey'[o] = okey[o] /\ oconn'[o] = oconn[o] /\ oid'[o] = oid[o]
    BY <1>6, <2>1, RequestsAreFresh
  <2> QED
    BY <1>4, <1>5, <1>6, <2>2 DEF Approved, Trusted
<1>7. ASSUME opc'[o] = "authed"
      PROVE  event'[o] = "yes"
  <2>1. CASE opc[o] = "authed"
    <3>1. event[o] = "yes"
      BY <2>1 DEF OperatorsOK
    <3>2. ASSUME NEW c \in Conns, NEW n \in Nat
          PROVE  <<n, o>> \notin pendingAuth[c]
      BY <2>1 DEF PendingAreRequests
    <3>3. ASSUME NEW c \in Conns, ReadResponse(c)
          PROVE  event'[o] = event[o]
      <4>1. Head(toRelay[c])[1] \in Nat
        BY <3>3, HeadHolds DEF ReadResponse, TypeOK
      <4> QED
        BY <3>2, <3>3, <4>1 DEF ReadResponse, Deliver, TypeOK
    <3>4. CASE event' = event
      BY <3>1, <3>4
    <3>5. ASSUME NEW p \in Operators, Allocate(p)
          PROVE  event'[o] = event[o]
      BY <2>1, <3>5 DEF Allocate, TypeOK
    <3> QED
      BY <3>1, <3>3, <3>4, <3>5, EventSteps
  <2>2. CASE opc[o] # "authed"
    <3>1. opc' # opc
      BY <1>7, <2>2
    <3>2. PICK p \in Operators : OperatorStep(p)
      BY <3>1
      DEF Next, MachineStep, ConnStep, Register, ReadRequest, HumanAnswers,
          Persist, Respond, Crash, ReadResponse, CloseClient, LoseLink, vars,
          relayVars
    <3>3. p = o
      BY <1>7, <2>2, <3>2
      DEF OperatorStep, AskFor, Allocate, Send, SendFails, Wake, Expire, GiveUp,
          OperatorLeaves, TypeOK
    <3>4. Wake(o)
      BY <1>7, <2>2, <3>2, <3>3
      DEF OperatorStep, AskFor, Allocate, Send, SendFails, Expire, GiveUp,
          OperatorLeaves, TypeOK
    <3> QED
      BY <1>7, <3>4 DEF Wake, TypeOK
  <2> QED
    BY <2>1, <2>2
<1> QED
  BY <1>2, <1>6, <1>7

\* No two operators come to hold the same request.
LEMMA NextDifferentRequests ==
    ASSUME IInv, TypeOK', [Next]_vars
    PROVE  DifferentRequests'
<1> USE DEF IInv
<1> SUFFICES ASSUME NEW o \in Operators, NEW p \in Operators,
                    Active(o)', Active(p)', o # p
             PROVE  <<oconn'[o], oid'[o]>> # <<oconn'[p], oid'[p]>>
  BY DEF DifferentRequests
<1>1. \A c \in Conns : authCounter[c] \in Nat
  BY DEF TypeOK
<1>2. CASE Active(o) /\ UNCHANGED <<oconn[o], oid[o]>>
           /\ Active(p) /\ UNCHANGED <<oconn[p], oid[p]>>
  BY <1>2 DEF DifferentRequests
<1>3. CASE Allocate(o) /\ Allocate(p)
  BY <1>3 DEF Allocate, TypeOK
<1>4. CASE Active(o) /\ UNCHANGED <<oconn[o], oid[o]>>
           /\ oid'[p] = authCounter[oconn'[p]]
  BY <1>1, <1>4 DEF OperatorsOK, TypeOK
<1>5. CASE Active(p) /\ UNCHANGED <<oconn[p], oid[p]>>
           /\ oid'[o] = authCounter[oconn'[o]]
  BY <1>1, <1>5 DEF OperatorsOK, TypeOK
<1> QED
  BY <1>2, <1>3, <1>4, <1>5, RequestsAreFresh

\* An entry of pendingAuth is that of a thread that still has the request and
\* has no answer: waking up and giving up leave none behind.
LEMMA NextPendingAreRequests ==
    ASSUME IInv, TypeOK', [Next]_vars
    PROVE  PendingAreRequests'
<1> DEFINE Fine(c, e) == /\ opc'[e[2]] \in {"sending", "waiting", "expired", "ended"}
                         /\ oconn'[e[2]] = c /\ oid'[e[2]] = e[1]
                         /\ event'[e[2]] = "unset"
<1> USE DEF IInv
<1> SUFFICES ASSUME NEW c \in Conns, NEW e \in pendingAuth'[c]
             PROVE  Fine(c, e)
  BY DEF PendingAreRequests
<1>1. ASSUME e \in pendingAuth[c]
      PROVE  /\ e \in Nat \X Operators /\ e = <<e[1], e[2]>>
             /\ opc[e[2]] \in {"sending", "waiting", "expired", "ended"}
             /\ oconn[e[2]] = c /\ oid[e[2]] = e[1] /\ event[e[2]] = "unset"
  BY <1>1 DEF PendingAreRequests, TypeOK
<1>2. ASSUME NEW o \in Operators, NEW k \in Keys, AskFor(o, k)
      PROVE  Fine(c, e)
  BY <1>1, <1>2 DEF AskFor, TypeOK
<1>3. ASSUME NEW o \in Operators, Allocate(o)
      PROVE  Fine(c, e)
  <2>1. CASE e \in pendingAuth[c]
    BY <1>1, <1>3, <2>1 DEF Allocate, TypeOK
  <2>2. CASE e \notin pendingAuth[c]
    <3>1. c = oconn[o] /\ e = <<oid'[o], o>>
      BY <1>3, <2>2 DEF Allocate, TypeOK
    <3> QED
      BY <1>3, <3>1 DEF Allocate, TypeOK
  <2> QED
    BY <2>1, <2>2
<1>4. ASSUME NEW o \in Operators,
             Send(o) \/ SendFails(o) \/ Wake(o) \/ Expire(o) \/ OperatorLeaves(o)
      PROVE  Fine(c, e)
  <2>1. e \in pendingAuth[c]
    BY <1>4 DEF Send, SendFails, Wake, Expire, OperatorLeaves
  <2>2. oconn' = oconn /\ oid' = oid /\ event' = event
    BY <1>4 DEF Send, SendFails, Wake, Expire, OperatorLeaves
  <2>3. CASE e[2] = o
    <3>1. Send(o) \/ SendFails(o) \/ Expire(o)
      BY <1>1, <1>4, <2>1, <2>3 DEF Wake, OperatorLeaves
    <3>2. opc'[o] \in {"sending", "waiting", "expired", "ended"}
      BY <3>1 DEF Send, SendFails, Expire, TypeOK
    <3> QED
      BY <1>1, <2>1, <2>2, <2>3, <3>2
  <2>4. CASE e[2] # o
    <3>1. \A p \in Operators : p # o => opc'[p] = opc[p]
      BY <1>4 DEF Send, SendFails, Wake, Expire, OperatorLeaves, TypeOK
    <3>2. e[2] \in Operators
      BY <1>1, <2>1
    <3> QED
      BY <1>1, <2>1, <2>2, <2>4, <3>1, <3>2
  <2> QED
    BY <2>3, <2>4
<1>5. ASSUME NEW o \in Operators, GiveUp(o)
      PROVE  Fine(c, e)
  <2>1. e \in pendingAuth[c] /\ (oconn[o] = c => e[1] # oid[o])
    BY <1>5 DEF GiveUp, TypeOK
  <2>2. e[2] # o
    BY <1>1, <2>1
  <2> QED
    BY <1>1, <1>5, <2>1, <2>2 DEF GiveUp, TypeOK
<1>6. ASSUME NEW d \in Conns, ReadResponse(d)
      PROVE  Fine(c, e)
  <2> DEFINE id == Head(toRelay[d])[1]
  <2>1. e \in pendingAuth[c] /\ (d = c => e[1] # id)
    BY <1>6 DEF ReadResponse, Deliver, TypeOK
  <2>2. id \in Nat
    <3>1. toRelay[d] \in Seq(Nat \X BOOLEAN) /\ toRelay[d] # <<>>
      BY <1>6 DEF ReadResponse, TypeOK
    <3> QED
      BY <3>1, HeadHolds
  <2>3. <<id, e[2]>> \notin pendingAuth[d]
    BY <1>1, <2>1, <2>2 DEF PendingAreRequests
  <2>4. event'[e[2]] = event[e[2]]
    BY <1>1, <1>6, <2>1, <2>3 DEF ReadResponse, Deliver, TypeOK
  <2> QED
    BY <1>1, <1>6, <2>1, <2>4 DEF ReadResponse
<1>7. CASE UNCHANGED <<opc, oconn, oid, event, pendingAuth>>
  BY <1>1, <1>7
<1>8. \/ \E o \in Operators : OperatorStep(o)
      \/ \E d \in Conns : ReadResponse(d)
      \/ UNCHANGED <<opc, oconn, oid, event, pendingAuth>>
  BY DEF Next, MachineStep, ConnStep, Register, ReadRequest, HumanAnswers, Persist,
         Respond, Crash, CloseClient, LoseLink, vars, relayVars
<1> QED
  BY <1>2, <1>3, <1>4, <1>5, <1>6, <1>7, <1>8 DEF OperatorStep

\* Nobody takes out the entry of an operator that waits without setting its
\* event.
LEMMA NextWaitersAreReachable ==
    ASSUME IInv, TypeOK', [Next]_vars
    PROVE  WaitersAreReachable'
<1> DEFINE Fine(o) == <<oid'[o], o>> \in pendingAuth'[oconn'[o]] \/ event'[o] # "unset"
<1> USE DEF IInv
<1> SUFFICES ASSUME NEW o \in Operators, opc'[o] \in {"sending", "waiting"}
             PROVE  Fine(o)
  BY DEF WaitersAreReachable
<1>1. /\ oid[o] \in Nat /\ oconn[o] \in Conns
      /\ pendingAuth \in [Conns -> SUBSET (Nat \X Operators)]
  BY DEF TypeOK
<1>2. ASSUME opc[o] \in {"sending", "waiting"}
      PROVE  <<oid[o], o>> \in pendingAuth[oconn[o]] \/ event[o] # "unset"
  BY <1>2 DEF WaitersAreReachable
<1>3. ASSUME NEW p \in Operators, Allocate(p)
      PROVE  Fine(o)
  <2>1. CASE p = o
    BY <1>1, <1>3, <2>1 DEF Allocate, TypeOK
  <2>2. CASE p # o
    <3>1. /\ opc[o] \in {"sending", "waiting"} /\ oid'[o] = oid[o]
          /\ oconn'[o] = oconn[o] /\ event'[o] = event[o]
      BY <1>3, <2>2 DEF Allocate, TypeOK
    <3>2. oid[o] < authCounter[oconn[o]] /\ authCounter[oconn[o]] \in Nat
      BY <3>1 DEF OperatorsOK, Active, TypeOK
    <3>3. oconn[p] = oconn[o] => oid[o] # oid'[p]
      BY <1>1, <1>3, <3>2 DEF Allocate, TypeOK
    <3>4. <<oid[o], o>> \in pendingAuth[oconn[o]] =>
             <<oid[o], o>> \in pendingAuth'[oconn[o]]
      BY <1>1, <1>3, <3>3 DEF Allocate, TypeOK
    <3> QED
      BY <1>2, <3>1, <3>4
  <2> QED
    BY <2>1, <2>2
<1>4. ASSUME NEW p \in Operators, GiveUp(p)
      PROVE  Fine(o)
  <2>1. /\ p # o /\ opc[o] \in {"sending", "waiting"} /\ oid'[o] = oid[o]
        /\ oconn'[o] = oconn[o] /\ event'[o] = event[o]
    BY <1>4 DEF GiveUp, TypeOK
  <2>2. oconn[p] = oconn[o] => oid[o] # oid[p]
    BY <1>4, <2>1 DEF GiveUp, DifferentRequests, Active
  <2>3. <<oid[o], o>> \in pendingAuth[oconn[o]] =>
           <<oid[o], o>> \in pendingAuth'[oconn[o]]
    BY <1>1, <1>4, <2>2 DEF GiveUp, TypeOK
  <2> QED
    BY <1>2, <2>1, <2>3
<1>5. ASSUME NEW d \in Conns, ReadResponse(d)
      PROVE  Fine(o)
  <2> DEFINE id == Head(toRelay[d])[1]
  <2>1. /\ opc[o] \in {"sending", "waiting"} /\ oid'[o] = oid[o]
        /\ oconn'[o] = oconn[o]
    BY <1>5 DEF ReadResponse
  <2>2. CASE event[o] # "unset"
    BY <1>5, <2>2 DEF ReadResponse, Deliver
  <2>3. CASE event[o] = "unset" /\ d = oconn[o] /\ id = oid[o]
    BY <1>2, <1>5, <2>1, <2>3 DEF ReadResponse, Deliver
  <2>4. CASE event[o] = "unset" /\ ~(d = oconn[o] /\ id = oid[o])
    BY <1>1, <1>2, <1>5, <2>1, <2>4 DEF ReadResponse, Deliver
  <2> QED
    BY <2>2, <2>3, <2>4
<1>6. ASSUME NEW p \in Operators, NEW k \in Keys, AskFor(p, k)
      PROVE  Fine(o)
  BY <1>2, <1>6 DEF AskFor, TypeOK
<1>7. ASSUME NEW p \in Operators,
             Send(p) \/ SendFails(p) \/ Wake(p) \/ Expire(p) \/ OperatorLeaves(p)
      PROVE  Fine(o)
  BY <1>2, <1>7 DEF Send, SendFails, Wake, Expire, OperatorLeaves, TypeOK
<1>8. CASE UNCHANGED <<opc, oconn, oid, event, pendingAuth>>
  BY <1>2, <1>8
<1>9. \/ \E p \in Operators : OperatorStep(p)
      \/ \E d \in Conns : ReadResponse(d)
      \/ UNCHANGED <<opc, oconn, oid, event, pendingAuth>>
  BY DEF Next, MachineStep, ConnStep, Register, ReadRequest, HumanAnswers, Persist,
         Respond, Crash, CloseClient, LoseLink, vars, relayVars
<1> QED
  BY <1>3, <1>4, <1>5, <1>6, <1>7, <1>8, <1>9 DEF OperatorStep

\* Only a human who said "trust", without an allowlist, adds to the trust file.
LEMMA NextTrust ==
    ASSUME IInv, [Next]_vars
    PROVE  StrictNeverPrompts' /\ OnlyTrustPersists'
<1> USE DEF IInv
<1>1. ASSUME ReadRequest
      PROVE  StrictNeverPrompts' /\ OnlyTrustPersists'
  BY <1>1 DEF ReadRequest, Approve, StrictNeverPrompts, OnlyTrustPersists, Trusted
<1>2. ASSUME NEW a \in Answers, HumanAnswers(a)
      PROVE  StrictNeverPrompts' /\ OnlyTrustPersists'
  BY <1>2 DEF HumanAnswers, AfterPrompt, StrictNeverPrompts, OnlyTrustPersists,
              Trusted
<1>3. ASSUME Persist
      PROVE  StrictNeverPrompts' /\ OnlyTrustPersists'
  BY <1>3 DEF Persist, MachineOK, StrictNeverPrompts, OnlyTrustPersists, Trusted
<1>4. ASSUME Respond \/ Crash
      PROVE  StrictNeverPrompts' /\ OnlyTrustPersists'
  BY <1>4 DEF Respond, Crash, StrictNeverPrompts, OnlyTrustPersists, Trusted
<1>5. CASE UNCHANGED <<strict, mpc, known, said>>
  BY <1>5 DEF StrictNeverPrompts, OnlyTrustPersists, Trusted
<1>6. \/ ReadRequest \/ (\E a \in Answers : HumanAnswers(a)) \/ Persist
      \/ Respond \/ Crash \/ UNCHANGED <<strict, mpc, known, said>>
  BY DEF Next, OperatorStep, MachineStep, ConnStep, AskFor, Allocate, Send,
         SendFails, Wake, Expire, GiveUp, OperatorLeaves, Register, ReadResponse,
         CloseClient, LoseLink, vars, machineVars
<1> QED
  BY <1>1, <1>2, <1>3, <1>4, <1>5, <1>6

-----------------------------------------------------------------------------
\* Every step keeps the invariant.
LEMMA NextIInv == IInv /\ [Next]_vars => IInv'
<1> SUFFICES ASSUME IInv, [Next]_vars
             PROVE  IInv'
  OBVIOUS
<1>1. TypeOK' /\ MachineIsConnected'
  BY NextTypeOK DEF IInv
<1> QED
  BY <1>1, NextRequestsOK, NextMachineOK, NextAnswersOK, NextOperatorsOK,
     NextDifferentRequests, NextPendingAreRequests, NextWaitersAreReachable,
     NextTrust
  DEF IInv

\* The invariant holds throughout.
THEOREM Invariance == Spec => []IInv
  BY InitIInv, NextIInv, PTL DEF Spec

\* Every variable keeps its type (relay.py:128-163, client.py:100-143).
THEOREM TypeCorrect == Spec => []TypeOK
<1>1. IInv => TypeOK
  BY DEF IInv
<1> QED
  BY <1>1, Invariance, PTL

\* Whoever is let in was in the allowlist, was trusted, or had this very request
\* approved, whatever is late, lost, repeated or started again (relay.py:151-163,
\* 209-214; client.py:115-143, 173-178).
THEOREM AccessIsApproved == Spec => []AccessTracesToApproval
<1>1. IInv => AccessTracesToApproval
  BY DEF IInv, OperatorsOK, AccessTracesToApproval, Active
<1> QED
  BY <1>1, Invariance, PTL

\* Two operators that were let in hold different requests, so one "yes, once"
\* lets in one of them (relay.py:152-156).
THEOREM OneApprovalOneOperator == Spec => []ApprovalsNotShared
<1>1. IInv => ApprovalsNotShared
  BY DEF IInv, DifferentRequests, ApprovalsNotShared, Active
<1> QED
  BY <1>1, Invariance, PTL

\* An operator that waits has its entry in the table or its event set, whichever
\* other requests time out or are answered (relay.py:156, 158-162, 211-214).
THEOREM NoWaiterIsForgotten == Spec => []WaitersAreReachable
<1>1. IInv => WaitersAreReachable
  BY DEF IInv
<1> QED
  BY <1>1, Invariance, PTL

\* The trust file holds nobody the human did not trust, and an allowlist keeps
\* it and the human out (client.py:116-121, 130-138, 140-142).
THEOREM TrustIsTheHumans == Spec => [](OnlyTrustPersists /\ StrictNeverPrompts)
<1>1. IInv => OnlyTrustPersists /\ StrictNeverPrompts
  BY DEF IInv
<1> QED
  BY <1>1, Invariance, PTL

-----------------------------------------------------------------------------
(* Where a request is.  It is in one place at a time: with its operator's   *)
(* thread, which has not sent it; on the way to the machine, or with it;    *)
(* on the way back; or answered.                                            *)

\* the machine has not answered request id of connection c, and may
Asked(c, id) ==
    \/ \E i \in 1..Len(toMachine[c]) : toMachine[c][i][1] = id
    \/ mpc # "reading" /\ mconn = c /\ mreq[1] = id

\* its answer is on the way
Answered(c, id) == \E i \in 1..Len(toRelay[c]) : toRelay[c][i][1] = id

\* o has the answer
Heard(o) == Active(o) /\ event[o] # "unset"

\* the machine has answered yes, or is about to
YesComes(c, id) ==
    \/ \E i \in 1..Len(toRelay[c]) : toRelay[c][i] = <<id, TRUE>>
    \/ mpc = "responding" /\ mok /\ mconn = c /\ mreq[1] = id
    \/ \E o \in Operators : Active(o) /\ event[o] = "yes" /\ oconn[o] = c /\ oid[o] = id

SentOnce ==
    /\ \A c \in Conns : \A i, j \in 1..Len(toMachine[c]) :
         toMachine[c][i][1] = toMachine[c][j][1] => i = j
    /\ mpc # "reading" => \A i \in 1..Len(toMachine[mconn]) :
         toMachine[mconn][i][1] # mreq[1]

AnsweredIsDone == \A c \in Conns : \A i \in 1..Len(toRelay[c]) :
    toRelay[c][i][1] < authCounter[c] /\ ~Asked(c, toRelay[c][i][1])

HeardIsDone == \A o \in Operators : Heard(o) => ~Asked(oconn[o], oid[o])

UnsentIsNew == \A o \in Operators : opc[o] = "sending" =>
    /\ event[o] = "unset"
    /\ ~Asked(oconn[o], oid[o]) /\ ~Answered(oconn[o], oid[o])
    /\ \A r \in said : <<r[1], r[2]>> # <<oconn[o], oid[o]>>

\* what the human has spoken about is never asked again
SaidOnce == \A r \in said :
    /\ r[2] < authCounter[r[1]]
    /\ \A i \in 1..Len(toMachine[r[1]]) : toMachine[r[1]][i][1] # r[2]
    /\ mpc # "reading" /\ mconn = r[1] /\ mreq[1] = r[2] =>
         mpc # "prompting" /\ mreq[2] = r[3]

\* a trust is in the file before its answer is on the way
TrustIsInFile == \A r \in said :
    r[4] = "trust" /\ YesComes(r[1], r[2]) => r[3] \in known

PInv == SentOnce /\ AnsweredIsDone /\ HeardIsDone /\ UnsentIsNew /\ SaidOnce
        /\ TrustIsInFile

\* The machine handles the request it had, or reads the next one.
LEMMA MachineKeeps ==
    ASSUME [Next]_vars, mpc' # "reading"
    PROVE  \/ mpc # "reading" /\ mconn' = mconn /\ mreq' = mreq
           \/ ReadRequest /\ mconn' = mconn
  BY DEF Next, OperatorStep, MachineStep, ConnStep, AskFor, Allocate, Send, SendFails,
         Wake, Expire, GiveUp, OperatorLeaves, Register, ReadRequest, HumanAnswers,
         Persist, Respond, Crash, ReadResponse, CloseClient, LoseLink, vars,
         machineVars

\* What is asked was asked before, or is being sent.
LEMMA AskedSteps ==
    ASSUME IInv, [Next]_vars, NEW c \in Conns, NEW id, Asked(c, id)'
    PROVE  \/ Asked(c, id)
           \/ \E o \in Operators : Send(o) /\ oconn[o] = c /\ oid[o] = id
<1> DEFINE Goal == \/ Asked(c, id)
                   \/ \E o \in Operators : Send(o) /\ oconn[o] = c /\ oid[o] = id
<1> USE DEF IInv
<1>1. ASSUME NEW i \in 1..Len(toMachine'[c]), toMachine'[c][i][1] = id
      PROVE  Goal
  <2>1. ASSUME NEW j \in 1..Len(toMachine[c]), toMachine'[c][i] = toMachine[c][j]
        PROVE  Goal
    BY <1>1, <2>1 DEF Asked
  <2>2. ASSUME NEW o \in Operators, Send(o), oconn[o] = c,
               toMachine'[c][i] = <<oid[o], okey[o]>>
        PROVE  Goal
    BY <1>1, <2>2
  <2> QED
    BY <2>1, <2>2, RequestsOnTheWay
<1>2. ASSUME mpc' # "reading", mconn' = c, mreq'[1] = id
      PROVE  Goal
  <2>1. CASE mpc # "reading" /\ mconn' = mconn /\ mreq' = mreq
    BY <1>2, <2>1 DEF Asked
  <2>2. CASE ReadRequest /\ mconn' = mconn
    <3>1. toMachine[c] # <<>> /\ mreq' = Head(toMachine[c])
      BY <1>2, <2>2 DEF ReadRequest
    <3>2. 1 \in 1..Len(toMachine[c]) /\ Head(toMachine[c]) = toMachine[c][1]
      BY <3>1, HeadHolds DEF TypeOK
    <3> QED
      BY <1>2, <3>1, <3>2 DEF Asked
  <2> QED
    BY <1>2, <2>1, <2>2, MachineKeeps
<1> QED
  BY <1>1, <1>2 DEF Asked

\* What is asked is a request that was given out.
LEMMA AskedIsGiven ==
    ASSUME IInv, NEW c \in Conns, NEW id, Asked(c, id)
    PROVE  id \in Nat /\ id < authCounter[c]
<1> USE DEF IInv
<1>1. ASSUME NEW i \in 1..Len(toMachine[c]), toMachine[c][i][1] = id
      PROVE  id \in Nat /\ id < authCounter[c]
  <2>1. toMachine[c][i] \in Nat \X Keys
    BY DEF TypeOK
  <2>2. toMachine[c][i] \in InQueue(toMachine[c])
    BY DEF InQueue
  <2> QED
    BY <1>1, <2>1, <2>2 DEF RequestsOK, RequestOK
<1>2. ASSUME mpc # "reading", mconn = c, mreq[1] = id
      PROVE  id \in Nat /\ id < authCounter[c]
  BY <1>2 DEF MachineOK, RequestOK, TypeOK
<1> QED
  BY <1>1, <1>2 DEF Asked

\* What is answered was answered before, or the machine answers it.
LEMMA AnsweredSteps ==
    ASSUME IInv, [Next]_vars, NEW c \in Conns, NEW id, Answered(c, id)'
    PROVE  Answered(c, id) \/ (Respond /\ mconn = c /\ mreq[1] = id)
<1>1. PICK i \in 1..Len(toRelay'[c]) : toRelay'[c][i][1] = id
  BY DEF Answered
<1>2. CASE \E j \in 1..Len(toRelay[c]) : toRelay'[c][i] = toRelay[c][j]
  BY <1>1, <1>2 DEF Answered
<1>3. CASE Respond /\ mconn = c /\ toRelay'[c][i] = <<mreq[1], mok>>
  BY <1>1, <1>3
<1> QED
  BY <1>2, <1>3, AnswersOnTheWay DEF IInv

\* An operator that has an answer had it for this request, or the reader takes
\* it off the way.
LEMMA HeardSteps ==
    ASSUME IInv, [Next]_vars, NEW o \in Operators, Heard(o)'
    PROVE  /\ Active(o) /\ oconn'[o] = oconn[o] /\ oid'[o] = oid[o]
           /\ \/ event[o] # "unset" /\ event'[o] = event[o]
              \/ \E c \in Conns : \E i \in 1..Len(toRelay[c]) :
                   /\ ReadResponse(c) /\ c = oconn[o]
                   /\ toRelay[c][i][1] = oid[o]
                   /\ event'[o] = "yes" => toRelay[c][i] = <<oid[o], TRUE>>
<1> USE DEF IInv
<1>1. ~Allocate(o)
  BY DEF Allocate, Heard, TypeOK
<1>2. Active(o) /\ oconn'[o] = oconn[o] /\ oid'[o] = oid[o]
  BY <1>1, RequestsAreFresh DEF Heard
<1>3. ASSUME NEW c \in Conns, ReadResponse(c), event'[o] # event[o]
      PROVE  \E i \in 1..Len(toRelay[c]) :
                 /\ c = oconn[o]
                 /\ toRelay[c][i][1] = oid[o]
                 /\ event'[o] = "yes" => toRelay[c][i] = <<oid[o], TRUE>>
  <2> DEFINE a == Head(toRelay[c])
  <2>1. 1 \in 1..Len(toRelay[c]) /\ a = toRelay[c][1] /\ a \in Nat \X BOOLEAN
    BY <1>3, HeadHolds DEF ReadResponse, TypeOK
  <2>2. <<a[1], o>> \in pendingAuth[c] /\ event'[o] = IF a[2] THEN "yes" ELSE "no"
    BY <1>3 DEF ReadResponse, Deliver, TypeOK
  <2>3. oconn[o] = c /\ oid[o] = a[1]
    BY <2>2 DEF PendingAreRequests
  <2>4. event'[o] = "yes" => a = <<oid[o], TRUE>>
    <3>1. a = <<a[1], a[2]>> /\ a[2] \in BOOLEAN
      BY <2>1
    <3>2. event'[o] = "yes" => a[2] = TRUE
      BY <2>2, <3>1
    <3> QED
      BY <2>3, <3>1, <3>2
  <2> QED
    BY <2>1, <2>3, <2>4
<1>4. ASSUME NEW p \in Operators, Allocate(p)
      PROVE  event'[o] = event[o]
  BY <1>1, <1>4 DEF Allocate, TypeOK
<1>5. event'[o] = event[o] => event[o] # "unset"
  BY DEF Heard
<1> QED
  BY <1>2, <1>3, <1>4, <1>5, EventSteps

\* What the human has said was said before, or is being said.
LEMMA SaidSteps ==
    ASSUME [Next]_vars, NEW r \in said'
    PROVE  \/ r \in said
           \/ \E a \in Answers : HumanAnswers(a) /\ r = <<mconn, mreq[1], mreq[2], a>>
  BY DEF Next, OperatorStep, MachineStep, ConnStep, AskFor, Allocate, Send, SendFails,
         Wake, Expire, GiveUp, OperatorLeaves, Register, ReadRequest, HumanAnswers,
         Persist, Respond, Crash, ReadResponse, CloseClient, LoseLink, vars,
         machineVars

\* Two operators do not send the same request, and nobody sends one it has an
\* answer to.
LEMMA SentIsOwn ==
    ASSUME IInv, UnsentIsNew, NEW o \in Operators, NEW p \in Operators,
           Active(o), Send(p), oconn[p] = oconn[o], oid[p] = oid[o]
    PROVE  p = o /\ event[o] = "unset"
<1>1. Active(p) /\ opc[p] = "sending"
  BY DEF Send, Active
<1>2. p = o
  BY <1>1 DEF IInv, DifferentRequests
<1> QED
  BY <1>1, <1>2 DEF UnsentIsNew

-----------------------------------------------------------------------------
\* A request is sent once, and the machine reads it once.
LEMMA NextSentOnce ==
    ASSUME IInv, PInv, [Next]_vars
    PROVE  SentOnce'
<1> USE DEF IInv, PInv
<1>0. \A c \in Conns : toMachine[c] \in Seq(Nat \X Keys)
  BY DEF TypeOK
<1>1. ASSUME NEW o \in Operators, Send(o), toMachine' # toMachine
      PROVE  SentOnce'
  <2> DEFINE m == <<oid[o], okey[o]>>
             c == oconn[o]
  <2>1. c \in Conns /\ m \in Nat \X Keys /\ ~Asked(c, oid[o])
    BY <1>1 DEF Send, UnsentIsNew, TypeOK
  <2>2. /\ toMachine' = [toMachine EXCEPT ![c] = Append(toMachine[c], m)]
        /\ mpc' = mpc /\ mreq' = mreq /\ mconn' = mconn
    BY <1>1 DEF Send, machineVars
  <2>3. toMachine'[c] = Append(toMachine[c], m)
    BY <2>1, <2>2 DEF TypeOK
  <2>4. \A i \in 1..Len(toMachine[c]) : toMachine[c][i][1] # m[1]
    BY <2>1 DEF Asked
  <2>5. \A i, j \in 1..Len(toMachine'[c]) :
          toMachine'[c][i][1] = toMachine'[c][j][1] => i = j
    <3>1. \A i, j \in 1..Len(toMachine[c]) :
            toMachine[c][i][1] = toMachine[c][j][1] => i = j
      BY <2>1 DEF SentOnce
    <3>2. toMachine[c] \in Seq(Nat \X Keys)
      BY <1>0, <2>1
    <3> HIDE DEF m, c
    <3>3. \A i \in 1..Len(Append(toMachine[c], m)) :
            \/ i = Len(toMachine[c]) + 1 /\ Append(toMachine[c], m)[i] = m
            \/ i \in 1..Len(toMachine[c]) /\ Append(toMachine[c], m)[i] = toMachine[c][i]
      BY <2>1, <3>2
    <3> QED
      BY <2>3, <2>4, <3>1, <3>3
  <2>6. \A d \in Conns \ {c} : toMachine'[d] = toMachine[d]
    BY <2>2 DEF TypeOK
  <2>7. mpc # "reading" /\ mconn = c => mreq[1] # m[1]
    BY <2>1 DEF Asked
  <2>8. mpc # "reading" /\ mconn = c =>
          \A i \in 1..Len(toMachine'[c]) : toMachine'[c][i][1] # mreq[1]
    BY <1>0, <2>1, <2>3, <2>7 DEF SentOnce
  <2> QED
    BY <2>2, <2>5, <2>6, <2>8 DEF SentOnce, MachineIsConnected
<1>2. ASSUME ReadRequest
      PROVE  SentOnce'
  <2> DEFINE q == toMachine[mconn]
  <2>1. /\ mconn \in Conns /\ q # <<>> /\ q \in Seq(Nat \X Keys)
        /\ toMachine' = [toMachine EXCEPT ![mconn] = Tail(q)]
        /\ mreq' = Head(q) /\ mconn' = mconn
    BY <1>0, <1>2 DEF ReadRequest, TypeOK
  <2>2. toMachine'[mconn] = Tail(q) /\ \A d \in Conns \ {mconn} : toMachine'[d] = toMachine[d]
    BY <2>1 DEF TypeOK
  <2>3. \A i, j \in 1..Len(q) : q[i][1] = q[j][1] => i = j
    BY <2>1 DEF SentOnce
  <2>4. /\ \A i, j \in 1..Len(Tail(q)) : Tail(q)[i][1] = Tail(q)[j][1] => i = j
        /\ \A i \in 1..Len(Tail(q)) : Tail(q)[i][1] # Head(q)[1]
    BY <2>1, <2>3
  <2>5. \A d \in Conns : \A i, j \in 1..Len(toMachine'[d]) :
          toMachine'[d][i][1] = toMachine'[d][j][1] => i = j
    BY <2>1, <2>2, <2>4 DEF SentOnce
  <2>6. \A i \in 1..Len(toMachine'[mconn']) : toMachine'[mconn'][i][1] # mreq'[1]
    <3>1. toMachine'[mconn'] = Tail(q) /\ mreq' = Head(q)
      BY <2>1, <2>2
    <3> HIDE DEF q
    <3> QED
      BY <2>4, <3>1
  <2> QED
    BY <2>5, <2>6 DEF SentOnce
<1>3. ASSUME Crash
      PROVE  SentOnce'
  <2>1. /\ mconn \in Conns /\ mpc' = "reading"
        /\ toMachine' = [toMachine EXCEPT ![mconn] = <<>>]
    BY <1>3 DEF Crash, TypeOK
  <2>2. toMachine'[mconn] = <<>> /\ \A d \in Conns \ {mconn} : toMachine'[d] = toMachine[d]
    BY <2>1 DEF TypeOK
  <2> QED
    BY <2>1, <2>2 DEF SentOnce
<1>4. ASSUME toMachine' = toMachine
      PROVE  SentOnce'
  <2>1. ASSUME mpc' # "reading"
        PROVE  mpc # "reading" /\ mconn' = mconn /\ mreq' = mreq
    <3>1. ASSUME ReadRequest
          PROVE  FALSE
      BY <1>0, <1>4, <3>1 DEF ReadRequest, TypeOK
    <3> QED
      BY <2>1, <3>1, MachineKeeps
  <2> QED
    BY <1>4, <2>1 DEF SentOnce
<1>5. ASSUME toMachine' # toMachine
      PROVE  (\E o \in Operators : Send(o)) \/ ReadRequest \/ Crash
  BY <1>5
  DEF Next, OperatorStep, MachineStep, ConnStep, AskFor, Allocate, SendFails, Wake,
      Expire, GiveUp, OperatorLeaves, Register, HumanAnswers, Persist, Respond,
      ReadResponse, CloseClient, LoseLink, vars, netVars
<1> QED
  BY <1>1, <1>2, <1>3, <1>4, <1>5

\* The machine is done with a request when its answer is on the way.
LEMMA NextAnsweredIsDone ==
    ASSUME IInv, PInv, [Next]_vars
    PROVE  AnsweredIsDone'
<1> USE DEF IInv, PInv
<1> SUFFICES ASSUME NEW c \in Conns, NEW id, Answered(c, id)'
             PROVE  id < authCounter'[c] /\ ~Asked(c, id)'
  BY DEF AnsweredIsDone, Answered
<1>1. ASSUME Answered(c, id)
      PROVE  id \in Nat /\ id < authCounter[c] /\ ~Asked(c, id)
  <2>1. PICK i \in 1..Len(toRelay[c]) : toRelay[c][i][1] = id
    BY <1>1 DEF Answered
  <2> QED
    BY <2>1 DEF AnsweredIsDone, TypeOK
<1>2. ASSUME Respond, mconn = c, mreq[1] = id
      PROVE  id \in Nat /\ id < authCounter[c] /\ ~Asked(c, id)'
  <2>1. mpc' = "reading" /\ toMachine' = toMachine /\ Asked(c, id)
    BY <1>2 DEF Respond, Asked
  <2>2. \A i \in 1..Len(toMachine[c]) : toMachine[c][i][1] # id
    BY <1>2 DEF SentOnce, Respond
  <2> QED
    BY <2>1, <2>2, AskedIsGiven DEF Asked
<1>3. ASSUME Answered(c, id), Asked(c, id)'
      PROVE  FALSE
  BY <1>1, <1>3, AskedSteps DEF Send, UnsentIsNew
<1>4. authCounter[c] \in Nat /\ authCounter'[c] >= authCounter[c] /\ authCounter'[c] \in Nat
  BY NextTypeOK, NothingIsForgotten DEF TypeOK
<1> QED
  BY <1>1, <1>2, <1>3, <1>4, AnsweredSteps

\* ... and so it is when its operator has the answer.
LEMMA NextHeardIsDone ==
    ASSUME IInv, PInv, [Next]_vars
    PROVE  HeardIsDone'
<1> USE DEF IInv, PInv
<1> SUFFICES ASSUME NEW o \in Operators, Heard(o)',
                    NEW d, d = oconn'[o], NEW id, id = oid'[o], Asked(d, id)'
             PROVE  FALSE
  BY DEF HeardIsDone, Asked
<1>1. d = oconn[o] /\ id = oid[o] /\ d \in Conns /\ Active(o)
  BY HeardSteps DEF TypeOK
<1>2. CASE event[o] # "unset"
  <2>1. ~Asked(d, id)
    BY <1>1, <1>2 DEF HeardIsDone, Heard
  <2>2. PICK p \in Operators : Send(p) /\ oconn[p] = oconn[o] /\ oid[p] = oid[o]
    BY <1>1, <2>1, AskedSteps
  <2> QED
    BY <1>1, <1>2, <2>2, SentIsOwn
<1>3. ASSUME NEW c \in Conns, NEW i \in 1..Len(toRelay[c]), ReadResponse(c),
             c = oconn[o], toRelay[c][i][1] = oid[o]
      PROVE  FALSE
  <2>1. ~Asked(d, id)
    BY <1>1, <1>3 DEF AnsweredIsDone
  <2>2. toMachine' = toMachine /\ mpc' = mpc /\ mconn' = mconn /\ mreq' = mreq
    BY <1>3 DEF ReadResponse, machineVars
  <2> QED
    BY <1>3, <2>1, <2>2 DEF Asked
<1> QED
  BY <1>2, <1>3, HeardSteps

\* A request that is yet to be sent is nowhere.
LEMMA NextUnsentIsNew ==
    ASSUME IInv, PInv, [Next]_vars
    PROVE  UnsentIsNew'
<1> USE DEF IInv, PInv
<1> SUFFICES ASSUME NEW o \in Operators, opc'[o] = "sending",
                    NEW c, c = oconn'[o], NEW id, id = oid'[o]
             PROVE  /\ event'[o] = "unset"
                    /\ ~Asked(c, id)' /\ ~Answered(c, id)'
                    /\ \A r \in said' : <<r[1], r[2]>> # <<c, id>>
  BY DEF UnsentIsNew, Asked, Answered
<1>1. CASE Allocate(o)
  <2>1. /\ c \in Conns /\ id \in Nat /\ id = authCounter[c]
        /\ event'[o] = "unset" /\ toMachine' = toMachine /\ toRelay' = toRelay
        /\ mpc' = mpc /\ mconn' = mconn /\ mreq' = mreq /\ said' = said
    BY <1>1 DEF Allocate, TypeOK, machineVars, netVars
  <2>2. ~Asked(c, id)
    BY <2>1, AskedIsGiven
  <2>3. ~Answered(c, id)
    BY <2>1 DEF Answered, AnsweredIsDone
  <2>4. \A r \in said : <<r[1], r[2]>> # <<c, id>>
    BY <2>1 DEF SaidOnce
  <2>5. ~Asked(c, id)' /\ ~Answered(c, id)'
    BY <2>1, <2>2, <2>3 DEF Asked, Answered
  <2> QED
    BY <2>1, <2>4, <2>5
<1>2. CASE ~Allocate(o)
  <2>1. opc[o] = "sending"
    <3>1. CASE opc' = opc
      BY <3>1
    <3>2. ASSUME NEW p \in Operators, OperatorStep(p)
          PROVE  opc[o] = "sending"
      <4>1. opc' = [opc EXCEPT ![p] = opc'[p]]
        BY <3>2
        DEF OperatorStep, AskFor, Allocate, Send, SendFails, Wake, Expire, GiveUp,
            OperatorLeaves, TypeOK
      <4>2. opc'[p] = "sending" => Allocate(p)
        BY <3>2
        DEF OperatorStep, AskFor, Allocate, Send, SendFails, Wake, Expire, GiveUp,
            OperatorLeaves, TypeOK
      <4> QED
        BY <1>2, <4>1, <4>2 DEF TypeOK
    <3>3. (\E p \in Operators : OperatorStep(p)) \/ opc' = opc
      BY DEF Next, MachineStep, ConnStep, Register, ReadRequest, HumanAnswers, Persist,
             Respond, Crash, ReadResponse, CloseClient, LoseLink, vars, relayVars
    <3> QED
      BY <3>1, <3>2, <3>3
  <2>2. Active(o) /\ Active(o)' /\ oconn[o] \in Conns
    BY <2>1 DEF Active, TypeOK
  <2>3. c = oconn[o] /\ id = oid[o]
    BY <1>2, <2>2, RequestsAreFresh
  <2>4. /\ event[o] = "unset" /\ ~Asked(c, id)
        /\ ~Answered(c, id)
        /\ \A r \in said : <<r[1], r[2]>> # <<c, id>>
    BY <2>1, <2>3 DEF UnsentIsNew
  <2>5. ASSUME event'[o] # "unset"
        PROVE  FALSE
    <3>1. Heard(o)'
      BY <2>2, <2>5 DEF Heard
    <3>2. PICK d \in Conns : \E i \in 1..Len(toRelay[d]) :
            d = oconn[o] /\ toRelay[d][i][1] = oid[o]
      BY <2>4, <2>5, <3>1, HeardSteps
    <3> QED
      BY <2>3, <2>4, <3>2 DEF Answered
  <2>6. ASSUME Asked(c, id)'
        PROVE  FALSE
    <3>1. PICK p \in Operators : Send(p) /\ oconn[p] = c /\ oid[p] = id
      BY <2>2, <2>3, <2>4, <2>6, AskedSteps
    <3>2. p = o
      BY <2>2, <2>3, <3>1, SentIsOwn
    <3> QED
      BY <3>1, <3>2 DEF Send, TypeOK
  <2>7. ASSUME Answered(c, id)'
        PROVE  FALSE
    BY <2>2, <2>3, <2>4, <2>7, AnsweredSteps DEF Respond, Asked
  <2>8. ASSUME NEW r \in said', <<r[1], r[2]>> = <<c, id>>
        PROVE  FALSE
    <3>1. PICK a \in Answers : HumanAnswers(a) /\ r = <<mconn, mreq[1], mreq[2], a>>
      BY <2>4, <2>8, SaidSteps
    <3>2. Asked(c, id)
      BY <2>8, <3>1 DEF HumanAnswers, Asked
    <3> QED
      BY <2>4, <3>2
  <2> QED
    BY <2>3, <2>5, <2>6, <2>7, <2>8
<1> QED
  BY <1>1, <1>2

\* What the human has spoken about is not asked again.
LEMMA NextSaidOnce ==
    ASSUME IInv, PInv, [Next]_vars
    PROVE  SaidOnce'
<1> USE DEF IInv, PInv
<1> SUFFICES ASSUME NEW r \in said', NEW c, c = r[1], NEW id, id = r[2]
             PROVE  /\ id < authCounter'[c]
                    /\ \A i \in 1..Len(toMachine'[c]) : toMachine'[c][i][1] # id
                    /\ mpc' # "reading" /\ mconn' = c /\ mreq'[1] = id =>
                         mpc' # "prompting" /\ mreq'[2] = r[3]
  BY DEF SaidOnce
<1>1. r \in Conns \X Nat \X Keys \X Answers /\ c \in Conns /\ id \in Nat
  BY NextTypeOK DEF TypeOK
<1>2. authCounter[c] \in Nat /\ authCounter'[c] >= authCounter[c] /\ authCounter'[c] \in Nat
  BY <1>1, NextTypeOK, NothingIsForgotten DEF TypeOK
<1>3. CASE r \in said
  <2>1. /\ id < authCounter[c]
        /\ \A i \in 1..Len(toMachine[c]) : toMachine[c][i][1] # id
        /\ mpc # "reading" /\ mconn = c /\ mreq[1] = id =>
             mpc # "prompting" /\ mreq[2] = r[3]
    BY <1>3 DEF SaidOnce
  <2>2. ASSUME NEW i \in 1..Len(toMachine'[c]), toMachine'[c][i][1] = id
        PROVE  FALSE
    <3>1. \A j \in 1..Len(toMachine[c]) : toMachine'[c][i] # toMachine[c][j]
      BY <2>1, <2>2
    <3>2. PICK o \in Operators :
            Send(o) /\ oconn[o] = c /\ toMachine'[c][i] = <<oid[o], okey[o]>>
      BY <1>1, <3>1, RequestsOnTheWay
    <3>3. <<r[1], r[2]>> = <<oconn[o], oid[o]>> /\ opc[o] = "sending"
      BY <2>2, <3>2 DEF Send
    <3> QED
      BY <1>3, <3>3 DEF UnsentIsNew
  <2>3. ASSUME mpc' # "reading", mconn' = c, mreq'[1] = id
        PROVE  mpc' # "prompting" /\ mreq'[2] = r[3]
    <3>1. CASE ReadRequest /\ mconn' = mconn
      <4>1. toMachine[c] # <<>> /\ mreq' = Head(toMachine[c])
        BY <2>3, <3>1 DEF ReadRequest
      <4>2. 1 \in 1..Len(toMachine[c]) /\ Head(toMachine[c]) = toMachine[c][1]
        BY <1>1, <4>1, HeadHolds DEF TypeOK
      <4> QED
        BY <2>1, <2>3, <4>1, <4>2
    <3>2. CASE ~ReadRequest /\ mpc # "reading" /\ mconn' = mconn /\ mreq' = mreq
      <4>1. mpc' # "prompting" \/ mpc = "prompting"
        BY <3>2
        DEF Next, OperatorStep, MachineStep, ConnStep, AskFor, Allocate, Send,
            SendFails, Wake, Expire, GiveUp, OperatorLeaves, Register, HumanAnswers,
            AfterPrompt, Persist, Respond, Crash, ReadResponse, CloseClient, LoseLink,
            vars, machineVars
      <4> QED
        BY <2>1, <2>3, <3>2, <4>1
    <3> QED
      BY <2>3, <3>1, <3>2, MachineKeeps
  <2> QED
    BY <1>1, <1>2, <2>1, <2>2, <2>3
<1>4. ASSUME NEW a \in Answers, HumanAnswers(a), r = <<mconn, mreq[1], mreq[2], a>>
      PROVE  /\ id < authCounter'[c]
             /\ \A i \in 1..Len(toMachine'[c]) : toMachine'[c][i][1] # id
             /\ mpc' # "prompting" /\ mreq'[2] = r[3]
  <2>1. /\ mpc = "prompting" /\ mconn = c /\ mreq[1] = id /\ mreq[2] = r[3]
        /\ toMachine' = toMachine /\ mreq' = mreq /\ mpc' # "prompting"
    BY <1>4 DEF HumanAnswers, AfterPrompt, netVars
  <2>2. Asked(c, id)
    BY <2>1 DEF Asked
  <2>3. id < authCounter[c]
    BY <1>1, <2>2, AskedIsGiven
  <2>4. \A i \in 1..Len(toMachine[c]) : toMachine[c][i][1] # id
    BY <2>1 DEF SentOnce
  <2> QED
    BY <1>1, <1>2, <2>1, <2>3, <2>4
<1> QED
  BY <1>3, <1>4, SaidSteps

\* The file only grows, and while the machine has a request to persist nothing
\* but the request's key comes into it.
LEMMA KnownSteps ==
    ASSUME [Next]_vars
    PROVE  known \subseteq known' /\ (Persist => mreq[2] \in known')
  BY DEF Next, OperatorStep, MachineStep, ConnStep, AskFor, Allocate, Send, SendFails,
         Wake, Expire, GiveUp, OperatorLeaves, Register, ReadRequest, HumanAnswers,
         Persist, Respond, Crash, ReadResponse, CloseClient, LoseLink, vars,
         machineVars

\* The machine is about to answer yes if it was, or because it has read a request
\* that needs no prompt, or the human has spoken, or the trust is in the file.
LEMMA RespondingSteps ==
    ASSUME [Next]_vars, mpc' = "responding", mok'
    PROVE  \/ mpc = "responding" /\ mok /\ mconn' = mconn /\ mreq' = mreq
           \/ ReadRequest /\ mconn' = mconn
           \/ mpc = "prompting" /\ mconn' = mconn /\ mreq' = mreq /\ known' = known
                /\ \E a \in Answers \ {"trust"} : HumanAnswers(a)
           \/ Persist /\ mpc = "persisting" /\ mconn' = mconn /\ mreq' = mreq
<1>1. CASE UNCHANGED machineVars
  BY <1>1 DEF machineVars
<1>2. ASSUME NEW a \in Answers, HumanAnswers(a)
      PROVE  a # "trust" /\ mpc = "prompting" /\ UNCHANGED <<mconn, mreq, known>>
  BY <1>2 DEF HumanAnswers, AfterPrompt
<1>3. CASE MachineStep /\ ~\E a \in Answers : HumanAnswers(a)
  BY <1>3 DEF MachineStep, Register, ReadRequest, Persist, Respond, Crash
<1>4. MachineStep \/ UNCHANGED machineVars
  BY DEF Next, OperatorStep, ConnStep, AskFor, Allocate, Send, SendFails, Wake, Expire,
         GiveUp, OperatorLeaves, ReadResponse, CloseClient, LoseLink, vars
<1> QED
  BY <1>1, <1>2, <1>3, <1>4

\* A yes that comes to a request the human has spoken about came before, or the
\* human has said once, or its key has been persisted.
LEMMA YesSteps ==
    ASSUME IInv, PInv, [Next]_vars, NEW r \in said, NEW c, c = r[1], NEW id, id = r[2],
           YesComes(c, id)'
    PROVE  YesComes(c, id) \/ r[3] \in known'
<1> USE DEF IInv, PInv
<1>1. c \in Conns /\ id \in Nat
  BY DEF TypeOK
<1>2. ASSUME NEW i \in 1..Len(toRelay'[c]), toRelay'[c][i] = <<id, TRUE>>
      PROVE  YesComes(c, id)
  <2>1. ASSUME NEW j \in 1..Len(toRelay[c]), toRelay'[c][i] = toRelay[c][j]
        PROVE  YesComes(c, id)
    BY <1>2, <2>1 DEF YesComes
  <2>2. ASSUME Respond, mconn = c, toRelay'[c][i] = <<mreq[1], mok>>
        PROVE  YesComes(c, id)
    <3> DEFINE a == <<mreq[1], mok>>
    <3>1. a[1] = id /\ a[2] = TRUE
      <4>1. a = <<id, TRUE>>
        BY <1>2, <2>2
      <4> QED
        BY <4>1
    <3>2. mreq[1] = id /\ mok
      BY <3>1
    <3> QED
      BY <2>2, <3>2 DEF YesComes, Respond
  <2> QED
    BY <1>1, <2>1, <2>2, AnswersOnTheWay
<1>3. ASSUME mpc' = "responding", mok', mconn' = c, mreq'[1] = id
      PROVE  YesComes(c, id) \/ r[3] \in known'
  <2>1. CASE mpc = "responding" /\ mok /\ mconn' = mconn /\ mreq' = mreq
    BY <1>3, <2>1 DEF YesComes
  <2>2. ASSUME ReadRequest, mconn' = mconn
        PROVE  FALSE
    <3>1. toMachine[c] # <<>> /\ mreq' = Head(toMachine[c])
      BY <1>3, <2>2 DEF ReadRequest
    <3>2. 1 \in 1..Len(toMachine[c]) /\ Head(toMachine[c]) = toMachine[c][1]
      BY <1>1, <3>1, HeadHolds DEF TypeOK
    <3> QED
      BY <1>3, <3>1, <3>2 DEF SaidOnce
  <2>3. ASSUME mpc = "prompting", mconn' = mconn, mreq' = mreq
        PROVE  FALSE
    BY <1>3, <2>3 DEF SaidOnce
  <2>4. ASSUME Persist, mpc = "persisting", mconn' = mconn, mreq' = mreq
        PROVE  r[3] \in known'
    BY <1>3, <2>4, KnownSteps DEF SaidOnce
  <2> QED
    BY <1>3, <2>1, <2>2, <2>3, <2>4, RespondingSteps
<1>4. ASSUME NEW o \in Operators, Active(o)', event'[o] = "yes", oconn'[o] = c,
             oid'[o] = id
      PROVE  YesComes(c, id)
  <2>1. Heard(o)'
    BY <1>4 DEF Heard
  <2>2. Active(o) /\ oconn[o] = c /\ oid[o] = id
    BY <1>4, <2>1, HeardSteps
  <2>3. CASE event[o] = "yes"
    BY <2>2, <2>3 DEF YesComes
  <2>4. CASE event[o] # "yes"
    <3>1. PICK d \in Conns : \E i \in 1..Len(toRelay[d]) :
            d = oconn[o] /\ toRelay[d][i] = <<oid[o], TRUE>>
      BY <1>4, <2>1, <2>4, HeardSteps
    <3> QED
      BY <2>2, <3>1 DEF YesComes
  <2> QED
    BY <2>3, <2>4
<1> QED
  BY <1>2, <1>3, <1>4 DEF YesComes

\* When the human says "trust", no answer to that request is on the way or has
\* been heard.
LEMMA TrustIsFirst ==
    ASSUME IInv, PInv, [Next]_vars, HumanAnswers("trust")
    PROVE  \A c, id : c = mconn /\ id = mreq[1] => ~YesComes(c, id)'
<1> USE DEF IInv, PInv
<1> SUFFICES ASSUME NEW c, NEW id, c = mconn, id = mreq[1], YesComes(c, id)'
             PROVE  FALSE
  OBVIOUS
<1>1. /\ Asked(c, id) /\ mpc' = "persisting" /\ toRelay' = toRelay /\ event' = event
      /\ opc' = opc /\ oconn' = oconn /\ oid' = oid /\ c \in Conns
  BY DEF HumanAnswers, AfterPrompt, Asked, netVars, relayVars, MachineIsConnected
<1>2. ASSUME NEW i \in 1..Len(toRelay[c]), toRelay[c][i] = <<id, TRUE>>
      PROVE  FALSE
  BY <1>1, <1>2 DEF AnsweredIsDone
<1>3. ASSUME NEW o \in Operators, Active(o), event[o] = "yes", oconn[o] = c, oid[o] = id
      PROVE  FALSE
  BY <1>1, <1>3 DEF HeardIsDone, Heard
<1> QED
  BY <1>1, <1>2, <1>3 DEF YesComes, Active

\* A trust is in the file before the relay can hear of it.
LEMMA NextTrustIsInFile ==
    ASSUME IInv, PInv, [Next]_vars
    PROVE  TrustIsInFile'
<1> SUFFICES ASSUME NEW r \in said', r[4] = "trust", NEW c, c = r[1], NEW id, id = r[2],
                    YesComes(c, id)'
             PROVE  r[3] \in known'
  BY DEF TrustIsInFile, YesComes
<1>1. CASE r \in said
  <2>1. YesComes(c, id) \/ r[3] \in known'
    BY <1>1, YesSteps
  <2> QED
    BY <1>1, <2>1, KnownSteps DEF PInv, TrustIsInFile
<1>2. ASSUME NEW a \in Answers, HumanAnswers(a), r = <<mconn, mreq[1], mreq[2], a>>
      PROVE  FALSE
  BY <1>2, TrustIsFirst
<1> QED
  BY <1>1, <1>2, SaidSteps

\* A request is in one place at a time, throughout.
LEMMA PlacesInvariant == Spec => [](IInv /\ PInv)
<1>1. Init => PInv
  <2> SUFFICES ASSUME Init
               PROVE  PInv
    OBVIOUS
  <2>1. SentOnce /\ AnsweredIsDone
    BY DEF Init, SentOnce, AnsweredIsDone
  <2>2. HeardIsDone /\ UnsentIsNew /\ SaidOnce /\ TrustIsInFile
    BY DEF Init, HeardIsDone, UnsentIsNew, SaidOnce, TrustIsInFile, Heard
  <2> QED
    BY <2>1, <2>2 DEF PInv
<1>2. IInv /\ PInv /\ [Next]_vars => PInv'
  BY NextSentOnce, NextAnsweredIsDone, NextHeardIsDone, NextUnsentIsNew, NextSaidOnce,
     NextTrustIsInFile DEF PInv
<1> QED
  BY <1>1, <1>2, InitIInv, NextIInv, PTL DEF Spec

\* An operator that was let in because the human said "trust" has its key in
\* known_operators by then, so a crash afterwards does not ask again, whatever is
\* late, lost or started again (client.py:176-178).
THEOREM TrustIsOnFile == Spec => []TrustIsPersistedFirst
<1>1. IInv /\ PInv => TrustIsPersistedFirst
  <2> SUFFICES ASSUME IInv, PInv, NEW o \in Operators, opc[o] = "authed",
                      <<oconn[o], oid[o], okey[o], "trust">> \in said
               PROVE  okey[o] \in known
    BY DEF TrustIsPersistedFirst
  <2>1. Active(o) /\ event[o] = "yes"
    BY DEF IInv, OperatorsOK, Active
  <2>2. YesComes(oconn[o], oid[o])
    BY <2>1 DEF YesComes
  <2> QED
    BY <2>2 DEF PInv, TrustIsInFile
<1> QED
  BY <1>1, PlacesInvariant, PTL
================================================================================
