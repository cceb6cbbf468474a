--------------------------- MODULE TcpForwardProofs ---------------------------
(***************************************************************************)
(* Proofs about remote forwarding, for any listeners, keys and streams.    *)
(*                                                                         *)
(* A late connection stays out because its listener is closed for good and *)
(* naming the port stops its thread.  That data is relayed only over       *)
(* confirmed channels needs what an answer says of the operator's view.    *)
(* That listeners end with their connection needs that one that listens is *)
(* in the table or was displaced from it, which only port 0 allows.        *)
(***************************************************************************)
EXTENDS TcpForward, TLAPS

\* a stream has nothing of its own until it is accepted
StreamsKnown ==
    \A s \in Streams :
        /\ tcp[s] = "none" => hpc[s] = "none"
        /\ hpc[s] = "none" => s \notin table /\ s \notin late
        /\ hpc[s] # "none" => from[s] \in Listeners
        /\ hpc[s] \in {"none", "creating", "naming", "opening"} => opView[s] = "none"

\* a late connection stops at the name of its listener's port
LateKnown ==
    \A s \in late :
        /\ hpc[s] \in {"creating", "naming", "ended"}
        /\ lstate[from[s]] = "closed"
        /\ opView[s] = "none"

\* an answer is what the operator gave
AnswersKnown ==
    /\ \A s \in Streams :
         /\ result[s] = "ok" => bound[s] /\ opView[s] \in {"open", "closed"}
         /\ hpc[s] \in Relaying => result[s] = "ok"
    /\ spc = "close_reply" => scur \in Streams /\ opView[scur] \in {"open", "closed"}

\* another listener was enabled under the key of l
Displaced(l) ==
    /\ lkey[l] \in AnyPort
    /\ \E m \in Listeners \ {l} : lkey[m] = lkey[l] /\ lstate[m] # "new"

\* a listener that listens is in the table, or was displaced
ListenersKnown ==
    \A l \in Listeners : lstate[l] = "listening" =>
        Displaced(l) \/ (forwards[lkey[l]] = l /\ spc # "ended")

\* an opening that has no answer yet can be found, and the operator gave none
OpeningsKnown ==
    \A s \in Streams :
        hpc[s] \in {"naming", "opening", "waiting"} /\ result[s] = "unset" =>
            s \in table /\ opView[s] \in {"none", "asked"}

IInv ==
    /\ TypeOK
    /\ StreamsKnown
    /\ LateKnown
    /\ AnswersKnown
    /\ OpeningsKnown
    /\ ListenersKnown

-----------------------------------------------------------------------------
\* The initial state satisfies the inductive invariant.
LEMMA InitIInv == Init => IInv
<1> SUFFICES ASSUME Init PROVE IInv
  OBVIOUS
<1> USE DEF Init
<1>1. TypeOK
  BY MaxDataAssumption DEF TypeOK, SPlaces, HPlaces
<1>2. StreamsKnown /\ LateKnown /\ ListenersKnown
  BY DEF StreamsKnown, LateKnown, ListenersKnown
<1>3. AnswersKnown
  BY DEF AnswersKnown, Relaying
<1>4. OpeningsKnown
  BY DEF OpeningsKnown
<1> QED
  BY <1>1, <1>2, <1>3, <1>4 DEF IInv

-----------------------------------------------------------------------------
\* The kinds of steps: of the SSH thread, of listeners, of streams.
SshStep ==
    \/ \E k \in Keys : Cancel(k)
    \/ \E s \in Streams : Confirm(s) \/ Refuse(s) \/ OperatorData(s) \/ OperatorCloses(s)
    \/ OperatorLeaves \/ EnableRaises \/ SshGoesOn

ListenerStep ==
    \E l \in Listeners :
        \/ Enable(l) \/ AcceptFails(l) \/ CheckAlive(l)
        \/ \E s \in Streams : Accept(l, s)

StreamStep == \E s \in Streams : RecvData(s) \/ HandlerGoesOn(s) \/ PeerEnds(s)

LEMMA StepsAre == Next => SshStep \/ ListenerStep \/ StreamStep
  BY DEF Next, SshStep, ListenerStep, StreamStep

\* A stream's thread goes to a place there is.
LEMMA GoesKeepsType ==
    ASSUME hpc \in [Streams -> HPlaces], NEW s \in Streams, NEW p \in HPlaces, Goes(s, p)
    PROVE  hpc' \in [Streams -> HPlaces]
  BY DEF Goes

\* A write leaves the operator's view of a channel, or closes it.
LEMMA WritesKeepTypes ==
    ASSUME TypeOK, NEW s \in Streams, NEW msg \in {"data", "eof", "close"}, Written(s, msg)
    PROVE  /\ opView' \in [Streams -> {"none", "asked", "open", "refused", "closed"}]
           /\ strays' \subseteq {"data", "eof", "close"}
           /\ opClosed' = opClosed
  BY DEF Written, TypeOK

\* TypeOK, by groups of variables
Views == {"none", "asked", "open", "refused", "closed"}
SshOK == here \in BOOLEAN /\ spc \in SPlaces /\ scur \in Streams \cup {NoStream}
ListenersOK ==
    /\ forwards \in [Keys -> Listeners \cup {NoListener}] /\ lkey \in [Listeners -> Keys]
    /\ lstate \in [Listeners -> {"new", "listening", "closed"}]
    /\ lpc \in [Listeners -> {"none", "accepting", "checking", "ended"}]
    /\ late \subseteq Streams
StreamsOK ==
    /\ tcp \in [Streams -> {"none", "open", "finished", "reset", "closed"}]
    /\ from \in [Streams -> Listeners \cup {NoListener}]
    /\ hpc \in [Streams -> HPlaces] /\ got \in [Streams -> 0..MaxData]
ChannelsOK ==
    /\ table \subseteq Streams /\ result \in [Streams -> {"unset", "ok", "failed"}]
    /\ bound \in [Streams -> BOOLEAN] /\ closed \in [Streams -> BOOLEAN]
OperatorOK ==
    /\ opView \in [Streams -> Views] /\ opClosed \in [Streams -> BOOLEAN]
    /\ strays \subseteq {"data", "eof", "close"}

LEMMA TypesAre ==
    ASSUME SshOK', ListenersOK', StreamsOK', ChannelsOK', OperatorOK'
    PROVE  TypeOK'
  BY DEF TypeOK, SshOK, ListenersOK, StreamsOK, ChannelsOK, OperatorOK, Views

\* A group that is left alone keeps its types.
LEMMA GroupsStay ==
    ASSUME TypeOK
    PROVE  /\ SshOK /\ ListenersOK /\ StreamsOK /\ ChannelsOK /\ OperatorOK
           /\ UNCHANGED sshVars => SshOK'
           /\ UNCHANGED listenerVars => ListenersOK'
           /\ UNCHANGED streamVars => StreamsOK'
           /\ UNCHANGED channelVars => ChannelsOK'
           /\ UNCHANGED operatorVars => OperatorOK'
<1>1. SshOK /\ ListenersOK /\ StreamsOK /\ ChannelsOK /\ OperatorOK
  BY DEF TypeOK, SshOK, ListenersOK, StreamsOK, ChannelsOK, OperatorOK, Views
<1>2. UNCHANGED sshVars => SshOK'
  BY <1>1 DEF SshOK, sshVars
<1>3. UNCHANGED listenerVars => ListenersOK'
  BY <1>1 DEF ListenersOK, listenerVars
<1>4. UNCHANGED streamVars => StreamsOK'
  BY <1>1 DEF StreamsOK, streamVars
<1>5. UNCHANGED channelVars => ChannelsOK'
  BY <1>1 DEF ChannelsOK, channelVars
<1>6. UNCHANGED operatorVars => OperatorOK'
  BY <1>1 DEF OperatorOK, operatorVars
<1> QED
  BY <1>1, <1>2, <1>3, <1>4, <1>5, <1>6

\* The SSH thread keeps the types.
LEMMA SshKeepsTypes ==
    ASSUME TypeOK, AnswersKnown, SshStep
    PROVE  TypeOK'
<1>g. SshOK /\ ListenersOK /\ StreamsOK /\ ChannelsOK /\ OperatorOK
  BY GroupsStay
<1>1. ASSUME NEW k \in Keys, Cancel(k) PROVE TypeOK'
  <2>1. ListenersOK'
    BY <1>g, <1>1 DEF Cancel, ListenersOK
  <2> QED
    BY <1>1, <2>1, GroupsStay, TypesAre DEF Cancel
<1>2. ASSUME NEW s \in Streams, Confirm(s) \/ Refuse(s) PROVE TypeOK'
  <2>1. ChannelsOK'
    BY <1>g, <1>2 DEF Confirm, Refuse, ChannelsOK
  <2>2. OperatorOK'
    BY <1>g, <1>2 DEF Confirm, Refuse, OperatorOK, Views
  <2> QED
    BY <1>2, <2>1, <2>2, GroupsStay, TypesAre DEF Confirm, Refuse
<1>3. CASE OperatorLeaves \/ EnableRaises \/ LoopEnds \/ \E s \in Streams : OperatorData(s)
  <2>1. SshOK'
    BY <1>g, <1>3 DEF OperatorLeaves, EnableRaises, LoopEnds, OperatorData, SshOK, SPlaces
  <2> QED
    BY <1>3, <2>1, GroupsStay, TypesAre DEF OperatorLeaves, EnableRaises, LoopEnds, OperatorData
<1>4. ASSUME NEW s \in Streams, OperatorCloses(s) PROVE TypeOK'
  <2>1. SshOK' /\ OperatorOK'
    BY <1>g, <1>4 DEF OperatorCloses, SshOK, SPlaces, OperatorOK
  <2>2. StreamsOK' /\ ChannelsOK'
    BY <1>g, <1>4 DEF OperatorCloses, StreamsOK, ChannelsOK
  <2> QED
    BY <1>4, <2>1, <2>2, GroupsStay, TypesAre DEF OperatorCloses
<1>5. CASE Finish
  <2>1. SshOK' /\ ListenersOK'
    BY <1>g, <1>5 DEF Finish, SshOK, SPlaces, ListenersOK
  <2> QED
    BY <1>5, <2>1, GroupsStay, TypesAre DEF Finish
<1>6. CASE CloseReply
  <2>1. scur \in Streams
    BY <1>6 DEF CloseReply, AnswersKnown
  <2>2. CASE Written(scur, "close")
    <3>1. OperatorOK'
      BY <1>g, <2>1, <2>2, WritesKeepTypes DEF OperatorOK, Views
    <3>2. SshOK'
      BY <1>g, <1>6 DEF CloseReply, SshOK, SPlaces
    <3> QED
      BY <1>6, <3>1, <3>2, GroupsStay, TypesAre DEF CloseReply
  <2>3. CASE UNCHANGED operatorVars
    <3>1. SshOK'
      BY <1>g, <1>6 DEF CloseReply, SshOK, SPlaces
    <3> QED
      BY <1>6, <2>3, <3>1, GroupsStay, TypesAre DEF CloseReply
  <2> QED
    BY <1>6, <2>2, <2>3 DEF CloseReply
<1> QED
  BY <1>1, <1>2, <1>3, <1>4, <1>5, <1>6 DEF SshStep, SshGoesOn

\* So do listeners.
LEMMA ListenerKeepsTypes ==
    ASSUME TypeOK, ListenerStep
    PROVE  TypeOK'
<1>g. SshOK /\ ListenersOK /\ StreamsOK /\ ChannelsOK /\ OperatorOK
  BY GroupsStay
<1>1. ASSUME NEW l \in Listeners, Enable(l) \/ AcceptFails(l) \/ CheckAlive(l)
      PROVE  TypeOK'
  <2>1. ListenersOK'
    BY <1>g, <1>1 DEF Enable, AcceptFails, CheckAlive, ListenersOK
  <2> QED
    BY <1>1, <2>1, GroupsStay, TypesAre DEF Enable, AcceptFails, CheckAlive
<1>2. ASSUME NEW l \in Listeners, NEW s \in Streams, Accept(l, s) PROVE TypeOK'
  <2>1. ListenersOK'
    BY <1>g, <1>2 DEF Accept, ListenersOK
  <2>2. StreamsOK'
    BY <1>g, <1>2 DEF Accept, StreamsOK, HPlaces, Opening
  <2> QED
    BY <1>2, <2>1, <2>2, GroupsStay, TypesAre DEF Accept
<1> QED
  BY <1>1, <1>2 DEF ListenerStep

\* ... and streams.
LEMMA StreamKeepsTypes ==
    ASSUME TypeOK, StreamStep
    PROVE  TypeOK'
<1>g. SshOK /\ ListenersOK /\ StreamsOK /\ ChannelsOK /\ OperatorOK
  BY GroupsStay
<1>0. {"naming", "opening", "waiting", "reading", "reserving", "sending", "eof", "closing", "close",
       "dropping", "ended"} \subseteq HPlaces
  BY DEF HPlaces, Opening, Relaying
<1>1. ASSUME NEW s \in Streams,
             Create(s) \/ Name(s) \/ Open(s) \/ Answered(s) \/ Expires(s) \/ Drop(s)
             \/ RecvData(s) \/ RecvEnds(s) \/ ReserveWindow(s) \/ SendData(s) \/ SendEof(s) \/ Unroute(s) \/ SendClose(s)
      PROVE  hpc' \in [Streams -> HPlaces]
  BY <1>g, <1>0, <1>1, GoesKeepsType DEF StreamsOK, Create, Name, Open, Answered, Expires, Drop,
     RecvData, RecvEnds, ReserveWindow, SendData, SendEof, Unroute, SendClose, LastWrite
<1>2. ASSUME NEW s \in Streams, Create(s) \/ Drop(s) \/ Unroute(s) PROVE TypeOK'
  <2>1. StreamsOK'
    BY <1>g, <1>1, <1>2 DEF Create, Drop, Unroute, StreamsOK
  <2>2. ChannelsOK'
    BY <1>g, <1>2 DEF Create, Drop, Unroute, ChannelsOK
  <2> QED
    BY <1>2, <2>1, <2>2, GroupsStay, TypesAre DEF Create, Drop, Unroute
<1>3. ASSUME NEW s \in Streams, Name(s) \/ Answered(s) \/ Expires(s) \/ RecvEnds(s) PROVE TypeOK'
  <2>1. StreamsOK'
    BY <1>g, <1>1, <1>3 DEF Name, Answered, Expires, RecvEnds, StreamsOK
  <2> QED
    BY <1>3, <2>1, GroupsStay, TypesAre DEF Name, Answered, Expires, RecvEnds
<1>4. ASSUME NEW s \in Streams, Open(s) PROVE TypeOK'
  <2>1. StreamsOK'
    BY <1>g, <1>1, <1>4 DEF Open, StreamsOK
  <2>2. OperatorOK'
    BY <1>g, <1>4 DEF Open, OperatorOK, Views
  <2> QED
    BY <1>4, <2>1, <2>2, GroupsStay, TypesAre DEF Open
<1>5. ASSUME NEW s \in Streams, ReserveWindow(s) \/ SendData(s) \/ SendEof(s) \/ SendClose(s) PROVE TypeOK'
  <2>1. StreamsOK'
    BY <1>g, <1>1, <1>5 DEF ReserveWindow, SendData, SendEof, SendClose, LastWrite, StreamsOK
  <2>2. OperatorOK'
    <3>1. CASE UNCHANGED operatorVars
      BY <3>1, GroupsStay
    <3>2. ASSUME NEW msg \in {"data", "eof", "close"}, Written(s, msg) PROVE OperatorOK'
      BY <1>g, <3>2, WritesKeepTypes DEF OperatorOK, Views
    <3> QED
      BY <1>5, <3>1, <3>2 DEF ReserveWindow, SendData, SendEof, SendClose, LastWrite
  <2> QED
    BY <1>5, <2>1, <2>2, GroupsStay, TypesAre DEF ReserveWindow, SendData, SendEof, SendClose, LastWrite
<1>6. ASSUME NEW s \in Streams, RecvData(s) PROVE TypeOK'
  <2>1. got' \in [Streams -> 0..MaxData]
    BY <1>g, <1>6, MaxDataAssumption DEF RecvData, StreamsOK
  <2>2. StreamsOK'
    BY <1>g, <1>1, <1>6, <2>1 DEF RecvData, StreamsOK
  <2> QED
    BY <1>6, <2>2, GroupsStay, TypesAre DEF RecvData
<1>7. ASSUME NEW s \in Streams, PeerEnds(s) PROVE TypeOK'
  <2>1. StreamsOK'
    BY <1>g, <1>7 DEF PeerEnds, StreamsOK
  <2> QED
    BY <1>7, <2>1, GroupsStay, TypesAre DEF PeerEnds
<1> QED
  BY <1>2, <1>3, <1>4, <1>5, <1>6, <1>7 DEF StreamStep, HandlerGoesOn

\* Every step keeps the types.
LEMMA NextTypeOK ==
    ASSUME TypeOK, AnswersKnown, [Next]_vars
    PROVE  TypeOK'
<1>1. CASE UNCHANGED vars
  BY <1>1, GroupsStay, TypesAre DEF vars
<1> QED
  BY <1>1, SshKeepsTypes, ListenerKeepsTypes, StreamKeepsTypes, StepsAre

-----------------------------------------------------------------------------
\* what is known of streams
Known == StreamsKnown /\ LateKnown /\ AnswersKnown

\* A write for a channel the operator has, or had, open leaves what is known.
LEMMA WritesKeepViews ==
    ASSUME TypeOK, NEW s \in Streams, NEW msg \in {"data", "eof", "close"},
           Written(s, msg) \/ UNCHANGED operatorVars,
           opView[s] \in {"open", "closed"}
    PROVE  /\ opView'[s] \in {"open", "closed"}
           /\ \A t \in Streams \ {s} : opView'[t] = opView[t]
  BY DEF TypeOK, Written, operatorVars

\* The steps of the SSH thread keep what is known.
LEMMA SshKeepsKnown ==
    ASSUME TypeOK, Known, SshStep
    PROVE  Known'
<1> USE DEF TypeOK, Known, StreamsKnown, LateKnown, AnswersKnown, sshVars, listenerVars,
        streamVars, channelVars, operatorVars
<1>1. ASSUME NEW k \in Keys, Cancel(k) PROVE Known'
  <2>1. \A l \in Listeners : lstate[l] = "closed" => lstate'[l] = "closed"
    BY <1>1 DEF Cancel
  <2>2. UNCHANGED <<sshVars, lkey, lpc, late, streamVars, channelVars, operatorVars>>
    BY <1>1 DEF Cancel
  <2> QED
    BY <2>1, <2>2
<1>2. ASSUME NEW s \in Streams, Confirm(s) PROVE Known'
  BY <1>2 DEF Confirm
<1>3. ASSUME NEW s \in Streams, Refuse(s) PROVE Known'
  BY <1>3 DEF Refuse
<1>4. ASSUME NEW s \in Streams, OperatorData(s) PROVE Known'
  BY <1>4 DEF OperatorData
<1>5. ASSUME NEW s \in Streams, OperatorCloses(s) PROVE Known'
  BY <1>5 DEF OperatorCloses, FromOperator
<1>6. CASE OperatorLeaves \/ EnableRaises \/ LoopEnds
  BY <1>6 DEF OperatorLeaves, EnableRaises, LoopEnds
<1>7. CASE Finish
  <2>1. \A l \in Listeners : lstate[l] = "closed" => lstate'[l] = "closed"
    BY <1>7 DEF Finish
  <2>2. /\ UNCHANGED <<late, streamVars, channelVars, operatorVars>>
        /\ spc' = "ended"
    BY <1>7 DEF Finish
  <2> QED
    BY <2>1, <2>2
<1>8. CASE CloseReply
  <2>0. scur \in Streams /\ opView[scur] \in {"open", "closed"}
    BY <1>8 DEF CloseReply
  <2>1. /\ scur \in Streams /\ opView'[scur] \in {"open", "closed"}
        /\ \A t \in Streams \ {scur} : opView'[t] = opView[t]
    BY <1>8, WritesKeepViews DEF CloseReply
  <2>2. spc' # "close_reply" /\ UNCHANGED <<listenerVars, streamVars, channelVars>>
    BY <1>8 DEF CloseReply
  <2>3. ASSUME NEW t \in Streams
        PROVE  \/ opView'[t] = opView[t]
               \/ opView[t] \in {"open", "closed"} /\ opView'[t] \in {"open", "closed"}
    <3>1. CASE t = scur
      BY <2>0, <2>1, <3>1
    <3>2. CASE t # scur
      BY <2>1, <3>2
    <3> QED
      BY <3>1, <3>2
  <2>4. StreamsKnown' /\ LateKnown'
    BY <2>2, <2>3
  <2>5. AnswersKnown'
    BY <2>2, <2>3
  <2> QED
    BY <2>4, <2>5
<1> QED
  BY <1>1, <1>2, <1>3, <1>4, <1>5, <1>6, <1>7, <1>8 DEF SshStep, SshGoesOn

\* So do those of listeners: what is accepted late has a listener that is closed.
LEMMA ListenerKeepsKnown ==
    ASSUME TypeOK, Known, ListenerStep
    PROVE  Known'
<1> USE DEF TypeOK, Known, StreamsKnown, LateKnown, AnswersKnown, sshVars,
        streamVars, channelVars, operatorVars
<1>1. ASSUME NEW l \in Listeners, Enable(l) PROVE Known'
  BY <1>1 DEF Enable
<1>2. ASSUME NEW l \in Listeners, AcceptFails(l) \/ CheckAlive(l) PROVE Known'
  BY <1>2 DEF AcceptFails, CheckAlive
<1>3. ASSUME NEW l \in Listeners, NEW s \in Streams, Accept(l, s) PROVE Known'
  <2>1. /\ s \notin late /\ s \notin table /\ hpc[s] = "none" /\ opView[s] = "none"
        /\ hpc'[s] = "creating" /\ from'[s] = l /\ tcp'[s] = "open"
    BY <1>3 DEF Accept
  <2>2. \A t \in Streams \ {s} : hpc'[t] = hpc[t] /\ from'[t] = from[t] /\ tcp'[t] = tcp[t]
    BY <1>3 DEF Accept
  <2>3. late' = late \/ (late' = late \cup {s} /\ lstate[l] = "closed")
    BY <1>3 DEF Accept
  <2>4. UNCHANGED <<sshVars, lstate, channelVars, operatorVars>>
    BY <1>3 DEF Accept
  <2>5. StreamsKnown'
    BY <2>1, <2>2, <2>3, <2>4
  <2>6. LateKnown'
    BY <2>1, <2>2, <2>3, <2>4
  <2>7. AnswersKnown'
    BY <2>1, <2>2, <2>4 DEF Relaying
  <2> QED
    BY <2>5, <2>6, <2>7
<1> QED
  BY <1>1, <1>2, <1>3 DEF ListenerStep

\* And those of streams, since naming the port of a closed listener raises.
LEMMA StreamKeepsKnown ==
    ASSUME TypeOK, Known, StreamStep
    PROVE  Known'
<1> USE DEF TypeOK, Known, StreamsKnown, LateKnown, AnswersKnown, sshVars, listenerVars,
        streamVars, channelVars, Goes
<1>1. ASSUME NEW s \in Streams, Create(s) \/ Drop(s) \/ PeerEnds(s) PROVE Known'
  BY <1>1 DEF Create, Drop, PeerEnds, Relaying, operatorVars
<1>2. ASSUME NEW s \in Streams, Name(s) PROVE Known'
  BY <1>2 DEF Name, Relaying, operatorVars
<1>3. ASSUME NEW s \in Streams, Open(s) PROVE Known'
  BY <1>3 DEF Open, Relaying
<1>4. ASSUME NEW s \in Streams, Answered(s) \/ Expires(s) \/ RecvData(s) \/ RecvEnds(s) \/ Unroute(s)
      PROVE  Known'
  BY <1>4 DEF Answered, Expires, RecvData, RecvEnds, Unroute, Relaying, operatorVars
<1>5. ASSUME NEW s \in Streams, ReserveWindow(s) \/ SendData(s) \/ SendEof(s) \/ SendClose(s) PROVE Known'
  <2>1. hpc[s] \in Relaying /\ result[s] = "ok"
    BY <1>5 DEF ReserveWindow, SendData, SendEof, SendClose, LastWrite, Relaying
  <2>2. /\ opView'[s] \in {"open", "closed"}
        /\ \A t \in Streams \ {s} : opView'[t] = opView[t]
    BY <1>5, <2>1, WritesKeepViews DEF ReserveWindow, SendData, SendEof, SendClose, LastWrite
  <2>3. /\ UNCHANGED <<sshVars, listenerVars, tcp, from, got, channelVars>>
        /\ hpc'[s] \in Relaying \cup {"ended"}
        /\ \A t \in Streams \ {s} : hpc'[t] = hpc[t]
    BY <1>5 DEF ReserveWindow, SendData, SendEof, SendClose, LastWrite, Relaying
  <2> QED
    BY <2>1, <2>2, <2>3 DEF Relaying
<1> QED
  BY <1>1, <1>2, <1>3, <1>4, <1>5 DEF StreamStep, HandlerGoesOn

-----------------------------------------------------------------------------
\* Whoever takes an opening out of the table, or answers it, sets its result.
LEMMA NextOpeningsKnown ==
    ASSUME TypeOK, Known, OpeningsKnown, [Next]_vars
    PROVE  OpeningsKnown'
<1> USE DEF TypeOK, OpeningsKnown, sshVars, listenerVars, streamVars, channelVars, operatorVars
<1>1. ASSUME UNCHANGED <<hpc, result, table, opView>> PROVE OpeningsKnown'
  BY <1>1
<1>2. ASSUME NEW s \in Streams, Confirm(s) PROVE OpeningsKnown'
  BY <1>2 DEF Confirm
<1>3. ASSUME NEW s \in Streams, Refuse(s) PROVE OpeningsKnown'
  BY <1>3 DEF Refuse
<1>4. ASSUME NEW s \in Streams, OperatorCloses(s) PROVE OpeningsKnown'
  <2>1. opView[s] \in {"open", "closed"} /\ table' = table \ {s} /\ UNCHANGED <<hpc, result, opView>>
    BY <1>4 DEF OperatorCloses, FromOperator
  <2> QED
    BY <2>1
<1>5. CASE CloseReply
  <2>1. scur \in Streams /\ opView[scur] \in {"open", "closed"}
    BY <1>5 DEF CloseReply, Known, AnswersKnown
  <2>2. \A t \in Streams \ {scur} : opView'[t] = opView[t]
    BY <1>5, <2>1, WritesKeepViews DEF CloseReply
  <2>3. UNCHANGED <<hpc, result, table>>
    BY <1>5 DEF CloseReply
  <2> QED
    BY <2>1, <2>2, <2>3
<1>6. ASSUME NEW l \in Listeners, NEW s \in Streams, Accept(l, s) PROVE OpeningsKnown'
  BY <1>6 DEF Accept
<1>7. ASSUME NEW s \in Streams, Create(s) \/ Name(s) \/ Open(s) PROVE OpeningsKnown'
  <2>1. opView[s] = "none"
    BY <1>7 DEF Create, Name, Open, Known, StreamsKnown
  <2> QED
    BY <1>7, <2>1 DEF Create, Name, Open, Goes
<1>8. ASSUME NEW s \in Streams,
             Answered(s) \/ Expires(s) \/ Drop(s) \/ RecvData(s) \/ RecvEnds(s) \/ Unroute(s)
      PROVE  OpeningsKnown'
  BY <1>8 DEF Answered, Expires, Drop, RecvData, RecvEnds, Unroute, Goes
<1>9. ASSUME NEW s \in Streams, ReserveWindow(s) \/ SendData(s) \/ SendEof(s) \/ SendClose(s) PROVE OpeningsKnown'
  <2>1. hpc[s] \in Relaying /\ result[s] = "ok" /\ opView[s] \in {"open", "closed"}
    BY <1>9 DEF ReserveWindow, SendData, SendEof, SendClose, LastWrite, Relaying, Known, AnswersKnown
  <2>2. \A t \in Streams \ {s} : opView'[t] = opView[t]
    BY <1>9, <2>1, WritesKeepViews DEF ReserveWindow, SendData, SendEof, SendClose, LastWrite
  <2>3. UNCHANGED <<result, table>> /\ \A t \in Streams \ {s} : hpc'[t] = hpc[t]
    BY <1>9 DEF ReserveWindow, SendData, SendEof, SendClose, LastWrite, Goes
  <2> QED
    BY <2>1, <2>2, <2>3
<1>10. CASE ListenerStep
  BY <1>1, <1>6, <1>10 DEF ListenerStep, Enable, AcceptFails, CheckAlive
<1>11. CASE StreamStep
  BY <1>1, <1>7, <1>8, <1>9, <1>11 DEF StreamStep, HandlerGoesOn, PeerEnds
<1>12. CASE SshStep
  BY <1>1, <1>2, <1>3, <1>4, <1>5, <1>12
  DEF SshStep, SshGoesOn, Cancel, OperatorData, OperatorLeaves, EnableRaises, LoopEnds, Finish
<1> QED
  BY <1>1, <1>10, <1>11, <1>12, StepsAre DEF vars

\* A listener that loses its place in the table without being closed was enabled
\* for port 0, and so was the one that has it.
LEMMA NextListenersKnown ==
    ASSUME TypeOK, ListenersKnown, [Next]_vars
    PROVE  ListenersKnown'
<1> USE DEF TypeOK
<1>1. ASSUME UNCHANGED <<forwards, lkey, lstate>>, spc' = "ended" => spc = "ended"
      PROVE  ListenersKnown'
  BY <1>1 DEF ListenersKnown, Displaced
<1>2. CASE StreamStep \/ UNCHANGED vars
  <2>1. UNCHANGED <<listenerVars, sshVars>>
    BY <1>2 DEF StreamStep, HandlerGoesOn, RecvData, PeerEnds, Create, Name, Open, Answered, Expires,
       Drop, RecvEnds, ReserveWindow, SendData, SendEof, Unroute, SendClose, LastWrite, vars
  <2> QED
    BY <1>1, <2>1 DEF listenerVars, sshVars
<1>3. ASSUME NEW l \in Listeners,
             AcceptFails(l) \/ CheckAlive(l) \/ \E s \in Streams : Accept(l, s)
      PROVE  ListenersKnown'
  BY <1>1, <1>3 DEF AcceptFails, CheckAlive, Accept, sshVars
<1>4. ASSUME NEW s \in Streams, Confirm(s) \/ Refuse(s) \/ OperatorData(s) \/ OperatorCloses(s)
      PROVE  ListenersKnown'
  BY <1>1, <1>4 DEF Confirm, Refuse, OperatorData, OperatorCloses, FromOperator, listenerVars, sshVars
<1>5. CASE OperatorLeaves \/ EnableRaises \/ LoopEnds \/ CloseReply
  BY <1>1, <1>5 DEF OperatorLeaves, EnableRaises, LoopEnds, CloseReply, listenerVars
<1>6. ASSUME NEW l \in Listeners, Enable(l) PROVE ListenersKnown'
  <2>1. /\ UNCHANGED <<spc, lkey>> /\ spc = "loop"
        /\ forwards' = [forwards EXCEPT ![lkey[l]] = l]
        /\ lstate' = [lstate EXCEPT ![l] = "listening"]
        /\ lkey[l] \in AnyPort \/ \A m \in Listeners : lkey[m] = lkey[l] => lstate[m] # "listening"
    BY <1>6 DEF Enable, Bindable, sshVars
  <2>2. SUFFICES ASSUME NEW m \in Listeners, lstate'[m] = "listening"
                 PROVE  Displaced(m)' \/ (forwards'[lkey'[m]] = m /\ spc' # "ended")
    BY DEF ListenersKnown
  <2>3. CASE m = l
    BY <2>1, <2>3
  <2>4. CASE m # l /\ Displaced(m)
    BY <2>1, <2>4 DEF Displaced
  <2>5. CASE m # l /\ ~Displaced(m)
    <3>1. lstate[m] = "listening" /\ forwards[lkey[m]] = m
      BY <2>1, <2>2, <2>5 DEF ListenersKnown
    <3>2. CASE lkey[m] = lkey[l]
      BY <2>1, <2>5, <3>1, <3>2 DEF Displaced
    <3>3. CASE lkey[m] # lkey[l]
      BY <2>1, <3>1, <3>3
    <3> QED
      BY <3>2, <3>3
  <2> QED
    BY <2>3, <2>4, <2>5
<1>7. ASSUME NEW k \in Keys, Cancel(k) PROVE ListenersKnown'
  <2>1. /\ UNCHANGED <<spc, lkey>>
        /\ forwards' = [forwards EXCEPT ![k] = NoListener]
        /\ lstate' = [lstate EXCEPT ![forwards[k]] = "closed"]
    BY <1>7 DEF Cancel, sshVars
  <2>2. SUFFICES ASSUME NEW m \in Listeners, lstate'[m] = "listening"
                 PROVE  Displaced(m)' \/ (forwards'[lkey'[m]] = m /\ spc' # "ended")
    BY DEF ListenersKnown
  <2>3. lstate[m] = "listening" /\ m # forwards[k]
    BY <2>1, <2>2
  <2>4. CASE Displaced(m)
    BY <2>1, <2>4 DEF Displaced
  <2>5. CASE forwards[lkey[m]] = m /\ spc # "ended"
    BY <2>1, <2>3, <2>5
  <2> QED
    BY <2>3, <2>4, <2>5 DEF ListenersKnown
<1>8. CASE Finish
  <2>1. /\ UNCHANGED lkey
        /\ \A l \in Listeners : lstate'[l] = IF forwards[lkey[l]] = l THEN "closed" ELSE lstate[l]
    BY <1>8 DEF Finish
  <2>2. SUFFICES ASSUME NEW m \in Listeners, lstate'[m] = "listening"
                 PROVE  Displaced(m)'
    BY DEF ListenersKnown
  <2>3. lstate[m] = "listening" /\ forwards[lkey[m]] # m
    BY <2>1, <2>2
  <2>4. Displaced(m)
    BY <2>3 DEF ListenersKnown
  <2> QED
    BY <2>1, <2>4 DEF Displaced
<1> QED
  BY <1>2, <1>3, <1>4, <1>5, <1>6, <1>7, <1>8, StepsAre DEF SshStep, SshGoesOn, ListenerStep

\* Every step keeps the inductive invariant.
LEMMA NextIInv == IInv /\ [Next]_vars => IInv'
<1> SUFFICES ASSUME IInv, [Next]_vars PROVE IInv'
  OBVIOUS
<1>1. TypeOK /\ Known /\ OpeningsKnown /\ ListenersKnown
  BY DEF IInv, Known
<1>2. Known'
  <2>1. CASE UNCHANGED vars
    BY <1>1, <2>1 DEF Known, StreamsKnown, LateKnown, AnswersKnown, vars, sshVars,
       listenerVars, streamVars, channelVars, operatorVars
  <2> QED
    BY <1>1, <2>1, SshKeepsKnown, ListenerKeepsKnown, StreamKeepsKnown, StepsAre
<1>3. TypeOK'
  BY <1>1, NextTypeOK DEF Known
<1> QED
  BY <1>1, <1>2, <1>3, NextOpeningsKnown, NextListenersKnown DEF IInv, Known

\* The inductive invariant holds in every reachable state.
LEMMA Invariance == Spec => []IInv
  BY InitIInv, NextIInv, PTL DEF Spec

\* Every variable keeps its type (relay.py:422-427, 447-454).
THEOREM TypeCorrect == Spec => []TypeOK
<1>1. IInv => TypeOK
  BY DEF IInv
<1> QED
  BY Invariance, <1>1, PTL

\* A connection that a closed listener still accepts never reaches the operator
\* (relay.py:429-441, 782-790).
THEOREM LateStayOut == Spec => []LateConnectionsStayOut
<1>1. IInv => LateConnectionsStayOut
  BY DEF IInv, LateKnown, LateConnectionsStayOut
<1> QED
  BY Invariance, <1>1, PTL

\* A stream is relayed only over a channel the operator confirmed, and its data
\* has a recipient (relay.py:455-459, 868-877, 892-894).
THEOREM RelayedAreConfirmed == Spec => []RelayedIsConfirmed
<1>1. IInv => RelayedIsConfirmed
  BY DEF IInv, AnswersKnown, RelayedIsConfirmed
<1> QED
  BY Invariance, <1>1, PTL

\* Listeners end with their connection, except one that a second request for
\* port 0 at its address displaced (relay.py:504-506, 769-771).
THEOREM ListenersEnd == Spec => []ListenersEndWithConnection
<1>1. IInv => ListenersEndWithConnection
  BY DEF IInv, ListenersKnown, Displaced, ListenersEndWithConnection
<1> QED
  BY Invariance, <1>1, PTL

\* The operator's answer reaches a connection that still waits for it, whatever
\* else takes entries out of the table (relay.py:455-457, 868-885).
THEOREM AnswersAreHeard == Spec => []AnswerIsHeard
<1>1. IInv => AnswerIsHeard
  BY DEF IInv, OpeningsKnown, AnswerIsHeard
<1> QED
  BY Invariance, <1>1, PTL
===============================================================================
