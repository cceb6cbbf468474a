-------------------------- MODULE ChannelRelayProofs --------------------------
(***************************************************************************)
(* Proofs about the relaying of channels, for any number of operators and  *)
(* channels: an open is answered once, the two tables agree, and only      *)
(* finished channels are missed.                                           *)
(*                                                                         *)
(* The three properties rest on what is known of a channel by who has it   *)
(* in hand: the thread of its operator (HandsOK), the client's reader      *)
(* (ReaderOK), or nobody (ViewsOK, OffTheTable).  That two SSH threads     *)
(* never have one channel in hand follows from the owner of the channel.   *)
(*                                                                         *)
(* Then, that no open and no CLOSE is lost, from what is on the way        *)
(* between the relay and the client (NetInv).                              *)
(***************************************************************************)
EXTENDS ChannelRelay, SequenceTheorems, TLAPS

Allocated == {ch \in Chans : ch < channelCounter}

AskingPlaces == {"open_send", "open_wait", "open_expired", "open_refuse", "open_bind"}
BoundPlaces == {"open_insert", "open_confirm"}
ClosingPlaces == {"close_send", "close_forget", "close_reply"}
TellingPlaces == {"unrouting", "closing", "forgetting"}
WritingPlaces == {"reserving", "writing", "writing_eof", "unrouting", "closing"}

\* frames are about channels that the counter has passed
WiresOK ==
    /\ toClient \in Seq(Frames \X Allocated)
    /\ toRelay \in Seq(Frames \X Allocated)
    /\ \A ch \in Chans : end[ch] # "none" => ch \in Allocated

\* what the operator has been told, by whether the channel has its recipient
ViewsOK ==
    \A ch \in Chans :
        /\ bound[ch] => ch \in Allocated /\ opView[ch] \in {"asked", "open", "closed"}
        /\ opView[ch] \in {"open", "closed"} => bound[ch]
        /\ ch \in Allocated => owner[ch] \in Conns

\* an SSH thread has a channel of its own in hand, and knows how far it is
HandOK(s) ==
    /\ spc[s] \notin {"loop", "ended"} => scur[s] \in Allocated /\ owner[scur[s]] = s
    /\ spc[s] \in AskingPlaces => ~bound[scur[s]] /\ opView[scur[s]] = "asked"
    /\ spc[s] \in BoundPlaces => bound[scur[s]] /\ opView[scur[s]] \in {"asked", "closed"}
    /\ spc[s] \in ClosingPlaces => closed[scur[s]]
    /\ spc[s] \in ClosingPlaces \cup {"send_reply", "send_failure"} =>
          opView[scur[s]] \in {"open", "closed"}
    /\ spc[s] \in {"open_refuse", "close_reply"} => scur[s] \notin channels

HandsOK == \A s \in Conns : HandOK(s)

\* the client's reader writes about bound channels only
ReaderOK ==
    /\ rpc \in WritingPlaces \cup {"forgetting"} => rch \in Allocated
    /\ rpc \in WritingPlaces => bound[rch]
    /\ rpc \in TellingPlaces => closed[rch]
    /\ rpc \in {"listing", "telling", "dead"} => ~alive

\* a channel that is in no table of the client's has come to an end
Finished(ch) ==
    \/ closed[ch]
    \/ opView[ch] = "refused"
    \/ InHand(ch) /\ spc[owner[ch]] = "open_refuse"
    \/ ~here[owner[ch]] \/ spc[owner[ch]] = "ended"

OffTheTable ==
    /\ channels \subseteq Allocated /\ missed \subseteq Allocated
    /\ todo \subseteq Allocated
    /\ \A ch \in Allocated : ch \notin channels => Finished(ch)

\* while the reader reads, what is about to be confirmed can be routed
Serving == rpc \notin {"failing", "listing", "telling", "dead"} /\ alive

ConfirmedIsRouted ==
    Serving => \A s \in Conns : spc[s] = "open_confirm" /\ scur[s] \in channels =>
        \/ scur[s] \in sshChannels
        \/ rch = scur[s] /\ rpc \in TellingPlaces

IInv ==
    /\ TypeOK
    /\ WiresOK
    /\ ViewsOK
    /\ HandsOK
    /\ ReaderOK
    /\ OffTheTable
    /\ ConfirmedIsRouted
    /\ AnsweredOnce
    /\ OpenChannelIsRouted
    /\ OnlyFinishedChannelsMiss

SshStep(s) ==
    \/ \E k \in Kinds : OpenRegister(s, k)
    \/ \E ch \in Chans :
         OperatorSends(s, ch) \/ OperatorGrants(s, ch) \/ OperatorCloses(s, ch)
    \/ OperatorLeaves(s)
    \/ SshGoesOn(s)

\* what happens to a channel while its own thread does not open it
Forward(ch) ==
    /\ owner'[ch] = owner[ch] /\ bound'[ch] = bound[ch]
    /\ opView'[ch] = opView[ch] \/ (bound[ch] /\ opView'[ch] = "closed")
    /\ closed[ch] => closed'[ch]
    /\ ch \in channels' => ch \in channels

OutsideStep ==
    \/ ClientGoesOn
    \/ \E ch \in Chans : EndEmits(ch) \/ EndFinishes(ch)
    \/ LinkFails

-----------------------------------------------------------------------------
\* A step is one of an SSH thread, of the client's reader, or not the relay's.
LEMMA StepsAre ==
    ASSUME Next
    PROVE  (\E s \in Conns : SshStep(s)) \/ ReaderGoesOn \/ OutsideStep
  BY DEF Next, SshStep, OutsideStep

\* A message changes what the operator knows of its channel, and nothing else.
LEMMA ToldKeepsTypes ==
    ASSUME TypeOK, NEW s \in Conns, NEW ch \in Chans, NEW msg \in Messages,
           Written(s, ch, msg)
    PROVE  opView' \in [Chans -> Views] /\ strays' \subseteq Messages \X Views
<1>1. CASE ~here[s]
  BY <1>1 DEF Written, viewVars, TypeOK
<1>2. CASE here[s]
  <2>1. After(msg, opView[ch]) \in Views
    BY DEF After, Views, TypeOK
  <2>2. opView' \in [Chans -> Views]
    <3>1. opView' = [opView EXCEPT ![ch] = After(msg, opView[ch])]
      BY <1>2 DEF Written, Told
    <3> QED
      BY <2>1, <3>1 DEF TypeOK
  <2>3. <<msg, opView[ch]>> \in Messages \X Views
    BY DEF TypeOK
  <2> QED
    BY <1>2, <2>2, <2>3 DEF Written, Told, TypeOK
<1> QED
  BY <1>1, <1>2

\* A frame to the client is put behind the others.
LEMMA FramedKeepsType ==
    ASSUME NEW S, toClient \in Seq(Frames \X S), NEW type \in Frames, NEW ch \in S,
           Framed(type, ch) \/ UNCHANGED toClient
    PROVE  toClient' \in Seq(Frames \X S)
<1>1. <<type, ch>> \in Frames \X S
  OBVIOUS
<1>2. Append(toClient, <<type, ch>>) \in Seq(Frames \X S)
  BY <1>1
<1> QED
  BY <1>2 DEF Framed

\* A thread goes to a place there is.
LEMMA ThreadGoes ==
    ASSUME spc \in [Conns -> SPlaces], NEW s \in Conns, NEW place \in SPlaces,
           SpcTo(s, place)
    PROVE  spc' \in [Conns -> SPlaces]
  BY DEF SpcTo

\* A CHANNEL_FAILURE tells the operator nothing of the state of its channels.
LEMMA FailureTells ==
    ASSUME TypeOK, NEW s \in Conns, SendFailure(s)
    PROVE  /\ opView' = opView
           /\ strays' \subseteq Messages \X Views
           /\ strays' = strays \/ \E view \in Views : strays' \subseteq strays \cup {<<"failure", view>>}
           /\ spc' \in [Conns -> SPlaces] /\ spc'[s] \in {"loop", "ended"}
<1>1. /\ spc' \in [Conns -> SPlaces] /\ spc'[s] \in {"loop", "ended"}
  <2>1. SpcTo(s, "loop") \/ SpcTo(s, "ended")
    BY DEF SendFailure
  <2> QED
    BY <2>1 DEF SpcTo, SPlaces, TypeOK
<1>2. CASE UNCHANGED viewVars
  BY <1>1, <1>2 DEF viewVars, TypeOK
<1>3. ASSUME NEW ch \in Chans, Written(s, ch, "failure")
      PROVE  /\ opView' = opView
             /\ strays' \subseteq strays \cup {<<"failure", opView[ch]>>}
             /\ <<"failure", opView[ch]>> \in Messages \X Views
  BY <1>3 DEF Written, Told, After, viewVars, TypeOK, Messages
<1>4. CASE \E ch \in Chans : Written(s, ch, "failure")
  <2>1. PICK ch \in Chans : Written(s, ch, "failure")
    BY <1>4
  <2>2. opView[ch] \in Views
    BY DEF TypeOK
  <2> QED
    BY <1>1, <1>3, <2>1, <2>2 DEF TypeOK
<1> QED
  BY <1>2, <1>4 DEF SendFailure

\* The steps of an SSH thread keep the types.
LEMMA SshKeepsTypes ==
    ASSUME TypeOK, HandsOK, NEW s \in Conns, SshStep(s)
    PROVE  TypeOK'
<1> USE DEF clientVars, chanVars, sshVars, readerVars, netVars, endVars, opVars, viewVars,
        lossVars, SpcTo, SPlaces
<1>0. /\ spc[s] \notin {"loop", "ended"} => scur[s] \in Chans
      /\ {"open", "data", "close"} \subseteq Frames
      /\ {"refused", "opened", "reply", "close"} \subseteq Messages
  BY DEF HandsOK, HandOK, Allocated, Frames, Messages
<1>1. ASSUME NEW k \in Kinds, OpenRegister(s, k) PROVE TypeOK'
  <2>1. /\ channelCounter \in Chans /\ channelCounter + 1 \in Nat /\ "asked" \in Views
        /\ k \in {"session", "direct-tcpip"} /\ channelCounter \in Nat
    BY <1>1, KindsAssumption DEF OpenRegister, TypeOK, Views
  <2>2. /\ channelCounter' = channelCounter + 1 /\ channels' \subseteq Chans
        /\ pendingOpen' \subseteq Chans
    BY <1>1, <2>1 DEF OpenRegister, TypeOK
  <2>3. /\ owner' \in [Chans -> Conns \cup {NoOwner}]
        /\ kind' \in [Chans -> {"session", "direct-tcpip"}]
        /\ opView' \in [Chans -> Views]
    BY <1>1, <2>1 DEF OpenRegister, TypeOK
  <2>4. spc' \in [Conns -> SPlaces] /\ scur' \in [Conns -> Nat]
    BY <1>1, <2>1 DEF OpenRegister, TypeOK
  <2> QED
    BY <1>1, <2>1, <2>2, <2>3, <2>4 DEF OpenRegister, TypeOK
<1>2. CASE OpenSend(s)
  <2>1. toClient' \in Seq(Frames \X Chans)
    BY <1>0, <1>2, FramedKeepsType DEF OpenSend, TypeOK
  <2> QED
    BY <1>2, <2>1 DEF OpenSend, TypeOK, Framed
<1>3. CASE CloseSend(s)
  <2>1. toClient' \in Seq(Frames \X Chans)
    BY <1>0, <1>3, FramedKeepsType DEF CloseSend, TypeOK
  <2> QED
    BY <1>3, <2>1 DEF CloseSend, TypeOK, Framed
<1>4. ASSUME NEW ch \in Chans, OperatorSends(s, ch) PROVE TypeOK'
  <2>1. toClient' \in Seq(Frames \X Chans)
    BY <1>0, <1>4, FramedKeepsType DEF OperatorSends, TypeOK
  <2>2. scur' \in [Conns -> Nat] /\ spc' \in [Conns -> SPlaces]
    <3>1. ch \in Nat
      BY BoundsAssumption DEF Chans
    <3>2. \/ UNCHANGED spc \/ SpcTo(s, "ended")
          \/ SpcTo(s, "send_reply") \/ SpcTo(s, "send_failure")
      BY <1>4 DEF OperatorSends
    <3>3. spc' \in [Conns -> SPlaces]
      BY <3>2, ThreadGoes DEF TypeOK
    <3>4. scur' \in [Conns -> Nat]
      BY <1>4, <3>1 DEF OperatorSends, TypeOK
    <3> QED
      BY <3>3, <3>4
  <2>3. opSent' \in [Chans -> Nat]
    BY <1>4 DEF OperatorSends, TypeOK
  <2> QED
    BY <1>4, <2>1, <2>2, <2>3 DEF OperatorSends, TypeOK
<1>5. CASE OpenAnswered(s)
  BY <1>5 DEF OpenAnswered, TypeOK
<1>6. CASE OpenExpires(s) \/ OpenForget(s)
  <2>1. spc' \in [Conns -> SPlaces]
    <3>1. SpcTo(s, "open_expired") \/ SpcTo(s, "open_refuse")
      BY <1>6 DEF OpenExpires, OpenForget
    <3> QED
      BY <3>1, ThreadGoes DEF TypeOK
  <2>2. CASE OpenExpires(s)
    BY <2>1, <2>2 DEF OpenExpires, TypeOK
  <2>3. CASE OpenForget(s)
    BY <2>1, <2>3 DEF OpenForget, TypeOK
  <2> QED
    BY <1>6, <2>2, <2>3
<1>7. CASE OpenBind(s)
  <2>1. /\ bound' \in [Chans -> BOOLEAN] /\ window' \in [Chans -> Nat]
        /\ spc' \in [Conns -> SPlaces]
    BY <1>0, <1>7, BoundsAssumption DEF OpenBind, TypeOK
  <2> QED
    BY <1>7, <2>1 DEF OpenBind, TypeOK
<1>8. CASE OpenInsert(s)
  BY <1>0, <1>8 DEF OpenInsert, TypeOK
<1>9. CASE OpenRefuse(s)
  <2>1. opView' \in [Chans -> Views] /\ strays' \subseteq Messages \X Views
    BY <1>0, <1>9, ToldKeepsTypes DEF OpenRefuse, Reply, TypeOK
  <2> QED
    BY <1>9, <2>1 DEF OpenRefuse, Reply, TypeOK
<1>10. CASE OpenConfirm(s)
  <2>1. opView' \in [Chans -> Views] /\ strays' \subseteq Messages \X Views
    BY <1>0, <1>10, ToldKeepsTypes DEF OpenConfirm, Reply, TypeOK
  <2> QED
    BY <1>10, <2>1 DEF OpenConfirm, Reply, TypeOK
<1>11. CASE SendReply(s)
  <2>1. opView' \in [Chans -> Views] /\ strays' \subseteq Messages \X Views
    BY <1>0, <1>11, ToldKeepsTypes DEF SendReply, SendFailure, Reply, TypeOK
  <2> QED
    BY <1>11, <2>1 DEF SendReply, SendFailure, Reply, TypeOK
<1>17. CASE SendFailure(s)
  <2>1. /\ opView' \in [Chans -> Views] /\ strays' \subseteq Messages \X Views
        /\ spc' \in [Conns -> SPlaces]
    BY <1>17, FailureTells DEF TypeOK
  <2> QED
    BY <1>17, <2>1 DEF SendFailure, TypeOK
<1>12. CASE CloseReply(s)
  <2>1. opView' \in [Chans -> Views] /\ strays' \subseteq Messages \X Views
    BY <1>0, <1>12, ToldKeepsTypes DEF CloseReply, Reply, TypeOK
  <2> QED
    BY <1>12, <2>1 DEF CloseReply, Reply, TypeOK
<1>13. CASE CloseForget(s) \/ LoopEnds(s)
  <2>1. spc' \in [Conns -> SPlaces]
    <3>1. SpcTo(s, "close_reply") \/ SpcTo(s, "ended")
      BY <1>13 DEF CloseForget, LoopEnds
    <3> QED
      BY <3>1, ThreadGoes DEF TypeOK
  <2>2. CASE CloseForget(s)
    BY <2>1, <2>2 DEF CloseForget, TypeOK
  <2>3. CASE LoopEnds(s)
    BY <2>1, <2>3 DEF LoopEnds, TypeOK
  <2> QED
    BY <1>13, <2>2, <2>3
<1>14. ASSUME NEW ch \in Chans, OperatorGrants(s, ch) PROVE TypeOK'
  <2>1. window' \in [Chans -> Nat]
    BY <1>14 DEF OperatorGrants, TypeOK
  <2>2. grants' \in [Chans -> Nat]
    BY <1>14 DEF OperatorGrants, TypeOK
  <2> QED
    BY <1>14, <2>1, <2>2 DEF OperatorGrants, TypeOK
<1>15. ASSUME NEW ch \in Chans, OperatorCloses(s, ch) PROVE TypeOK'
  <2>1. ch \in Nat
    BY BoundsAssumption DEF Chans
  <2>2. spc' \in [Conns -> SPlaces] /\ scur' \in [Conns -> Nat]
    <3>1. UNCHANGED <<scur, spc>> \/ SpcTo(s, "close_send")
      BY <1>15 DEF OperatorCloses
    <3>2. spc' \in [Conns -> SPlaces]
      BY <3>1, ThreadGoes DEF TypeOK
    <3>3. UNCHANGED scur \/ scur' = [scur EXCEPT ![s] = ch]
      BY <1>15 DEF OperatorCloses
    <3>4. scur' \in [Conns -> Nat]
      BY <2>1, <3>3 DEF TypeOK
    <3> QED
      BY <3>2, <3>4
  <2>3. /\ opClosed' \in [Chans -> BOOLEAN] /\ closed' \in [Chans -> BOOLEAN]
        /\ sshChannels' \subseteq Chans
    BY <1>15 DEF OperatorCloses, TypeOK
  <2> QED
    BY <1>15, <2>2, <2>3 DEF OperatorCloses, TypeOK
<1>16. CASE OperatorLeaves(s)
  BY <1>16 DEF OperatorLeaves, TypeOK
<1> QED
  BY <1>1, <1>2, <1>3, <1>4, <1>5, <1>6, <1>7, <1>8, <1>9, <1>10, <1>11, <1>12, <1>13,
     <1>14, <1>15, <1>16, <1>17 DEF SshStep, SshGoesOn

\* A frame that is read is about a channel that was asked for.
LEMMA ReadsOne ==
    ASSUME WiresOK, NEW type, Reads(type)
    PROVE  NextFrame[2] \in Allocated /\ toRelay' \in Seq(Frames \X Allocated)
<1>1. toRelay # <<>> /\ toRelay \in Seq(Frames \X Allocated) /\ toRelay' = Tail(toRelay)
  BY DEF Reads, WiresOK
<1>2. Head(toRelay) \in Frames \X Allocated /\ Tail(toRelay) \in Seq(Frames \X Allocated)
  BY <1>1, HeadTailProperties
<1> QED
  BY <1>1, <1>2 DEF NextFrame

\* ... and so are the frames the client reads.
LEMMA ClientReadsOne ==
    ASSUME WiresOK, NEW type, ClientReads(type)
    PROVE  ClientFrame \in Allocated /\ toClient' \in Seq(Frames \X Allocated)
<1>1. toClient # <<>> /\ toClient \in Seq(Frames \X Allocated) /\ toClient' = Tail(toClient)
  BY DEF ClientReads, WiresOK
<1>2. Head(toClient) \in Frames \X Allocated /\ Tail(toClient) \in Seq(Frames \X Allocated)
  BY <1>1, HeadTailProperties
<1> QED
  BY <1>1, <1>2 DEF ClientFrame

\* The steps of the client's reader keep the types.
LEMMA ReaderKeepsTypes ==
    ASSUME TypeOK, WiresOK, ViewsOK, ReaderOK, ReaderGoesOn
    PROVE  TypeOK'
<1> USE DEF clientVars, chanVars, sshVars, readerVars, netVars, endVars, opVars, viewVars,
        lossVars, ReaderTo, RPlaces
<1>0. /\ Allocated \subseteq Chans /\ Chans \subseteq Nat
      /\ \A S : S \subseteq Chans => Seq(Frames \X S) \subseteq Seq(Frames \X Chans)
      /\ {"data", "eof", "close"} \subseteq Messages
      /\ Raise \in RPlaces /\ Back \in RPlaces
  BY BoundsAssumption, SeqMonotonic DEF Allocated, Chans, Messages, Raise, Back
<1>1. ASSUME NEW type, Reads(type) PROVE NextFrame[2] \in Chans /\ toRelay' \in Seq(Frames \X Chans)
  BY <1>0, <1>1, ReadsOne
<1>2. CASE ReadConfirm
  <2>1. NextFrame[2] \in Chans /\ toRelay' \in Seq(Frames \X Chans)
    BY <1>1, <1>2 DEF ReadConfirm
  <2>2. answer' \in [Chans -> {"unset", "ok", "failed"}]
    BY <1>2, <2>1 DEF ReadConfirm, TypeOK
  <2> QED
    BY <1>2, <2>1, <2>2 DEF ReadConfirm, TypeOK
<1>3. ASSUME NEW type, NEW place \in RPlaces, ReadForChannel(type, place) PROVE TypeOK'
  <2>1. NextFrame[2] \in Chans /\ toRelay' \in Seq(Frames \X Chans)
    BY <1>1, <1>3 DEF ReadForChannel
  <2>2. missed' \subseteq Chans /\ early' \subseteq Chans
    BY <1>3, <2>1 DEF ReadForChannel, Drops, TypeOK
  <2>3. rpc' \in RPlaces /\ rch' \in Nat /\ todo' \subseteq Chans
    BY <1>0, <1>3, <2>1 DEF ReadForChannel, TypeOK
  <2> QED
    BY <1>3, <2>1, <2>2, <2>3 DEF ReadForChannel, TypeOK
<1>4. ASSUME NEW ch \in Chans, RemoteClose(ch)
      PROVE  /\ closed' \in [Chans -> BOOLEAN] /\ rpc' \in RPlaces /\ rch' \in Nat
             /\ UNCHANGED <<owner, kind, bound, window, sshChannels>>
  BY <1>0, <1>4 DEF RemoteClose, TypeOK
<1>5. CASE ReadClose
  <2>1. NextFrame[2] \in Chans /\ toRelay' \in Seq(Frames \X Chans)
    BY <1>1, <1>5 DEF ReadClose
  <2>2. missed' \subseteq Chans /\ early' \subseteq Chans
    BY <1>5, <2>1 DEF ReadClose, Drops, TypeOK
  <2>3. /\ closed' \in [Chans -> BOOLEAN] /\ rpc' \in RPlaces /\ rch' \in Nat
        /\ UNCHANGED <<owner, kind, bound, window, sshChannels, todo>>
    BY <1>4, <1>5, <2>1 DEF ReadClose, TypeOK
  <2> QED
    BY <1>5, <2>1, <2>2, <2>3 DEF ReadClose, TypeOK
<1>6. CASE Reserve
  <2>1. window' \in [Chans -> Nat]
    <3>1. rch \in Chans /\ window[rch] - 1 \in Nat
      BY <1>0, <1>6 DEF Reserve, TypeOK, ReaderOK, WritingPlaces
    <3> QED
      BY <1>6, <3>1 DEF Reserve, TypeOK
  <2> QED
    BY <1>6, <2>1 DEF Reserve, TypeOK
<1>7. CASE ReserveFails
  BY <1>0, <1>7 DEF ReserveFails, TypeOK
<1>8. ASSUME NEW msg \in {"data", "eof", "close"}, NEW from \in WritingPlaces,
             NEW next \in RPlaces, ReaderWrites(msg, from, next)
      PROVE  TypeOK'
  <2>1. rch \in Chans /\ owner[rch] \in Conns /\ msg \in Messages
    BY <1>0, <1>8 DEF ReaderOK, ViewsOK, ReaderWrites
  <2>2. opView' \in [Chans -> Views] /\ strays' \subseteq Messages \X Views
    BY <1>8, <2>1, ToldKeepsTypes DEF ReaderWrites, TypeOK
  <2>3. rpc' \in RPlaces
    BY <1>0, <1>8 DEF ReaderWrites
  <2> QED
    BY <1>8, <2>2, <2>3 DEF ReaderWrites, TypeOK
<1>9. CASE Unroute
  BY <1>9 DEF Unroute, TypeOK
<1>10. CASE Forget
  BY <1>0, <1>10 DEF Forget, TypeOK
<1>11. CASE ReadEnd \/ CloseClient
  BY <1>11 DEF ReadEnd, CloseClient, TypeOK
<1>12. CASE ListChannels \/ AllTold
  BY <1>12 DEF ListChannels, AllTold, TypeOK
<1>13. CASE TellChannel
  <2>1. PICK ch \in todo : RemoteClose(ch) /\ todo' = todo \ {ch}
    BY <1>13 DEF TellChannel
  <2>2. ch \in Chans
    BY DEF TypeOK
  <2> QED
    BY <1>4, <1>13, <2>1, <2>2 DEF TellChannel, TypeOK
<1>14. (ReadData \/ ReadEof) => TypeOK'
  BY <1>3 DEF ReadData, ReadEof
<1>15. (WriteData \/ WriteEof \/ WriteClose) => TypeOK'
  BY <1>8 DEF WriteData, WriteEof, WriteClose, WritingPlaces
<1> QED
  BY <1>2, <1>5, <1>6, <1>7, <1>9, <1>10, <1>11, <1>12, <1>13, <1>14, <1>15 DEF ReaderGoesOn

\* The steps of the client, its channels and the network keep the types.
LEMMA OutsideKeepsTypes ==
    ASSUME TypeOK, WiresOK, OutsideStep
    PROVE  TypeOK' /\ WiresOK'
<1> USE DEF clientVars, chanVars, sshVars, readerVars, netVars, endVars, opVars, viewVars,
        lossVars
<1>0. /\ Allocated' = Allocated /\ Allocated \subseteq Chans
      /\ Seq(Frames \X Allocated) \subseteq Seq(Frames \X Chans)
      /\ {"open", "data", "close", "confirm", "fail", "eof"} \subseteq Frames
  BY SeqMonotonic DEF Allocated, Frames, OutsideStep, ClientGoesOn, ClientOpens, ClientTakes,
     ClientCloses, EndEmits, EndFinishes, LinkFails
<1> DEFINE Kept ==
               /\ UNCHANGED <<clientVars, chanVars, sshVars, readerVars, opVars, viewVars, lossVars>>
               /\ link' \in BOOLEAN
               /\ toClient' \in Seq(Frames \X Allocated)
               /\ toRelay' \in Seq(Frames \X Allocated)
               /\ end' \in [Chans -> {"none", "open", "refused", "closed", "finished"}]
               /\ \A ch \in Chans : end'[ch] # "none" => ch \in Allocated
               /\ started' \in [Chans -> BOOLEAN] /\ emitted' \in [Chans -> Nat]
<1>1. SUFFICES Kept
  BY <1>0 DEF TypeOK, WiresOK
<1>2. CASE ClientOpens
  <2>1. ClientFrame \in Allocated /\ toClient' \in Seq(Frames \X Allocated)
    BY <1>2, ClientReadsOne DEF ClientOpens
  <2>2. toRelay' \in Seq(Frames \X Allocated)
    <3>1. PICK f \in Frames \X Allocated : toRelay' = Append(toRelay, f)
      BY <1>0, <1>2, <2>1 DEF ClientOpens
    <3> QED
      BY <3>1 DEF WiresOK
  <2>3. \E e \in {"open", "refused"} : end' = [end EXCEPT ![ClientFrame] = e]
    BY <1>2 DEF ClientOpens
  <2>4. /\ end' \in [Chans -> {"none", "open", "refused", "closed", "finished"}]
        /\ \A ch \in Chans : end'[ch] # "none" => ch \in Allocated
    BY <1>0, <2>1, <2>3 DEF TypeOK, WiresOK
  <2> QED
    BY <1>2, <2>1, <2>2, <2>4 DEF ClientOpens, ClientReads, TypeOK
<1>3. CASE ClientTakes
  <2>1. ClientFrame \in Allocated /\ toClient' \in Seq(Frames \X Allocated)
    BY <1>3, ClientReadsOne DEF ClientTakes
  <2> QED
    BY <1>0, <1>3, <2>1 DEF ClientTakes, ClientReads, TypeOK, WiresOK
<1>4. CASE ClientCloses
  <2>1. ClientFrame \in Allocated /\ toClient' \in Seq(Frames \X Allocated)
    BY <1>4, ClientReadsOne DEF ClientCloses
  <2> QED
    BY <1>0, <1>4, <2>1 DEF ClientCloses, ClientReads, TypeOK, WiresOK
<1>5. ASSUME NEW ch \in Chans, EndEmits(ch) \/ EndFinishes(ch)
      PROVE  ch \in Allocated
  BY <1>5 DEF EndEmits, EndFinishes, MayEmit, WiresOK
<1>6. ASSUME NEW ch \in Chans, EndEmits(ch)
      PROVE  Kept
  <2>1. toRelay' \in Seq(Frames \X Allocated)
    <3>1. <<"data", ch>> \in Frames \X Allocated
      BY <1>0, <1>5, <1>6
    <3> QED
      BY <1>6, <3>1 DEF EndEmits, WiresOK
  <2>2. emitted' \in [Chans -> Nat]
    BY <1>6 DEF EndEmits, TypeOK
  <2> QED
    BY <1>6, <2>1, <2>2 DEF EndEmits, TypeOK, WiresOK
<1>7. ASSUME NEW ch \in Chans, EndFinishes(ch)
      PROVE  Kept
  <2>1. \A frames \in Farewells(ch) : frames \in Seq(Frames \X Allocated)
    <3>1. <<"eof", ch>> \in Frames \X Allocated /\ <<"close", ch>> \in Frames \X Allocated
      BY <1>0, <1>5, <1>7
    <3>2. /\ <<<<"eof", ch>>>> \in Seq(Frames \X Allocated)
          /\ <<<<"close", ch>>>> \in Seq(Frames \X Allocated)
          /\ <<<<"eof", ch>>, <<"close", ch>>>> \in Seq(Frames \X Allocated)
      BY <3>1
    <3> QED
      BY <3>2 DEF Farewells
  <2>2. toRelay' \in Seq(Frames \X Allocated)
    BY <1>7, <2>1, ConcatProperties DEF EndFinishes, WiresOK
  <2> QED
    BY <1>5, <1>7, <2>2 DEF EndFinishes, TypeOK, WiresOK
<1>8. CASE LinkFails
  BY <1>8 DEF LinkFails, TypeOK, WiresOK
<1> QED
  BY <1>2, <1>3, <1>4, <1>6, <1>7, <1>8 DEF OutsideStep, ClientGoesOn

-----------------------------------------------------------------------------
\* A message takes the operator's view forward, and only that of its channel.
LEMMA ToldView ==
    ASSUME TypeOK, NEW s, NEW ch \in Chans, NEW msg, Written(s, ch, msg)
    PROVE  /\ \A other \in Chans : other # ch => opView'[other] = opView[other]
           /\ opView'[ch] \in {opView[ch], After(msg, opView[ch])}
           /\ here[s] => opView'[ch] = After(msg, opView[ch])
           /\ InPlace(msg, opView[ch]) => strays' = strays
           /\ strays' \subseteq strays \cup {<<msg, opView[ch]>>}
  BY DEF Written, Told, viewVars, TypeOK

\* ... which an SSH thread that writes it leaves behind.
LEMMA ReplyView ==
    ASSUME TypeOK, NEW s \in Conns, NEW msg, NEW next, Reply(s, msg, next), scur[s] \in Chans
    PROVE  /\ \A other \in Chans : other # scur[s] => opView'[other] = opView[other]
           /\ opView'[scur[s]] \in {opView[scur[s]], After(msg, opView[scur[s]])}
           /\ spc' = [spc EXCEPT ![s] = next] \/ spc' = [spc EXCEPT ![s] = "ended"]
           /\ spc'[s] # "ended" /\ here[s] =>
                opView'[scur[s]] = After(msg, opView[scur[s]])
           /\ InPlace(msg, opView[scur[s]]) => strays' = strays
           /\ strays' \subseteq strays \cup {<<msg, opView[scur[s]]>>}
<1>1. ASSUME Written(s, scur[s], msg), SpcTo(s, next)
      PROVE  /\ \A other \in Chans : other # scur[s] => opView'[other] = opView[other]
             /\ opView'[scur[s]] \in {opView[scur[s]], After(msg, opView[scur[s]])}
             /\ here[s] => opView'[scur[s]] = After(msg, opView[scur[s]])
             /\ InPlace(msg, opView[scur[s]]) => strays' = strays
             /\ strays' \subseteq strays \cup {<<msg, opView[scur[s]]>>}
  BY <1>1, ToldView
<1>2. CASE WriteFails(s) /\ SpcTo(s, "ended") /\ UNCHANGED viewVars
  BY <1>2 DEF SpcTo, viewVars, TypeOK
<1>3. SpcTo(s, next) \/ SpcTo(s, "ended")
  BY DEF Reply
<1>4. spc'[s] # "ended" /\ here[s] => Written(s, scur[s], msg) /\ SpcTo(s, next)
  BY DEF Reply, SpcTo, TypeOK, WriteFails
<1> QED
  BY <1>1, <1>2, <1>3, <1>4 DEF Reply, SpcTo

\* A step of an SSH thread is its own affair.
Alone(s) ==
    /\ UNCHANGED <<alive, readerVars, end, toRelay, missed>>
    /\ channelCounter' \in {channelCounter, channelCounter + 1}
    /\ \A r \in Conns \ {s} :
         spc'[r] = spc[r] /\ scur'[r] = scur[r] /\ here'[r] = here[r]
    /\ here'[s] => here[s]
    /\ spc[s] = "ended" => spc'[s] = "ended"

LEMMA SshIsAlone ==
    ASSUME TypeOK, NEW s \in Conns, SshStep(s)
    PROVE  Alone(s) /\ Allocated \subseteq Allocated'
<1> USE DEF clientVars, chanVars, sshVars, readerVars, netVars, endVars, opVars, viewVars,
        lossVars
<1> DEFINE Quiet == UNCHANGED <<alive, readerVars, end, toRelay, missed>>
           Spc == (spc[s] # "ended" /\ \E place : SpcTo(s, place)) \/ UNCHANGED spc
           Scur == (\E ch : scur' = [scur EXCEPT ![s] = ch]) \/ UNCHANGED scur
           Here == here' = [here EXCEPT ![s] = FALSE] \/ UNCHANGED here
           Counter == channelCounter' \in {channelCounter, channelCounter + 1}
           Step == Quiet /\ Spc /\ Scur /\ Here /\ Counter
<1>1. ASSUME NEW k \in Kinds, OpenRegister(s, k) PROVE Step
  BY <1>1 DEF OpenRegister
<1>2. ASSUME NEW ch \in Chans, OperatorSends(s, ch) PROVE Step
  BY <1>2 DEF OperatorSends, FromOperator
<1>3. ASSUME NEW ch \in Chans, OperatorGrants(s, ch) \/ OperatorCloses(s, ch)
      PROVE  Step
  BY <1>3 DEF OperatorGrants, OperatorCloses, FromOperator
<1>4. ASSUME OpenSend(s) \/ OpenAnswered(s) \/ OpenExpires(s) \/ OpenForget(s)
      PROVE  Step
  BY <1>4 DEF OpenSend, OpenAnswered, OpenExpires, OpenForget
<1>5. ASSUME OpenBind(s) \/ OpenInsert(s) \/ CloseSend(s) \/ CloseForget(s) \/ LoopEnds(s)
      PROVE  Step
  BY <1>5 DEF OpenBind, OpenInsert, CloseSend, CloseForget, LoopEnds
<1>6. ASSUME OpenRefuse(s) \/ OpenConfirm(s) \/ SendReply(s) \/ CloseReply(s)
      PROVE  Step
  BY <1>6 DEF OpenRefuse, OpenConfirm, SendReply, SendFailure, CloseReply, Reply
<1>7. ASSUME OperatorLeaves(s) \/ SendFailure(s)
      PROVE  Step
  BY <1>7 DEF OperatorLeaves, SendFailure
<1>8. Step
  BY <1>1, <1>2, <1>3, <1>4, <1>5, <1>6, <1>7 DEF SshStep, SshGoesOn
<1>9. \A r \in Conns \ {s} : spc'[r] = spc[r] /\ scur'[r] = scur[r] /\ here'[r] = here[r]
  BY <1>8 DEF SpcTo, TypeOK
<1>10. (here'[s] => here[s]) /\ (spc[s] = "ended" => spc'[s] = "ended")
  BY <1>8 DEF TypeOK
<1>11. Alone(s)
  BY <1>8, <1>9, <1>10 DEF Alone
<1> QED
  <2>1. channelCounter \in Nat /\ \A ch \in Chans : ch \in Nat
    BY BoundsAssumption DEF Chans, TypeOK
  <2>2. \A ch \in Chans : ch < channelCounter => ch < channelCounter'
    BY <1>11, <2>1 DEF Alone
  <2> QED
    BY <1>11, <2>2 DEF Allocated, Chans

\* It takes every channel forward but one that it opens.
LEMMA SshForward ==
    ASSUME TypeOK, ViewsOK, HandsOK, NEW s \in Conns, SshStep(s), NEW c \in Chans,
           c = scur[s] => spc[s] \notin {"open_bind", "open_refuse", "open_confirm"},
           \A k \in Kinds : OpenRegister(s, k) => c # channelCounter
    PROVE  Forward(c)
<1> USE DEF clientVars, chanVars, sshVars, readerVars, netVars, endVars, opVars, viewVars,
        lossVars, Forward
<1>0. /\ owner \in [Chans -> Conns \cup {NoOwner}] /\ bound \in [Chans -> BOOLEAN]
      /\ opView \in [Chans -> Views] /\ closed \in [Chans -> BOOLEAN]
      /\ c \in Chans
      /\ spc[s] \notin {"loop", "ended"} => scur[s] \in Chans
  BY DEF TypeOK, HandsOK, HandOK, Allocated
<1>1. ASSUME NEW k \in Kinds, OpenRegister(s, k) PROVE Forward(c)
  BY <1>0, <1>1 DEF OpenRegister
<1>2. ASSUME NEW ch \in Chans, OperatorSends(s, ch) \/ OperatorGrants(s, ch) PROVE Forward(c)
  BY <1>0, <1>2 DEF OperatorSends, OperatorGrants
<1>3. ASSUME NEW ch \in Chans, OperatorCloses(s, ch) PROVE Forward(c)
  BY <1>0, <1>3 DEF OperatorCloses
<1>4. CASE OpenSend(s) \/ OpenAnswered(s) \/ OpenExpires(s) \/ OpenForget(s)
  BY <1>0, <1>4 DEF OpenSend, OpenAnswered, OpenExpires, OpenForget
<1>5. CASE OpenBind(s)
  BY <1>0, <1>5 DEF OpenBind
<1>6. CASE OpenInsert(s) \/ CloseSend(s) \/ CloseForget(s) \/ LoopEnds(s) \/ OperatorLeaves(s)
  BY <1>0, <1>6 DEF OpenInsert, CloseSend, CloseForget, LoopEnds, OperatorLeaves
<1>7. ASSUME NEW msg, NEW next, Reply(s, msg, next), scur[s] \in Chans,
             c = scur[s] => After(msg, opView[c]) \in {opView[c], "closed"} /\ bound[c]
      PROVE  opView'[c] = opView[c] \/ (bound[c] /\ opView'[c] = "closed")
  <2>1. CASE Written(s, scur[s], msg)
    <3>1. CASE c = scur[s]
      BY <1>7, <2>1, <3>1, ToldView
    <3>2. CASE c # scur[s]
      BY <1>0, <1>7, <2>1, <3>2, ToldView
    <3> QED
      BY <3>1, <3>2
  <2>2. CASE UNCHANGED viewVars
    BY <2>2
  <2> QED
    BY <1>7, <2>1, <2>2 DEF Reply
<1>8. CASE OpenRefuse(s)
  BY <1>0, <1>7, <1>8 DEF OpenRefuse
<1>9. CASE OpenConfirm(s)
  BY <1>0, <1>7, <1>9 DEF OpenConfirm
<1>10. ASSUME spc[s] \in {"send_reply", "close_reply"} PROVE bound[scur[s]]
  BY <1>0, <1>10 DEF HandsOK, HandOK, ViewsOK, ClosingPlaces
<1>11. CASE SendReply(s)
  <2>1. Reply(s, "reply", "loop") \/ UNCHANGED viewVars
    BY <1>11 DEF SendReply
  <2>2. opView'[c] = opView[c] \/ (bound[c] /\ opView'[c] = "closed")
    BY <1>0, <1>7, <1>10, <1>11, <2>1 DEF SendReply, SendFailure, After
  <2> QED
    BY <1>11, <2>2 DEF SendReply
<1>13. CASE SendFailure(s)
  BY <1>13, FailureTells DEF SendFailure
<1>12. CASE CloseReply(s)
  <2>1. opView'[c] = opView[c] \/ (bound[c] /\ opView'[c] = "closed")
    BY <1>0, <1>7, <1>10, <1>12 DEF CloseReply, After
  <2> QED
    BY <1>12, <2>1 DEF CloseReply
<1> QED
  BY <1>1, <1>2, <1>3, <1>4, <1>5, <1>6, <1>8, <1>9, <1>11, <1>12, <1>13 DEF SshStep, SshGoesOn

\* What an SSH thread does to a channel that was asked for, even while it opens it.
LEMMA AllocatedOnly ==
    ASSUME TypeOK, ViewsOK, HandsOK, NEW s \in Conns, SshStep(s), NEW c \in Allocated
    PROVE  /\ owner'[c] = owner[c]
           /\ bound[c] => bound'[c]
           /\ closed[c] => closed'[c]
<1> USE DEF clientVars, chanVars, sshVars, readerVars, netVars, endVars, opVars, viewVars,
        lossVars
<1>1. c \in Chans /\ c # channelCounter /\ c \in Nat
  BY BoundsAssumption DEF Allocated, Chans, TypeOK
<1>2. CASE c = scur[s] /\ spc[s] \in {"open_bind", "open_refuse", "open_confirm"}
  <2>1. OpenBind(s) \/ OpenRefuse(s) \/ OpenConfirm(s) \/ OperatorLeaves(s)
    BY <1>2 DEF SshStep, SshGoesOn, OperatorSends, OperatorGrants, OperatorCloses, OpenRegister,
       FromOperator, OpenSend, OpenAnswered, OpenExpires, OpenForget, OpenInsert, SendReply, SendFailure,
       CloseSend, CloseForget, CloseReply, LoopEnds
  <2> QED
    BY <1>1, <2>1 DEF OpenBind, OpenRefuse, OpenConfirm, OperatorLeaves, TypeOK
<1>3. CASE ~(c = scur[s] /\ spc[s] \in {"open_bind", "open_refuse", "open_confirm"})
  <2>1. Forward(c)
    BY <1>1, <1>3, SshForward
  <2> QED
    BY <2>1 DEF Forward
<1> QED
  BY <1>2, <1>3

\* The client's reader takes every channel forward, and lets the SSH threads be.
ReaderAlone ==
    /\ UNCHANGED <<sshVars, opVars, end, toClient, channelCounter>>
    /\ \A c \in Chans : Forward(c)

LEMMA ReaderIsAlone ==
    ASSUME TypeOK, WiresOK, ViewsOK, ReaderOK, ReaderGoesOn
    PROVE  ReaderAlone
<1> USE DEF clientVars, chanVars, sshVars, readerVars, netVars, endVars, opVars, viewVars,
        lossVars, Forward, ReaderAlone
<1>0. /\ owner \in [Chans -> Conns \cup {NoOwner}] /\ bound \in [Chans -> BOOLEAN]
      /\ opView \in [Chans -> Views] /\ closed \in [Chans -> BOOLEAN]
  BY DEF TypeOK
<1>1. CASE ReadConfirm \/ ReadData \/ ReadEof
  BY <1>1 DEF ReadConfirm, ReadData, ReadEof, ReadForChannel
<1>2. CASE ReadClose
  BY <1>0, <1>2 DEF ReadClose, RemoteClose
<1>3. CASE TellChannel
  BY <1>0, <1>3 DEF TellChannel, RemoteClose
<1>4. CASE Reserve \/ ReserveFails \/ Unroute \/ Forget \/ ReadEnd
  BY <1>4 DEF Reserve, ReserveFails, Unroute, Forget, ReadEnd
<1>5. CASE CloseClient \/ ListChannels \/ AllTold
  BY <1>5 DEF CloseClient, ListChannels, AllTold
<1>6. ASSUME NEW msg \in {"data", "eof", "close"}, NEW from \in WritingPlaces, NEW next,
             ReaderWrites(msg, from, next)
      PROVE  ReaderAlone
  <2>1. rch \in Chans /\ bound[rch]
    BY <1>6 DEF ReaderWrites, ReaderOK, Allocated
  <2>2. ASSUME NEW c \in Chans PROVE opView'[c] = opView[c] \/ (bound[c] /\ opView'[c] = "closed")
    <3>1. CASE Written(owner[rch], rch, msg)
      BY <1>6, <2>1, <3>1, ToldView DEF After
    <3>2. CASE UNCHANGED viewVars
      BY <3>2
    <3> QED
      BY <1>6, <3>1, <3>2 DEF ReaderWrites
  <2> QED
    BY <1>6, <2>2 DEF ReaderWrites
<1>7. CASE WriteData \/ WriteEof \/ WriteClose
  BY <1>6, <1>7 DEF WriteData, WriteEof, WriteClose, WritingPlaces
<1> QED
  BY <1>1, <1>2, <1>3, <1>4, <1>5, <1>7 DEF ReaderGoesOn

\* The rest of the world changes nothing at the relay.
LEMMA OutsideStays ==
    ASSUME OutsideStep
    PROVE  UNCHANGED <<clientVars, chanVars, sshVars, readerVars, opVars, viewVars, lossVars>>
  BY DEF OutsideStep, ClientGoesOn, ClientOpens, ClientTakes, ClientCloses, EndEmits,
     EndFinishes, LinkFails

-----------------------------------------------------------------------------
\* Frames are about channels that were asked for.
LEMMA SshKeepsWires ==
    ASSUME TypeOK, WiresOK, ViewsOK, HandsOK, NEW s \in Conns, SshStep(s)
    PROVE  WiresOK'
<1> USE DEF clientVars, chanVars, sshVars, readerVars, netVars, endVars, opVars, viewVars,
        lossVars
<1>1. Allocated \subseteq Allocated' /\ UNCHANGED <<toRelay, end>>
  BY SshIsAlone DEF Alone
<1>2. \A q \in Seq(Frames \X Allocated) : q \in Seq(Frames \X Allocated')
  BY <1>1, SeqMonotonic
<1>3. "open" \in Frames /\ "close" \in Frames /\ "data" \in Frames
  BY DEF Frames
<1>4. spc[s] \notin {"loop", "ended"} => scur[s] \in Allocated
  BY DEF HandsOK, HandOK
<1>5. ASSUME NEW type \in Frames, NEW ch \in Allocated, Framed(type, ch) \/ UNCHANGED toClient
      PROVE  toClient' \in Seq(Frames \X Allocated)
  BY <1>5, FramedKeepsType DEF WiresOK
<1>6. ASSUME OpenSend(s) \/ CloseSend(s) PROVE toClient' \in Seq(Frames \X Allocated)
  BY <1>3, <1>4, <1>5, <1>6 DEF OpenSend, CloseSend
<1>7. ASSUME NEW ch \in Chans, OperatorSends(s, ch)
      PROVE  toClient' \in Seq(Frames \X Allocated)
  <2>1. ch \in Allocated
    BY <1>7 DEF OperatorSends, FromOperator, ViewsOK
  <2> QED
    BY <1>3, <1>5, <1>7, <2>1 DEF OperatorSends
<1>8. ASSUME \/ \E k \in Kinds : OpenRegister(s, k)
             \/ \E ch \in Chans : OperatorGrants(s, ch) \/ OperatorCloses(s, ch)
             \/ OperatorLeaves(s) \/ OpenAnswered(s) \/ OpenExpires(s) \/ OpenForget(s)
             \/ OpenRefuse(s) \/ OpenBind(s) \/ OpenInsert(s) \/ OpenConfirm(s)
             \/ SendReply(s) \/ SendFailure(s)
             \/ CloseForget(s) \/ CloseReply(s) \/ LoopEnds(s)
      PROVE  UNCHANGED toClient
  BY <1>8 DEF OpenRegister, OperatorGrants, OperatorCloses, OperatorLeaves, OpenAnswered,
     OpenExpires, OpenForget, OpenRefuse, OpenBind, OpenInsert, OpenConfirm, SendReply, SendFailure,
     CloseForget, CloseReply, LoopEnds
<1>9. toClient' \in Seq(Frames \X Allocated)
  BY <1>6, <1>7, <1>8 DEF SshStep, SshGoesOn, WiresOK
<1> QED
  BY <1>1, <1>2, <1>9 DEF WiresOK

LEMMA ReaderKeepsWires ==
    ASSUME TypeOK, WiresOK, ViewsOK, ReaderOK, ReaderGoesOn
    PROVE  WiresOK'
<1> USE DEF netVars
<1>1. ReaderAlone
  BY ReaderIsAlone
<1>2. Allocated' = Allocated /\ UNCHANGED <<end, toClient>>
  BY <1>1 DEF ReaderAlone, Allocated
<1>3. (\E type \in Frames : Reads(type)) \/ UNCHANGED toRelay
  BY DEF ReaderGoesOn, ReadConfirm, ReadData, ReadEof, ReadForChannel, ReadClose, Reserve,
     ReserveFails, WriteData, WriteEof, WriteClose, ReaderWrites, Unroute, Forget, ReadEnd,
     CloseClient, ListChannels, TellChannel, AllTold, Frames
<1>4. toRelay' \in Seq(Frames \X Allocated)
  BY <1>3, ReadsOne DEF WiresOK
<1> QED
  BY <1>2, <1>4 DEF WiresOK

\* What an operator knows goes with the state of the channel.
LEMMA SshKeepsViews ==
    ASSUME TypeOK, ViewsOK, HandsOK, NEW s \in Conns, SshStep(s)
    PROVE  ViewsOK'
<1> USE DEF clientVars, chanVars, sshVars, readerVars, netVars, endVars, opVars, viewVars,
        lossVars
<1> DEFINE OK(c) ==
        /\ bound[c] => c \in Allocated /\ opView[c] \in {"asked", "open", "closed"}
        /\ opView[c] \in {"open", "closed"} => bound[c]
        /\ c \in Allocated => owner[c] \in Conns
<1>1. SUFFICES ASSUME NEW c \in Chans PROVE OK(c)'
  BY DEF ViewsOK
<1>2. OK(c) /\ Allocated \subseteq Allocated'
  BY SshIsAlone DEF ViewsOK
<1>3. /\ bound \in [Chans -> BOOLEAN] /\ opView \in [Chans -> Views]
      /\ owner \in [Chans -> Conns \cup {NoOwner}]
  BY DEF TypeOK
<1>4. ASSUME NEW k \in Kinds, OpenRegister(s, k) PROVE OK(c)'
  <2>1. c # channelCounter => (c \in Allocated' <=> c \in Allocated)
    <3>1. c \in Nat /\ channelCounter \in Nat /\ channelCounter' = channelCounter + 1
      BY <1>4, BoundsAssumption DEF OpenRegister, TypeOK, Chans
    <3> QED
      BY <3>1 DEF Allocated, Chans
  <2>2. c # channelCounter => UNCHANGED <<bound[c], opView[c], owner[c]>>
    BY <1>3, <1>4 DEF OpenRegister
  <2>3. c = channelCounter => ~bound[c] /\ bound' = bound /\ opView'[c] = "asked" /\ owner'[c] = s
    <3>1. channelCounter \notin Allocated
      BY DEF Allocated, TypeOK
    <3> QED
      BY <1>2, <1>3, <1>4, <3>1 DEF OpenRegister
  <2> QED
    BY <1>2, <2>1, <2>2, <2>3
<1>5. CASE \A k \in Kinds : ~OpenRegister(s, k)
  <2>1. Allocated' = Allocated
    <3>1. channelCounter' = channelCounter
      BY <1>5 DEF SshStep, SshGoesOn, OperatorSends, OperatorGrants, OperatorCloses, OperatorLeaves,
         OpenSend, OpenAnswered, OpenExpires, OpenForget, OpenRefuse, OpenBind, OpenInsert,
         OpenConfirm, SendReply, SendFailure, CloseSend, CloseForget, CloseReply, LoopEnds
    <3> QED
      BY <3>1 DEF Allocated
  <2>2. CASE Forward(c)
    BY <1>2, <2>1, <2>2 DEF Forward
  <2>3. CASE c = scur[s] /\ spc[s] \in {"open_bind", "open_refuse", "open_confirm"}
    <3>0. c \in Allocated /\ HandOK(s)
      BY <2>3 DEF HandsOK, HandOK
    <3>1. OpenBind(s) \/ OpenRefuse(s) \/ OpenConfirm(s) \/ OperatorLeaves(s)
      BY <1>5, <2>3 DEF SshStep, SshGoesOn, OperatorSends, OperatorGrants, OperatorCloses,
         FromOperator, OpenSend, OpenAnswered, OpenExpires, OpenForget, OpenInsert, SendReply, SendFailure,
         CloseSend, CloseForget, CloseReply, LoopEnds
    <3>2. CASE OpenBind(s)
      BY <1>2, <1>3, <2>1, <2>3, <3>0, <3>2 DEF OpenBind, HandOK, AskingPlaces
    <3>3. CASE OpenRefuse(s)
      <4>1. opView'[c] \in {"asked", "refused"} /\ ~bound[c]
        <5>1. After("refused", opView[c]) = "refused"
          BY DEF After
        <5>2. c \in Chans /\ Reply(s, "refused", "loop") /\ opView[c] = "asked" /\ ~bound[c]
          BY <2>3, <3>0, <3>3 DEF OpenRefuse, HandOK, AskingPlaces
        <5> QED
          BY <2>3, <5>1, <5>2, ReplyView
      <4> QED
        BY <1>2, <2>1, <3>3, <4>1 DEF OpenRefuse
    <3>4. CASE OpenConfirm(s)
      <4>1. opView'[c] \in {"asked", "open", "closed"} /\ bound[c]
        <5>1. After("opened", opView[c]) = "open"
          BY DEF After
        <5>2. c \in Chans /\ Reply(s, "opened", "loop") /\ opView[c] \in {"asked", "closed"} /\ bound[c]
          BY <2>3, <3>0, <3>4 DEF OpenConfirm, HandOK, BoundPlaces
        <5> QED
          BY <2>3, <5>1, <5>2, ReplyView
      <4> QED
        BY <1>2, <2>1, <3>4, <4>1 DEF OpenConfirm
    <3>5. CASE OperatorLeaves(s)
      BY <1>2, <2>1, <3>5 DEF OperatorLeaves
    <3> QED
      BY <3>1, <3>2, <3>3, <3>4, <3>5
  <2> QED
    BY <1>5, <2>2, <2>3, SshForward
<1> QED
  BY <1>4, <1>5

LEMMA ReaderKeepsViews ==
    ASSUME TypeOK, WiresOK, ViewsOK, ReaderOK, ReaderGoesOn
    PROVE  ViewsOK'
<1>1. ReaderAlone
  BY ReaderIsAlone
<1> QED
  BY <1>1 DEF ReaderAlone, ViewsOK, Forward, Allocated

\* A hand is kept while its channel goes forward and its thread does not go far.
Near(from, to) ==
    \/ to \in {"loop", "ended"}
    \/ from \in AskingPlaces /\ to \in AskingPlaces
    \/ from \in BoundPlaces /\ to \in BoundPlaces
    \/ from \in ClosingPlaces /\ to \in ClosingPlaces
    \/ from = to

LEMMA HandKept ==
    ASSUME TypeOK, NEW s \in Conns, HandOK(s), scur'[s] = scur[s], Near(spc[s], spc'[s]),
           Allocated \subseteq Allocated',
           spc[s] \notin {"loop", "ended"} => Forward(scur[s]),
           spc'[s] \in {"open_refuse", "close_reply"} => scur[s] \notin channels'
    PROVE  HandOK(s)'
<1> USE DEF AskingPlaces, BoundPlaces, ClosingPlaces
<1>1. CASE spc'[s] \in {"loop", "ended"}
  BY <1>1 DEF HandOK
<1>2. CASE spc'[s] \notin {"loop", "ended"}
  <2>1. spc[s] \notin {"loop", "ended"} /\ Forward(scur[s])
    BY <1>2 DEF Near
  <2>2. scur[s] \in Allocated' /\ owner'[scur[s]] = s
    BY <2>1 DEF HandOK, Forward
  <2>3. CASE spc[s] \in AskingPlaces
    <3>1. spc'[s] \in AskingPlaces
      BY <1>2, <2>3 DEF Near
    <3>2. ~bound'[scur[s]] /\ opView'[scur[s]] = "asked"
      BY <2>1, <2>3 DEF HandOK, Forward
    <3> QED
      BY <2>2, <3>1, <3>2 DEF HandOK
  <2>4. CASE spc[s] \in BoundPlaces
    <3>1. spc'[s] \in BoundPlaces
      BY <1>2, <2>4 DEF Near
    <3>2. bound'[scur[s]] /\ opView'[scur[s]] \in {"asked", "closed"}
      BY <2>1, <2>4 DEF HandOK, Forward
    <3> QED
      BY <2>2, <3>1, <3>2 DEF HandOK
  <2>5. CASE spc[s] \in ClosingPlaces
    <3>1. spc'[s] \in ClosingPlaces
      BY <1>2, <2>5 DEF Near
    <3>2. closed'[scur[s]] /\ opView'[scur[s]] \in {"open", "closed"}
      BY <2>1, <2>5 DEF HandOK, Forward
    <3> QED
      BY <2>2, <3>1, <3>2 DEF HandOK
  <2>6. CASE spc[s] \notin AskingPlaces \cup BoundPlaces \cup ClosingPlaces
    <3>1. spc'[s] = spc[s] /\ spc[s] \in {"send_reply", "send_failure"}
      BY <1>2, <2>6 DEF Near, TypeOK, SPlaces
    <3>2. opView'[scur[s]] \in {"open", "closed"}
      BY <2>1, <3>1 DEF HandOK, Forward
    <3> QED
      BY <2>2, <3>1, <3>2 DEF HandOK
  <2> QED
    BY <2>3, <2>4, <2>5, <2>6
<1> QED
  BY <1>1, <1>2

\* What a thread knows of the channel it has in hand, it goes on knowing.
LEMMA SshKeepsHands ==
    ASSUME TypeOK, ViewsOK, HandsOK, NEW s \in Conns, SshStep(s)
    PROVE  HandsOK'
<1> USE DEF clientVars, chanVars, sshVars, readerVars, netVars, endVars, opVars, viewVars,
        lossVars
<1>1. Allocated \subseteq Allocated' /\ Alone(s)
  BY SshIsAlone
<1>2. ASSUME NEW c \in Allocated,
             c = scur[s] => spc[s] \notin {"open_bind", "open_refuse", "open_confirm"}
      PROVE  Forward(c)
  <2>1. c \in Chans /\ c # channelCounter
    BY BoundsAssumption DEF Allocated, Chans, TypeOK
  <2> QED
    BY <1>2, <2>1, SshForward
<1>3. ASSUME NEW r \in Conns, r # s PROVE HandOK(r)'
  <2>1. HandOK(r) /\ spc'[r] = spc[r] /\ scur'[r] = scur[r]
    BY <1>1, <1>3 DEF HandsOK, Alone
  <2>2. ASSUME spc[r] \notin {"loop", "ended"} PROVE Forward(scur[r])
    <3>1. scur[r] \in Allocated /\ owner[scur[r]] = r
      BY <2>1, <2>2 DEF HandOK
    <3>2. scur[r] = scur[s] => spc[s] \in {"loop", "ended"}
      BY <1>3, <3>1 DEF HandsOK, HandOK
    <3> QED
      BY <1>2, <3>1, <3>2
  <2>3. spc'[r] \in {"open_refuse", "close_reply"} => scur[r] \notin channels'
    <3>1. scur[r] \in channels' /\ Forward(scur[r]) => scur[r] \in channels
      BY DEF Forward
    <3> QED
      BY <2>1, <2>2, <3>1 DEF HandOK
  <2> QED
    BY <1>1, <2>1, <2>2, <2>3, HandKept DEF Near
<1>4. HandOK(s)'
  <2>0. HandOK(s) /\ spc \in [Conns -> SPlaces] /\ scur \in [Conns -> Nat]
    BY DEF HandsOK, TypeOK
  <2>1. ASSUME Near(spc[s], spc'[s]), scur' = scur,
               spc[s] \notin {"open_bind", "open_refuse", "open_confirm"},
               spc'[s] \in {"open_refuse", "close_reply"} => scur[s] \notin channels'
        PROVE  HandOK(s)'
    BY <1>1, <1>2, <2>0, <2>1, HandKept DEF HandOK
  <2>2. ASSUME spc'[s] \in {"loop", "ended"} PROVE HandOK(s)'
    BY <2>2 DEF HandOK, AskingPlaces, BoundPlaces, ClosingPlaces
  <2>3. ASSUME NEW k \in Kinds, OpenRegister(s, k) PROVE HandOK(s)'
    <3>1. channelCounter \in Allocated' /\ channelCounter \notin Allocated /\ channelCounter \in Chans
      BY <2>3, BoundsAssumption DEF OpenRegister, Allocated, TypeOK, Chans
    <3>2. /\ spc'[s] = "open_send" /\ scur'[s] = channelCounter /\ bound' = bound
          /\ owner'[channelCounter] = s /\ opView'[channelCounter] = "asked"
      BY <2>0, <2>3, <3>1 DEF OpenRegister, SpcTo, TypeOK
    <3>3. ~bound[channelCounter]
      BY <3>1 DEF ViewsOK
    <3> QED
      BY <3>1, <3>2, <3>3 DEF HandOK, AskingPlaces, BoundPlaces, ClosingPlaces
  <2>4. CASE OpenSend(s)
    <3>1. spc[s] = "open_send" /\ spc'[s] \in {"open_wait", "ended"} /\ scur' = scur
      BY <2>0, <2>4 DEF OpenSend, SpcTo
    <3> QED
      BY <2>1, <3>1 DEF Near, AskingPlaces
  <2>5. CASE OpenAnswered(s)
    <3>1. /\ spc[s] = "open_wait" /\ spc'[s] \in {"open_bind", "open_refuse"} /\ scur' = scur
          /\ spc'[s] = "open_refuse" => scur[s] \notin channels'
      BY <2>0, <2>5 DEF OpenAnswered, SpcTo
    <3> QED
      BY <2>1, <3>1 DEF Near, AskingPlaces
  <2>6. CASE OpenExpires(s)
    <3>1. spc[s] = "open_wait" /\ spc'[s] = "open_expired" /\ scur' = scur
      BY <2>0, <2>6 DEF OpenExpires, SpcTo
    <3> QED
      BY <2>1, <3>1 DEF Near, AskingPlaces
  <2>7. CASE OpenForget(s)
    <3>1. /\ spc[s] = "open_expired" /\ spc'[s] = "open_refuse" /\ scur' = scur
          /\ scur[s] \notin channels'
      BY <2>0, <2>7 DEF OpenForget, SpcTo
    <3> QED
      BY <2>1, <3>1 DEF Near, AskingPlaces
  <2>8. CASE OpenBind(s)
    <3>1. /\ spc[s] = "open_bind" /\ spc'[s] = "open_insert" /\ scur' = scur
          /\ scur[s] \in Allocated /\ owner[scur[s]] = s /\ opView[scur[s]] = "asked"
      BY <2>0, <2>8 DEF OpenBind, SpcTo, HandOK, AskingPlaces
    <3>2. bound'[scur[s]] /\ UNCHANGED <<owner, opView>>
      BY <2>8, <3>1 DEF OpenBind, TypeOK, Allocated
    <3> QED
      BY <1>1, <3>1, <3>2 DEF HandOK, AskingPlaces, BoundPlaces, ClosingPlaces
  <2>9. CASE OpenInsert(s)
    <3>1. spc[s] = "open_insert" /\ spc'[s] = "open_confirm" /\ scur' = scur
      BY <2>0, <2>9 DEF OpenInsert, SpcTo
    <3> QED
      BY <2>1, <3>1 DEF Near, BoundPlaces
  <2>10. CASE \/ OpenRefuse(s) \/ OpenConfirm(s) \/ CloseReply(s)
              \/ SendReply(s) \/ SendFailure(s) \/ LoopEnds(s)
    <3>1. spc'[s] \in {"loop", "ended"}
      BY <2>0, <2>10, FailureTells DEF OpenRefuse, OpenConfirm, CloseReply, SendReply, LoopEnds,
         Reply, SpcTo
    <3> QED
      BY <2>2, <3>1
  <2>11. CASE CloseSend(s)
    <3>1. spc[s] = "close_send" /\ spc'[s] \in {"close_forget", "ended"} /\ scur' = scur
      BY <2>0, <2>11 DEF CloseSend, SpcTo
    <3> QED
      BY <2>1, <3>1 DEF Near, ClosingPlaces
  <2>12. CASE CloseForget(s)
    <3>1. /\ spc[s] = "close_forget" /\ spc'[s] = "close_reply" /\ scur' = scur
          /\ scur[s] \notin channels'
      BY <2>0, <2>12 DEF CloseForget, SpcTo
    <3> QED
      BY <2>1, <3>1 DEF Near, ClosingPlaces
  <2>13. CASE OperatorLeaves(s)
    <3>1. spc' = spc /\ scur' = scur /\ UNCHANGED <<channelCounter, bound, opView, owner, closed, channels>>
      BY <2>13 DEF OperatorLeaves
    <3> QED
      BY <2>0, <3>1 DEF HandOK, Allocated
  <2>14. ASSUME NEW ch \in Chans, OperatorSends(s, ch) \/ OperatorGrants(s, ch) \/ OperatorCloses(s, ch)
         PROVE  HandOK(s)'
    <3>1. /\ spc[s] = "loop" /\ owner[ch] = s /\ opView[ch] \in {"open", "closed"}
          /\ ch \in Allocated
      BY <2>14 DEF OperatorSends, OperatorGrants, OperatorCloses, FromOperator, ViewsOK
    <3>2. CASE spc'[s] \in {"loop", "ended"}
      BY <2>2, <3>2
    <3>3. CASE OperatorSends(s, ch) /\ spc'[s] \notin {"loop", "ended"}
      <4>1. spc'[s] \in {"send_reply", "send_failure"} /\ scur'[s] = ch /\ UNCHANGED <<owner, opView>>
        BY <2>0, <3>1, <3>3 DEF OperatorSends, SpcTo
      <4> QED
        BY <1>1, <3>1, <4>1 DEF HandOK, AskingPlaces, BoundPlaces, ClosingPlaces
    <3>4. CASE OperatorCloses(s, ch) /\ spc'[s] \notin {"loop", "ended"}
      <4>1. /\ spc'[s] = "close_send" /\ scur'[s] = ch /\ UNCHANGED <<owner, opView>>
            /\ closed'[ch]
        BY <2>0, <3>1, <3>4 DEF OperatorCloses, SpcTo, TypeOK
      <4> QED
        BY <1>1, <3>1, <4>1 DEF HandOK, AskingPlaces, BoundPlaces, ClosingPlaces
    <3>5. OperatorGrants(s, ch) => spc'[s] = "loop"
      BY <3>1 DEF OperatorGrants
    <3> QED
      BY <2>14, <3>2, <3>3, <3>4, <3>5
  <2> QED
    BY <2>3, <2>4, <2>5, <2>6, <2>7, <2>8, <2>9, <2>10, <2>11, <2>12, <2>13, <2>14
       DEF SshStep, SshGoesOn
<1> QED
  BY <1>3, <1>4 DEF HandsOK

LEMMA ReaderKeepsHands ==
    ASSUME TypeOK, WiresOK, ViewsOK, HandsOK, ReaderOK, ReaderGoesOn
    PROVE  HandsOK'
<1>1. ReaderAlone
  BY ReaderIsAlone
<1>2. Allocated' = Allocated /\ UNCHANGED <<spc, scur>>
  BY <1>1 DEF ReaderAlone, Allocated, sshVars
<1>3. ASSUME NEW s \in Conns PROVE HandOK(s)'
  <2>1. HandOK(s)
    BY DEF HandsOK
  <2>2. spc[s] \notin {"loop", "ended"} => scur[s] \in Chans /\ Forward(scur[s])
    BY <1>1, <2>1 DEF HandOK, ReaderAlone, Allocated
  <2>3. spc'[s] \in {"open_refuse", "close_reply"} => scur[s] \notin channels'
    BY <1>2, <2>1, <2>2 DEF HandOK, Forward
  <2> QED
    BY <1>2, <2>1, <2>2, <2>3, HandKept DEF Near
<1> QED
  BY <1>3 DEF HandsOK

\* What the reader knows of its channel, it goes on knowing.
LEMMA SshKeepsReader ==
    ASSUME TypeOK, ViewsOK, HandsOK, ReaderOK, NEW s \in Conns, SshStep(s)
    PROVE  ReaderOK'
<1>1. Alone(s) /\ Allocated \subseteq Allocated'
  BY SshIsAlone
<1>2. rpc' = rpc /\ rch' = rch /\ alive' = alive
  BY <1>1 DEF Alone, readerVars
<1>3. ASSUME rch \in Allocated PROVE (bound[rch] => bound'[rch]) /\ (closed[rch] => closed'[rch])
  BY <1>3, AllocatedOnly
<1> QED
  BY <1>1, <1>2, <1>3 DEF ReaderOK, WritingPlaces, TellingPlaces

LEMMA ReaderKeepsReader ==
    ASSUME TypeOK, WiresOK, ViewsOK, OffTheTable, ReaderOK, ReaderGoesOn
    PROVE  ReaderOK'
<1> USE DEF clientVars, chanVars, sshVars, readerVars, netVars, endVars, opVars, viewVars,
        lossVars, ReaderTo, WritingPlaces, TellingPlaces, Raise, Back
<1>1. ReaderAlone
  BY ReaderIsAlone
<1>2. Allocated' = Allocated /\ \A c \in Allocated : bound'[c] = bound[c] /\ (closed[c] => closed'[c])
  BY <1>1 DEF ReaderAlone, Allocated, Forward
<1>3. ASSUME NEW type, NEW place \in {"reserving", "writing_eof"}, ReadForChannel(type, place)
      PROVE  ReaderOK'
  <2>1. NextFrame[2] \in Allocated
    BY <1>3, ReadsOne DEF ReadForChannel
  <2>2. rpc = "reading" /\ alive' = alive
    BY <1>3 DEF ReadForChannel, Reads
  <2> QED
    BY <1>2, <1>3, <2>1, <2>2 DEF ReadForChannel, ReaderOK
<1>4. ASSUME NEW ch \in Allocated, RemoteClose(ch), rpc' \notin {"listing", "telling", "dead"}
      PROVE  ReaderOK'
  <2>1. closed'[ch] /\ rch' = ch /\ bound' = bound
    BY <1>4 DEF RemoteClose, TypeOK, Allocated
  <2>2. rpc' = IF bound[ch] THEN "unrouting" ELSE "forgetting"
    BY <1>4 DEF RemoteClose
  <2> QED
    BY <1>2, <2>1, <2>2 DEF ReaderOK
<1>5. CASE ReadClose
  <2>1. NextFrame[2] \in Allocated /\ rpc = "reading"
    BY <1>5, ReadsOne DEF ReadClose, Reads
  <2>2. CASE NextFrame[2] \in channels
    BY <1>4, <1>5, <2>1, <2>2 DEF ReadClose, RemoteClose
  <2>3. CASE NextFrame[2] \notin channels
    BY <1>2, <1>5, <2>1, <2>3 DEF ReadClose, ReaderOK
  <2> QED
    BY <2>2, <2>3
<1>6. CASE TellChannel
  <2>1. PICK ch \in todo : RemoteClose(ch)
    BY <1>6 DEF TellChannel
  <2>2. ch \in Allocated
    BY DEF OffTheTable
  <2> QED
    BY <1>4, <2>1, <2>2 DEF RemoteClose
<1>7. ASSUME NEW msg, NEW from \in {"writing", "writing_eof"}, ReaderWrites(msg, from, "reading")
      PROVE  ReaderOK'
  BY <1>2, <1>7 DEF ReaderWrites, ReaderOK
<1>8. CASE WriteClose
  BY <1>2, <1>8 DEF WriteClose, ReaderWrites, ReaderOK
<1>9. CASE ReadConfirm \/ ReadEnd \/ CloseClient \/ ListChannels \/ AllTold
  BY <1>2, <1>9 DEF ReadConfirm, ReadEnd, CloseClient, ListChannels, AllTold, Reads, ReaderOK
<1>10. CASE Reserve \/ ReserveFails
  BY <1>2, <1>10 DEF Reserve, ReserveFails, ReaderOK
<1>11. CASE Unroute \/ Forget
  BY <1>2, <1>11 DEF Unroute, Forget, ReaderOK
<1>12. (ReadData \/ ReadEof \/ WriteData \/ WriteEof) => ReaderOK'
  BY <1>3, <1>7 DEF ReadData, ReadEof, WriteData, WriteEof
<1> QED
  BY <1>5, <1>6, <1>8, <1>9, <1>10, <1>11, <1>12 DEF ReaderGoesOn

-----------------------------------------------------------------------------
\* A channel that has come to an end stays there.
LEMMA SshKeepsFinished ==
    ASSUME TypeOK, ViewsOK, HandsOK, NEW s \in Conns, SshStep(s), NEW c \in Allocated, Finished(c)
    PROVE  Finished(c)'
<1> USE DEF Finished, InHand
<1>0. c \in Chans /\ c # channelCounter
  BY BoundsAssumption DEF Allocated, Chans, TypeOK
<1>1. /\ c \in Chans /\ c # channelCounter /\ owner[c] \in Conns
      /\ Alone(s) /\ owner'[c] = owner[c] /\ (closed[c] => closed'[c])
  BY <1>0, SshIsAlone, AllocatedOnly DEF ViewsOK
<1>2. CASE closed[c]
  BY <1>1, <1>2
<1>3. CASE opView[c] = "refused"
  <2>1. ~bound[c]
    BY <1>1, <1>3 DEF ViewsOK
  <2>2. c = scur[s] => spc[s] \notin {"open_bind", "open_refuse", "open_confirm"}
    BY <1>3 DEF HandsOK, HandOK, AskingPlaces, BoundPlaces
  <2>3. Forward(c)
    BY <1>1, <2>2, SshForward
  <2> QED
    BY <1>3, <2>1, <2>3 DEF Forward
<1>4. CASE ~here[owner[c]] \/ spc[owner[c]] = "ended"
  BY <1>1, <1>4 DEF Alone
<1>5. CASE InHand(c) /\ spc[owner[c]] = "open_refuse" /\ here[owner[c]]
  <2>1. CASE owner[c] # s
    BY <1>1, <1>5, <2>1 DEF Alone
  <2>2. CASE owner[c] = s
    <3>1. OpenRefuse(s) \/ OperatorLeaves(s)
      BY <1>5, <2>2 DEF SshStep, SshGoesOn, OperatorSends, OperatorGrants, OperatorCloses,
         OpenRegister, FromOperator, OpenSend, OpenAnswered, OpenExpires, OpenForget, OpenBind,
         OpenInsert, OpenConfirm, SendReply, SendFailure, CloseSend, CloseForget, CloseReply, LoopEnds
    <3>2. CASE OpenRefuse(s)
      <4>1. Reply(s, "refused", "loop") /\ scur[s] = c /\ After("refused", opView[c]) = "refused"
        BY <1>5, <2>2, <3>2 DEF OpenRefuse, After
      <4>2. spc'[s] # "ended" => opView'[c] = "refused"
        BY <1>1, <1>5, <2>2, <4>1, ReplyView
      <4> QED
        BY <1>1, <2>2, <4>2
    <3>3. CASE OperatorLeaves(s)
      BY <1>1, <2>2, <3>3 DEF OperatorLeaves, TypeOK
    <3> QED
      BY <3>1, <3>2, <3>3
  <2> QED
    BY <2>1, <2>2
<1> QED
  BY <1>2, <1>3, <1>4, <1>5

LEMMA ReaderKeepsFinished ==
    ASSUME TypeOK, WiresOK, ViewsOK, ReaderOK, ReaderGoesOn, NEW c \in Allocated, Finished(c)
    PROVE  Finished(c)'
<1>1. ReaderAlone /\ c \in Chans
  BY ReaderIsAlone DEF Allocated
<1>2. Forward(c) /\ UNCHANGED <<spc, scur, here>>
  BY <1>1 DEF ReaderAlone, sshVars, opVars
<1>3. opView[c] = "refused" => opView'[c] = "refused"
  BY <1>1, <1>2 DEF Forward, ViewsOK
<1> QED
  BY <1>2, <1>3 DEF Finished, InHand, Forward

\* An SSH thread takes only the channel it has in hand out of the client's
\* table, when the channel is refused or closed.
LEMMA SshTakesOut ==
    ASSUME TypeOK, ViewsOK, HandsOK, NEW s \in Conns, SshStep(s), NEW c \in channels, c \notin channels'
    PROVE  Finished(c)' /\ c = scur[s] /\ spc[s] \in {"open_wait", "open_expired", "close_forget"}
<1> USE DEF chanVars, SpcTo
<1>1. OpenAnswered(s) \/ OpenForget(s) \/ CloseForget(s)
  BY DEF SshStep, SshGoesOn, OperatorSends, OperatorGrants, OperatorCloses, OperatorLeaves,
     OpenRegister, OpenSend, OpenExpires, OpenBind, OpenInsert, OpenConfirm, OpenRefuse,
     SendReply, SendFailure, CloseSend, CloseReply, LoopEnds, clientVars
<1>2. HandOK(s) /\ spc \in [Conns -> SPlaces]
  BY DEF HandsOK, TypeOK
<1>3. CASE OpenAnswered(s)
  <2>1. /\ c = scur[s] /\ spc[s] = "open_wait" /\ spc'[s] = "open_refuse"
        /\ scur' = scur /\ owner' = owner
    BY <1>2, <1>3 DEF OpenAnswered
  <2>2. owner[c] = s
    BY <1>2, <2>1 DEF HandOK
  <2> QED
    BY <2>1, <2>2 DEF Finished, InHand
<1>4. CASE OpenForget(s)
  <2>1. /\ c = scur[s] /\ spc[s] = "open_expired" /\ spc'[s] = "open_refuse"
        /\ scur' = scur /\ owner' = owner
    BY <1>2, <1>4 DEF OpenForget
  <2>2. owner[c] = s
    BY <1>2, <2>1 DEF HandOK
  <2> QED
    BY <2>1, <2>2 DEF Finished, InHand
<1>5. CASE CloseForget(s)
  <2>1. c = scur[s] /\ spc[s] = "close_forget" /\ closed' = closed
    BY <1>5 DEF CloseForget
  <2>2. closed[c]
    BY <1>2, <2>1 DEF HandOK, ClosingPlaces
  <2> QED
    BY <2>1, <2>2 DEF Finished
<1> QED
  BY <1>1, <1>3, <1>4, <1>5

\* It puts only a channel into it that it registers.
LEMMA SshPutsIn ==
    ASSUME TypeOK, NEW s \in Conns, SshStep(s)
    PROVE  \/ UNCHANGED channelCounter /\ channels' \subseteq channels
           \/ \E k \in Kinds : OpenRegister(s, k)
<1>1. ASSUME \A k \in Kinds : ~OpenRegister(s, k)
      PROVE  UNCHANGED channelCounter /\ channels' \subseteq channels
  BY <1>1 DEF SshStep, SshGoesOn, OperatorSends, OperatorGrants, OperatorCloses, OperatorLeaves,
     OpenSend, OpenAnswered, OpenExpires, OpenForget, OpenBind, OpenInsert, OpenConfirm,
     OpenRefuse, SendReply, SendFailure, CloseSend, CloseForget, CloseReply, LoopEnds, clientVars
<1> QED
  BY <1>1

\* Off the client's table there are finished channels only.
LEMMA SshKeepsTable ==
    ASSUME TypeOK, ViewsOK, HandsOK, OffTheTable, NEW s \in Conns, SshStep(s)
    PROVE  OffTheTable'
<1>1. Alone(s) /\ Allocated \subseteq Allocated' /\ missed' = missed /\ todo' = todo
  BY SshIsAlone DEF Alone, readerVars
<1>2. channels' \subseteq Allocated' /\ \A c \in Allocated' \ Allocated : c \in channels'
  <2>1. CASE UNCHANGED channelCounter /\ channels' \subseteq channels
    BY <2>1 DEF OffTheTable, Allocated
  <2>2. ASSUME NEW k \in Kinds, OpenRegister(s, k)
        PROVE  channels' \subseteq Allocated' /\ \A c \in Allocated' \ Allocated : c \in channels'
    <3>1. /\ channelCounter \in Chans /\ channelCounter \in Nat /\ \A c \in Chans : c \in Nat
          /\ channelCounter' = channelCounter + 1 /\ channels' = channels \cup {channelCounter}
      BY <2>2, BoundsAssumption DEF OpenRegister, TypeOK, Chans
    <3>2. channelCounter \in Allocated'
      BY <3>1 DEF Allocated, Chans
    <3>3. \A c \in Allocated' : c \in Chans /\ c < channelCounter + 1
      BY <3>1 DEF Allocated, Chans
    <3>4. \A c \in Allocated' \ Allocated : c = channelCounter
      BY <3>1, <3>3 DEF Allocated
    <3> QED
      BY <1>1, <3>1, <3>2, <3>4 DEF OffTheTable
  <2> QED
    BY <2>1, <2>2, SshPutsIn
<1>3. ASSUME NEW c \in Allocated', c \notin channels' PROVE Finished(c)'
  <2>1. c \in Allocated
    BY <1>2, <1>3
  <2>2. CASE c \in channels
    BY <1>3, <2>2, SshTakesOut
  <2>3. CASE c \notin channels
    BY <2>1, <2>3, SshKeepsFinished DEF OffTheTable
  <2> QED
    BY <2>2, <2>3
<1> QED
  BY <1>1, <1>2, <1>3 DEF OffTheTable

LEMMA ReaderKeepsTable ==
    ASSUME TypeOK, WiresOK, ViewsOK, ReaderOK, OffTheTable, ReaderGoesOn
    PROVE  OffTheTable'
<1> USE DEF clientVars, chanVars, sshVars, readerVars, lossVars, ReaderTo
<1>1. ReaderAlone /\ Allocated' = Allocated
  BY ReaderIsAlone DEF ReaderAlone, Allocated
<1>2. channels' = channels \/ (Forget /\ channels' = channels \ {rch})
  BY DEF ReaderGoesOn, ReadConfirm, ReadData, ReadEof, ReadForChannel, ReadClose, Reserve,
     ReserveFails, WriteData, WriteEof, WriteClose, ReaderWrites, Unroute, Forget, ReadEnd,
     CloseClient, ListChannels, TellChannel, AllTold
<1>3. Forget => closed[rch] /\ closed' = closed
  BY DEF Forget, ReaderOK, TellingPlaces
<1>4. missed' \subseteq Allocated
  <2>1. CASE ReadData \/ ReadEof \/ ReadClose
    <3>1. PICK type : Reads(type) /\ Drops(NextFrame[2])
      BY <2>1 DEF ReadData, ReadEof, ReadForChannel, ReadClose
    <3>2. NextFrame[2] \in Allocated
      BY <3>1, ReadsOne
    <3> QED
      BY <3>1, <3>2 DEF Drops, OffTheTable
  <2>2. CASE ~(ReadData \/ ReadEof \/ ReadClose)
    <3>1. missed' = missed
      BY <2>2 DEF ReaderGoesOn, ReadConfirm, Reserve, ReserveFails, WriteData, WriteEof,
         WriteClose, ReaderWrites, Unroute, Forget, ReadEnd, CloseClient, ListChannels,
         TellChannel, AllTold
    <3> QED
      BY <3>1 DEF OffTheTable
  <2> QED
    BY <2>1, <2>2
<1>5. todo' \subseteq Allocated
  <2>1. todo' \subseteq todo \/ todo' = channels
    BY DEF ReaderGoesOn, ReadConfirm, ReadData, ReadEof, ReadForChannel, ReadClose, Reserve,
       ReserveFails, WriteData, WriteEof, WriteClose, ReaderWrites, Unroute, Forget, ReadEnd,
       CloseClient, ListChannels, TellChannel, AllTold
  <2> QED
    BY <2>1 DEF OffTheTable
<1>6. ASSUME NEW c \in Allocated, c \notin channels' PROVE Finished(c)'
  <2>1. CASE c \notin channels
    BY <2>1, ReaderKeepsFinished DEF OffTheTable
  <2>2. CASE c \in channels
    BY <1>2, <1>3, <1>6, <2>2 DEF Finished
  <2> QED
    BY <2>1, <2>2
<1> QED
  BY <1>1, <1>2, <1>4, <1>5, <1>6 DEF OffTheTable

-----------------------------------------------------------------------------
\* The operator's table loses a channel to its own thread or to the reader only.
LEMMA SshKeepsRoutes ==
    ASSUME TypeOK, NEW s \in Conns, SshStep(s), NEW c \in sshChannels,
           ~OperatorCloses(s, c)
    PROVE  c \in sshChannels'
  BY DEF SshStep, SshGoesOn, OperatorSends, OperatorGrants, OperatorCloses, OperatorLeaves,
     OpenRegister, OpenSend, OpenAnswered, OpenExpires, OpenForget, OpenBind, OpenInsert,
     OpenConfirm, OpenRefuse, SendReply, SendFailure, CloseSend, CloseForget, CloseReply, LoopEnds, chanVars

LEMMA SshKeepsConfirmed ==
    ASSUME TypeOK, ViewsOK, HandsOK, ConfirmedIsRouted, NEW s \in Conns, SshStep(s)
    PROVE  ConfirmedIsRouted'
<1>1. Alone(s) /\ UNCHANGED <<rpc, rch, alive>>
  BY SshIsAlone DEF Alone, readerVars
<1>2. SUFFICES ASSUME Serving, NEW r \in Conns, spc'[r] = "open_confirm", scur'[r] \in channels'
               PROVE  \/ scur'[r] \in sshChannels'
                      \/ rch = scur'[r] /\ rpc \in TellingPlaces
  BY <1>1 DEF ConfirmedIsRouted, Serving
<1>3. CASE r # s
  <2>1. spc[r] = "open_confirm" /\ scur'[r] = scur[r]
    BY <1>1, <1>2, <1>3 DEF Alone
  <2>2. scur[r] \in Allocated /\ owner[scur[r]] = r
    BY <2>1 DEF HandsOK, HandOK
  <2>3. scur[r] \in Chans /\ scur[r] # channelCounter
    BY <2>2, BoundsAssumption DEF Allocated, Chans, TypeOK
  <2>4. scur[r] = scur[s] => spc[s] \in {"loop", "ended"}
    BY <1>3, <2>2 DEF HandsOK, HandOK
  <2>5. scur[r] \in channels
    BY <1>2, <2>1, <2>3, <2>4, SshForward DEF Forward
  <2>6. ~OperatorCloses(s, scur[r])
    BY <1>3, <2>2 DEF OperatorCloses, FromOperator
  <2> QED
    BY <1>2, <2>1, <2>5, <2>6, SshKeepsRoutes DEF ConfirmedIsRouted
<1>4. CASE r = s
  <2>1. spc \in [Conns -> SPlaces]
    BY DEF TypeOK
  <2>2. OpenInsert(s) \/ OperatorLeaves(s)
    BY <1>2, <1>4, <2>1 DEF SshStep, SshGoesOn, OperatorSends, OperatorGrants, OperatorCloses,
       FromOperator, OpenRegister, OpenSend, OpenAnswered, OpenExpires, OpenForget, OpenBind,
       OpenConfirm, OpenRefuse, SendReply, SendFailure, CloseSend, CloseForget, CloseReply, LoopEnds, Reply,
       SpcTo, sshVars
  <2>3. CASE OpenInsert(s)
    BY <1>4, <2>3 DEF OpenInsert
  <2>4. CASE OperatorLeaves(s)
    BY <1>2, <1>4, <2>4 DEF OperatorLeaves, ConfirmedIsRouted, sshVars, clientVars, chanVars
  <2> QED
    BY <2>2, <2>3, <2>4
<1> QED
  BY <1>3, <1>4

\* While the reader goes on serving, a channel it takes off the operator's table
\* it has at hand, until it takes it off the client's.
LEMMA ReaderRoutes ==
    ASSUME TypeOK, WiresOK, ViewsOK, ReaderOK, ReaderGoesOn, Serving'
    PROVE  /\ Serving
           /\ channels' \subseteq channels
           /\ \A c \in sshChannels :
                c \in sshChannels' \/ (rch' = c /\ rpc' \in TellingPlaces)
           /\ rpc \in TellingPlaces =>
                rch \notin channels' \/ (rch' = rch /\ rpc' \in TellingPlaces)
<1> USE DEF clientVars, chanVars, readerVars, ReaderTo, TellingPlaces, Serving, Raise
<1>1. CASE ReadConfirm \/ ReadData \/ ReadEof
  BY <1>1 DEF ReadConfirm, ReadData, ReadEof, ReadForChannel, Reads
<1>2. CASE ReadClose
  BY <1>2 DEF ReadClose, Reads, RemoteClose
<1>3. CASE Reserve \/ ReserveFails \/ ReadEnd
  BY <1>3 DEF Reserve, ReserveFails, ReadEnd
<1>4. CASE WriteData \/ WriteEof \/ WriteClose
  BY <1>4 DEF WriteData, WriteEof, WriteClose, ReaderWrites
<1>5. CASE Unroute
  BY <1>5 DEF Unroute
<1>6. CASE Forget
  BY <1>6 DEF Forget
<1>7. CASE CloseClient \/ ListChannels \/ TellChannel \/ AllTold
  BY <1>7 DEF CloseClient, ListChannels, TellChannel, AllTold, RemoteClose, ReaderOK
<1> QED
  BY <1>1, <1>2, <1>3, <1>4, <1>5, <1>6, <1>7 DEF ReaderGoesOn

LEMMA ReaderKeepsConfirmed ==
    ASSUME TypeOK, WiresOK, ViewsOK, ReaderOK, ConfirmedIsRouted, ReaderGoesOn
    PROVE  ConfirmedIsRouted'
<1>1. UNCHANGED <<spc, scur>>
  BY ReaderIsAlone DEF ReaderAlone, sshVars
<1>2. SUFFICES ASSUME Serving', NEW s \in Conns, spc[s] = "open_confirm", scur[s] \in channels'
               PROVE  \/ scur[s] \in sshChannels'
                      \/ rch' = scur[s] /\ rpc' \in TellingPlaces
  BY <1>1 DEF ConfirmedIsRouted
<1> QED
  BY <1>2, ReaderRoutes DEF ConfirmedIsRouted

\* The two tables go on agreeing.
LEMMA SshKeepsRouted ==
    ASSUME TypeOK, ViewsOK, HandsOK, OffTheTable, ConfirmedIsRouted, OpenChannelIsRouted,
           NEW s \in Conns, SshStep(s)
    PROVE  OpenChannelIsRouted'
<1>1. Alone(s) /\ UNCHANGED <<rpc, rch, alive>>
  BY SshIsAlone DEF Alone, readerVars
<1> DEFINE Routed(c) == \/ c \in sshChannels /\ bound[c]
                        \/ InHand(c) \/ spc[owner[c]] = "ended"
                        \/ rch = c /\ rpc \in TellingPlaces
<1>2. SUFFICES ASSUME Serving, NEW c \in channels' PROVE Routed(c)'
  BY <1>1 DEF OpenChannelIsRouted, Serving, TellingPlaces
<1>3. ASSUME NEW k \in Kinds, OpenRegister(s, k), c \notin channels PROVE Routed(c)'
  <2>1. c = channelCounter /\ owner'[c] = s /\ scur'[s] = c /\ spc'[s] = "open_send"
    BY <1>3 DEF OpenRegister, SpcTo, TypeOK
  <2> QED
    BY <2>1 DEF InHand
<1>4. CASE c \in channels
  <2>1. /\ c \in Allocated /\ owner[c] \in Conns /\ owner'[c] = owner[c]
        /\ (bound[c] => bound'[c]) /\ Routed(c)
    BY <1>2, <1>4, AllocatedOnly DEF OffTheTable, ViewsOK, OpenChannelIsRouted, Serving,
       TellingPlaces, Allocated
  <2>2. CASE c \in sshChannels /\ bound[c]
    <3>1. CASE OperatorCloses(s, c)
      <4>1. owner[c] = s /\ scur'[s] = c /\ spc'[s] = "close_send"
        BY <2>2, <3>1 DEF OperatorCloses, FromOperator, SpcTo, TypeOK
      <4> QED
        BY <2>1, <4>1 DEF InHand
    <3>2. CASE ~OperatorCloses(s, c)
      BY <2>1, <2>2, <3>2, SshKeepsRoutes
    <3> QED
      BY <3>1, <3>2
  <2>3. CASE spc[owner[c]] = "ended"
    BY <1>1, <2>1, <2>3 DEF Alone
  <2>4. CASE rch = c /\ rpc \in TellingPlaces
    BY <1>1, <2>4
  <2>5. CASE InHand(c) /\ owner[c] # s
    BY <1>1, <2>1, <2>5 DEF InHand, Alone
  <2>6. CASE InHand(c) /\ owner[c] = s /\ spc[s] # "ended"
    <3>1. /\ scur[s] = c /\ spc[s] \notin {"loop", "send_reply", "send_failure", "ended"} /\ HandOK(s)
          /\ spc \in [Conns -> SPlaces]
      BY <2>6 DEF InHand, HandsOK, TypeOK
    <3>2. ASSUME scur' = scur, spc'[s] \notin {"loop", "send_reply", "send_failure"} PROVE Routed(c)'
      BY <2>1, <2>6, <3>1, <3>2 DEF InHand
    <3>3. spc[s] \notin {"open_refuse", "close_reply"}
      BY <1>4, <3>1 DEF HandOK
    <3>4. CASE OpenConfirm(s)
      <4>1. bound[c]
        BY <3>1, <3>4 DEF OpenConfirm, HandOK, BoundPlaces
      <4>2. c \in sshChannels \/ (rch = c /\ rpc \in TellingPlaces)
        BY <1>2, <1>4, <3>1, <3>4 DEF OpenConfirm, ConfirmedIsRouted
      <4>3. sshChannels' = sshChannels
        BY <3>4 DEF OpenConfirm, chanVars
      <4> QED
        BY <1>1, <2>1, <4>1, <4>2, <4>3
    <3>5. CASE OpenSend(s) \/ OpenAnswered(s) \/ OpenExpires(s) \/ OpenForget(s)
      <4>1. scur' = scur /\ spc'[s] \notin {"loop", "send_reply", "send_failure"}
        BY <3>1, <3>5 DEF OpenSend, OpenAnswered, OpenExpires, OpenForget, SpcTo
      <4> QED
        BY <3>2, <4>1
    <3>6. CASE OpenBind(s) \/ OpenInsert(s) \/ CloseSend(s) \/ CloseForget(s) \/ OperatorLeaves(s)
      <4>1. scur' = scur /\ spc'[s] \notin {"loop", "send_reply", "send_failure"}
        BY <3>1, <3>6 DEF OpenBind, OpenInsert, CloseSend, CloseForget, OperatorLeaves, SpcTo, sshVars
      <4> QED
        BY <3>2, <4>1
    <3> QED
      BY <3>1, <3>3, <3>4, <3>5, <3>6 DEF SshStep, SshGoesOn, OperatorSends, OperatorGrants,
         OperatorCloses, FromOperator, OpenRegister, OpenRefuse, SendReply, SendFailure, CloseReply, LoopEnds
  <2> QED
    BY <2>1, <2>2, <2>3, <2>4, <2>5, <2>6
<1> QED
  BY <1>2, <1>3, <1>4, SshPutsIn

LEMMA ReaderKeepsRouted ==
    ASSUME TypeOK, WiresOK, ViewsOK, ReaderOK, OffTheTable, OpenChannelIsRouted, ReaderGoesOn
    PROVE  OpenChannelIsRouted'
<1>1. ReaderAlone /\ UNCHANGED <<spc, scur>>
  BY ReaderIsAlone DEF ReaderAlone, sshVars
<1>2. SUFFICES ASSUME Serving', NEW c \in channels'
               PROVE  \/ c \in sshChannels' /\ bound'[c]
                      \/ InHand(c)' \/ spc'[owner'[c]] = "ended"
                      \/ rch' = c /\ rpc' \in TellingPlaces
  BY DEF OpenChannelIsRouted, Serving, TellingPlaces
<1>3. c \in channels /\ Serving /\ c \in Chans
  BY <1>2, ReaderRoutes DEF TypeOK
<1>4. owner'[c] = owner[c] /\ bound'[c] = bound[c]
  BY <1>1, <1>3 DEF ReaderAlone, Forward
<1>5. \/ c \in sshChannels /\ bound[c]
      \/ InHand(c) \/ spc[owner[c]] = "ended"
      \/ rch = c /\ rpc \in TellingPlaces
  BY <1>3 DEF OpenChannelIsRouted, Serving, TellingPlaces
<1> QED
  BY <1>1, <1>2, <1>4, <1>5, ReaderRoutes DEF InHand

\* An open goes on being answered once.
LEMMA StrayMayJoin ==
    ASSUME AnsweredOnce, NEW msg, NEW view, strays' \subseteq strays \cup {<<msg, view>>},
           msg # "failure" => msg # "refused" /\ view # "refused" /\ (msg # "opened" \/ view # "open")
    PROVE  AnsweredOnce'
<1>1. ASSUME NEW stray \in strays'
      PROVE  stray[1] # "failure" =>
                 /\ stray[1] # "refused" /\ stray[2] # "refused"
                 /\ stray # <<"opened", "open">>
  <2>1. CASE stray \in strays
    BY <2>1 DEF AnsweredOnce
  <2>2. CASE stray = <<msg, view>>
    BY <2>2
  <2> QED
    BY <1>1, <2>1, <2>2
<1> QED
  BY <1>1 DEF AnsweredOnce

LEMMA SshKeepsAnswers ==
    ASSUME TypeOK, HandsOK, AnsweredOnce, NEW s \in Conns, SshStep(s)
    PROVE  AnsweredOnce'
<1>1. ASSUME strays' = strays PROVE AnsweredOnce'
  BY <1>1 DEF AnsweredOnce
<1>2. HandOK(s) /\ (spc[s] \notin {"loop", "ended"} => scur[s] \in Chans)
  BY DEF HandsOK, HandOK, Allocated
<1>3. CASE OpenRefuse(s)
  <2>1. Reply(s, "refused", "loop") /\ scur[s] \in Chans /\ InPlace("refused", opView[scur[s]])
    BY <1>2, <1>3 DEF OpenRefuse, HandOK, AskingPlaces, InPlace
  <2> QED
    BY <1>1, <2>1, ReplyView
<1>4. CASE OpenConfirm(s)
  <2>1. /\ Reply(s, "opened", "loop") /\ scur[s] \in Chans
        /\ opView[scur[s]] \in {"asked", "closed"}
    BY <1>2, <1>4 DEF OpenConfirm, HandOK, BoundPlaces
  <2>2. strays' \subseteq strays \cup {<<"opened", opView[scur[s]]>>}
    BY <2>1, ReplyView
  <2> QED
    BY <2>1, <2>2, StrayMayJoin
<1>5. ASSUME NEW msg \in {"reply", "close"}, Reply(s, msg, "loop"),
             spc[s] \in {"send_reply", "close_reply"}
      PROVE  AnsweredOnce'
  <2>1. scur[s] \in Chans /\ opView[scur[s]] \in {"open", "closed"}
    BY <1>2, <1>5 DEF HandOK, ClosingPlaces
  <2>2. strays' \subseteq strays \cup {<<msg, opView[scur[s]]>>}
    BY <1>5, <2>1, ReplyView
  <2> QED
    BY <1>5, <2>1, <2>2, StrayMayJoin
<1>6. CASE SendReply(s) \/ CloseReply(s)
  BY <1>1, <1>5, <1>6 DEF SendReply, SendFailure, CloseReply, viewVars
<1>8. CASE SendFailure(s)
  BY <1>1, <1>8, FailureTells, StrayMayJoin
<1>7. CASE ~(OpenRefuse(s) \/ OpenConfirm(s) \/ SendReply(s) \/ SendFailure(s) \/ CloseReply(s))
  <2>1. strays' = strays
    BY <1>7 DEF SshStep, SshGoesOn, OperatorSends, OperatorGrants, OperatorCloses,
       OperatorLeaves, OpenRegister, OpenSend, OpenAnswered, OpenExpires, OpenForget, OpenBind,
       OpenInsert, CloseSend, CloseForget, LoopEnds, viewVars
  <2> QED
    BY <1>1, <2>1
<1> QED
  BY <1>3, <1>4, <1>6, <1>7, <1>8

LEMMA ReaderKeepsAnswers ==
    ASSUME TypeOK, ViewsOK, ReaderOK, AnsweredOnce, ReaderGoesOn
    PROVE  AnsweredOnce'
<1>1. ASSUME strays' = strays PROVE AnsweredOnce'
  BY <1>1 DEF AnsweredOnce
<1>2. ASSUME NEW msg \in {"data", "eof", "close"}, NEW from \in WritingPlaces, NEW next,
             ReaderWrites(msg, from, next)
      PROVE  AnsweredOnce'
  <2>1. rch \in Chans /\ opView[rch] # "refused"
    BY <1>2 DEF ReaderWrites, ReaderOK, ViewsOK, Allocated
  <2>2. strays' \subseteq strays \cup {<<msg, opView[rch]>>}
    BY <1>2, <2>1, ToldView DEF ReaderWrites, viewVars
  <2> QED
    BY <1>2, <2>1, <2>2, StrayMayJoin
<1>3. CASE WriteData \/ WriteEof \/ WriteClose
  BY <1>2, <1>3 DEF WriteData, WriteEof, WriteClose, WritingPlaces
<1>4. CASE ~(WriteData \/ WriteEof \/ WriteClose)
  <2>1. strays' = strays
    BY <1>4 DEF ReaderGoesOn, ReadConfirm, ReadData, ReadEof, ReadForChannel, ReadClose, Reserve,
       ReserveFails, Unroute, Forget, ReadEnd, CloseClient, ListChannels, TellChannel, AllTold,
       viewVars
  <2> QED
    BY <1>1, <2>1
<1> QED
  BY <1>3, <1>4

-----------------------------------------------------------------------------
\* What is missed is off the client's table for good, so it has come to an end.
LEMMA MissedAreFinished ==
    ASSUME TypeOK, \A c \in missed : Finished(c)
    PROVE  OnlyFinishedChannelsMiss
  BY DEF Finished, OnlyFinishedChannelsMiss

LEMMA SshKeepsMissed ==
    ASSUME TypeOK, ViewsOK, HandsOK, OffTheTable, OnlyFinishedChannelsMiss,
           NEW s \in Conns, SshStep(s)
    PROVE  OnlyFinishedChannelsMiss'
<1>1. missed' = missed /\ missed \subseteq Allocated
  BY SshIsAlone DEF Alone, OffTheTable
<1>2. ASSUME NEW c \in missed PROVE Finished(c)'
  BY <1>1, <1>2, SshKeepsFinished DEF Finished, OnlyFinishedChannelsMiss
<1> QED
  BY <1>1, <1>2 DEF Finished, OnlyFinishedChannelsMiss

LEMMA ReaderKeepsMissed ==
    ASSUME TypeOK, WiresOK, ViewsOK, ReaderOK, OffTheTable, OnlyFinishedChannelsMiss, ReaderGoesOn
    PROVE  OnlyFinishedChannelsMiss'
<1>1. OffTheTable' /\ Allocated' = Allocated
  BY ReaderKeepsTable, ReaderIsAlone DEF ReaderAlone, Allocated
<1>2. \A c \in missed' \ missed : c \notin channels'
  <2>1. CASE ReadData \/ ReadEof \/ ReadClose
    BY <2>1 DEF ReadData, ReadEof, ReadForChannel, ReadClose, Drops, clientVars
  <2>2. CASE ~(ReadData \/ ReadEof \/ ReadClose)
    BY <2>2 DEF ReaderGoesOn, ReadConfirm, Reserve, ReserveFails, WriteData, WriteEof,
       WriteClose, ReaderWrites, Unroute, Forget, ReadEnd, CloseClient, ListChannels,
       TellChannel, AllTold, lossVars
  <2> QED
    BY <2>1, <2>2
<1>3. ASSUME NEW c \in missed' PROVE Finished(c)'
  <2>1. CASE c \in missed
    <3>1. c \in Allocated /\ Finished(c)
      BY <2>1 DEF OffTheTable, Finished, OnlyFinishedChannelsMiss
    <3> QED
      BY <3>1, ReaderKeepsFinished
  <2>2. CASE c \notin missed
    BY <1>1, <1>2, <1>3, <2>2 DEF OffTheTable
  <2> QED
    BY <2>1, <2>2
<1> QED
  BY <1>3 DEF Finished, OnlyFinishedChannelsMiss

-----------------------------------------------------------------------------
LEMMA InitIInv == Init => IInv
<1> SUFFICES ASSUME Init PROVE IInv
  OBVIOUS
<1> USE DEF Init
<1>1. TypeOK
  BY DEF TypeOK, SPlaces, RPlaces, Views
<1>2. Allocated = {}
  BY BoundsAssumption DEF Allocated, Chans
<1>3. WiresOK
  BY DEF WiresOK
<1>4. ViewsOK /\ HandsOK
  BY <1>2 DEF ViewsOK, HandsOK, HandOK, AskingPlaces, BoundPlaces, ClosingPlaces
<1>5. ReaderOK /\ OffTheTable
  BY <1>2 DEF ReaderOK, OffTheTable, WritingPlaces, TellingPlaces
<1>6. ConfirmedIsRouted /\ AnsweredOnce /\ OpenChannelIsRouted /\ OnlyFinishedChannelsMiss
  BY DEF ConfirmedIsRouted, AnsweredOnce, OpenChannelIsRouted, OnlyFinishedChannelsMiss
<1> QED
  BY <1>1, <1>3, <1>4, <1>5, <1>6 DEF IInv

\* Every step keeps the invariant: those of SSH threads, those of the reader,
\* and those the relay has no part in.
LEMMA NextIInv == IInv /\ [Next]_vars => IInv'
<1> SUFFICES ASSUME IInv, [Next]_vars PROVE IInv'
  OBVIOUS
<1> USE DEF IInv
<1>1. ASSUME NEW s \in Conns, SshStep(s) PROVE IInv'
  <2>1. TypeOK' /\ WiresOK' /\ ViewsOK' /\ HandsOK'
    BY <1>1, SshKeepsTypes, SshKeepsWires, SshKeepsViews, SshKeepsHands
  <2>2. ReaderOK' /\ OffTheTable' /\ ConfirmedIsRouted'
    BY <1>1, SshKeepsReader, SshKeepsTable, SshKeepsConfirmed
  <2>3. AnsweredOnce' /\ OpenChannelIsRouted' /\ OnlyFinishedChannelsMiss'
    BY <1>1, SshKeepsAnswers, SshKeepsRouted, SshKeepsMissed
  <2> QED
    BY <2>1, <2>2, <2>3
<1>2. CASE ReaderGoesOn
  <2>1. TypeOK' /\ WiresOK' /\ ViewsOK' /\ HandsOK'
    BY <1>2, ReaderKeepsTypes, ReaderKeepsWires, ReaderKeepsViews, ReaderKeepsHands
  <2>2. ReaderOK' /\ OffTheTable' /\ ConfirmedIsRouted'
    BY <1>2, ReaderKeepsReader, ReaderKeepsTable, ReaderKeepsConfirmed
  <2>3. AnsweredOnce' /\ OpenChannelIsRouted' /\ OnlyFinishedChannelsMiss'
    BY <1>2, ReaderKeepsAnswers, ReaderKeepsRouted, ReaderKeepsMissed
  <2> QED
    BY <2>1, <2>2, <2>3
<1>3. ASSUME UNCHANGED <<clientVars, chanVars, sshVars, readerVars, opVars, viewVars, lossVars>>,
             TypeOK', WiresOK'
      PROVE  IInv'
  <2> USE <1>3 DEF clientVars, chanVars, sshVars, readerVars, opVars, viewVars, lossVars
  <2>1. ViewsOK' /\ HandsOK'
    BY DEF ViewsOK, HandsOK, HandOK, Allocated
  <2>2. ReaderOK' /\ OffTheTable'
    BY DEF ReaderOK, OffTheTable, Allocated, Finished, InHand
  <2>3. ConfirmedIsRouted' /\ AnsweredOnce'
    BY DEF ConfirmedIsRouted, AnsweredOnce, Serving
  <2>4. OpenChannelIsRouted' /\ OnlyFinishedChannelsMiss'
    BY DEF OpenChannelIsRouted, OnlyFinishedChannelsMiss, InHand
  <2> QED
    BY <2>1, <2>2, <2>3, <2>4
<1>4. CASE OutsideStep
  BY <1>3, <1>4, OutsideStays, OutsideKeepsTypes
<1>5. CASE UNCHANGED vars
  <2>1. TypeOK' /\ WiresOK'
    BY <1>5 DEF TypeOK, WiresOK, Allocated, vars, clientVars, chanVars, sshVars, readerVars,
       netVars, endVars, opVars, viewVars, lossVars
  <2> QED
    BY <1>3, <1>5, <2>1 DEF vars
<1> QED
  BY <1>1, <1>2, <1>4, <1>5, StepsAre

\* The invariant holds in every reachable state.
LEMMA Invariance == Spec => []IInv
  BY InitIInv, NextIInv, PTL DEF Spec

\* The variables keep their types whatever threads of operators and the client's
\* reader run between two steps of each other (relay.py:126-253, 665-760).
THEOREM TypeCorrect == Spec => []TypeOK
  BY Invariance, PTL DEF IInv

\* For any number of operators and channels, a CHANNEL_OPEN is answered once and
\* nothing is said of a refused channel (relay.py:165-184, 826-838).
THEOREM OpensAreAnsweredOnce == Spec => []AnsweredOnce
  BY Invariance, PTL DEF IInv

\* For any number of operators and channels, the client's table and the
\* operators' agree while the client is served (relay.py:345-349, 924-928).
THEOREM ChannelsAreRouted == Spec => []OpenChannelIsRouted
  BY Invariance, PTL DEF IInv

\* For any number of operators and channels, the relay drops frames for want of
\* an entry only of channels that were closed or refused (relay.py:201-203,
\* 222-244).
THEOREM OnlyTheFinishedMiss == Spec => []OnlyFinishedChannelsMiss
  BY Invariance, PTL DEF IInv

-----------------------------------------------------------------------------
(* What is on its way *)

\* a thread that is about to ask has registered a channel of which the client
\* knows nothing, and one that binds has an answer
AskOK(s) ==
    /\ spc[s] = "open_send" =>
         /\ scur[s] \in pendingOpen /\ end[scur[s]] = "none"
         /\ ~OnWire(toClient, "open", scur[s])
    /\ spc[s] = "open_bind" => end[scur[s]] # "none"

AsksOK == \A s \in Conns : AskOK(s)

\* an item is in a queue once at most
Single(q, x) == \A i, j \in 1..Len(q) : q[i] = x /\ q[j] = x => i = j

\* the client is asked once, and what came of it is known to it
AskedOnce ==
    \A ch \in Chans :
         /\ Single(toClient, <<"open", ch>>)
         /\ OnWire(toClient, "open", ch) => end[ch] = "none"
         /\ AnswerOnWire(ch) \/ answer[ch] # "unset" \/ bound[ch] => end[ch] # "none"
         /\ opClosed[ch] => bound[ch]

\* the relay takes a channel off its tables of its own accord only if it is over
Over(ch) == end[ch] = "finished" \/ ~link

EndsKnown ==
    /\ ~alive => ~link
    /\ \A ch \in Chans : OnWire(toRelay, "close", ch) => end[ch] = "finished"
    /\ rpc \in TellingPlaces => Over(rch)

\* whom the operator was told about, its messages reach
ToldIsReachable ==
    /\ \A s \in Conns :
         /\ spc[s] = "open_confirm" => scur[s] \in sshChannels \/ Over(scur[s])
         /\ spc[s] \in ClosingPlaces => opClosed[scur[s]]
    /\ \A ch \in Chans : opView[ch] \in {"open", "closed"} =>
         ch \in sshChannels \/ opClosed[ch] \/ Over(ch)

NetInv ==
    /\ AsksOK
    /\ AskedOnce
    /\ OpenIsNeverLost
    /\ EndsKnown
    /\ ToldIsReachable
    /\ CloseIsNeverLost

-----------------------------------------------------------------------------
\* What is on the wire when a frame is added, and when the first is taken.
LEMMA WireAppend ==
    ASSUME NEW S, NEW q \in Seq(S), NEW x \in S, NEW type, NEW ch
    PROVE  OnWire(Append(q, x), type, ch) <=> OnWire(q, type, ch) \/ x = <<type, ch>>
<1> DEFINE r == Append(q, x)
<1>1. /\ Len(q) \in Nat /\ Len(r) = Len(q) + 1 /\ r[Len(q) + 1] = x
      /\ \A i \in 1..Len(q) : r[i] = q[i]
  OBVIOUS
<1> HIDE DEF r
<1>2. \A i \in 1..Len(q) + 1 : i \in 1..Len(q) \/ i = Len(q) + 1
  BY <1>1
<1>3. Len(q) + 1 \in 1..Len(q) + 1 /\ \A i \in 1..Len(q) : i \in 1..Len(q) + 1
  BY <1>1
<1> QED
  BY <1>1, <1>2, <1>3 DEF OnWire, r

LEMMA WireTail ==
    ASSUME NEW S, NEW q \in Seq(S), q # <<>>, NEW type, NEW ch
    PROVE  OnWire(q, type, ch) <=> OnWire(Tail(q), type, ch) \/ Head(q) = <<type, ch>>
<1> DEFINE r == Tail(q)
           x == <<type, ch>>
<1>1. /\ Len(q) \in Nat \ {0} /\ Len(r) = Len(q) - 1 /\ Head(q) = q[1]
      /\ \A i \in 1..Len(q) - 1 : r[i] = q[i + 1]
  OBVIOUS
<1>2. /\ OnWire(q, type, ch) <=> \E i \in 1..Len(q) : q[i] = x
      /\ OnWire(r, type, ch) <=> \E i \in 1..Len(r) : r[i] = x
  BY DEF OnWire
<1> HIDE DEF r, x
<1>3. ASSUME NEW i \in 1..Len(q), q[i] = x, i # 1 PROVE \E j \in 1..Len(r) : r[j] = x
  <2>1. i - 1 \in 1..Len(q) - 1 /\ i - 1 + 1 = i
    BY <1>1, <1>3
  <2>2. r[i - 1] = x
    BY <1>1, <1>3, <2>1
  <2> QED
    BY <1>1, <2>1, <2>2
<1>4. ASSUME NEW j \in 1..Len(r), r[j] = x PROVE \E i \in 1..Len(q) : q[i] = x
  <2>1. j + 1 \in 1..Len(q) /\ q[j + 1] = x
    BY <1>1, <1>4
  <2> QED
    BY <2>1
<1>5. 1 \in 1..Len(q)
  BY <1>1
<1>6. OnWire(q, type, ch) <=> OnWire(r, type, ch) \/ Head(q) = x
  BY <1>1, <1>2, <1>3, <1>4, <1>5
<1> QED
  BY <1>6 DEF r, x

\* An item that comes once stays single, in what is behind it and with others.
LEMMA SingleTail ==
    ASSUME NEW S, NEW q \in Seq(S), q # <<>>, NEW type, NEW ch, Single(q, <<type, ch>>)
    PROVE  /\ Single(Tail(q), <<type, ch>>)
           /\ Head(q) = <<type, ch>> => ~OnWire(Tail(q), type, ch)
<1> DEFINE r == Tail(q)
<1>1. /\ Len(q) \in Nat \ {0} /\ Len(r) = Len(q) - 1 /\ Head(q) = q[1]
      /\ \A i \in 1..Len(q) - 1 : r[i] = q[i + 1]
  OBVIOUS
<1> HIDE DEF r
<1>2. /\ 1 \in 1..Len(q)
      /\ \A i \in 1..Len(q) - 1 : i + 1 \in 1..Len(q) /\ i + 1 # 1
      /\ \A i, j \in 1..Len(q) - 1 : i + 1 = j + 1 => i = j
  BY <1>1
<1> QED
  BY <1>1, <1>2 DEF OnWire, Single, r

LEMMA SingleAppend ==
    ASSUME NEW S, NEW q \in Seq(S), NEW x \in S, NEW type, NEW ch, Single(q, <<type, ch>>),
           x = <<type, ch>> => ~OnWire(q, type, ch)
    PROVE  Single(Append(q, x), <<type, ch>>)
<1> DEFINE r == Append(q, x)
<1>1. /\ Len(q) \in Nat /\ Len(r) = Len(q) + 1 /\ r[Len(q) + 1] = x
      /\ \A i \in 1..Len(q) : r[i] = q[i]
  OBVIOUS
<1> HIDE DEF r
<1>2. \A i \in 1..Len(q) + 1 : i \in 1..Len(q) \/ i = Len(q) + 1
  BY <1>1
<1> QED
  BY <1>1, <1>2 DEF OnWire, Single, r

\* Frames on the wire are about channels that the counter has passed.
LEMMA OnWireAsked ==
    ASSUME NEW S, NEW q \in Seq(Frames \X S), NEW type, NEW ch, OnWire(q, type, ch)
    PROVE  ch \in S
<1>1. PICK i \in 1..Len(q) : q[i] = <<type, ch>>
  BY DEF OnWire
<1>2. q[i] \in Frames \X S
  OBVIOUS
<1> QED
  BY <1>1, <1>2

-----------------------------------------------------------------------------
\* An SSH thread adds to what is on the way to the client: the request it is
\* about to make, a CLOSE, or data.
LEMMA SshOnWire ==
    ASSUME TypeOK, WiresOK, ViewsOK, HandsOK, NEW s \in Conns, SshStep(s)
    PROVE  /\ link' = link
           /\ \A type, ch : OnWire(toClient, type, ch) => OnWire(toClient', type, ch)
           /\ \A ch : OnWire(toClient', "open", ch) =>
                OnWire(toClient, "open", ch) \/ (OpenSend(s) /\ ch = scur[s])
           /\ OpenSend(s) /\ spc'[s] # "ended" => OnWire(toClient', "open", scur[s]) \/ ~link
           /\ CloseSend(s) => OnWire(toClient', "close", scur[s]) \/ ~link
           /\ \A ch : /\ Single(toClient, <<"open", ch>>)
                      /\ OpenSend(s) /\ ch = scur[s] => ~OnWire(toClient, "open", ch)
                      => Single(toClient', <<"open", ch>>)
<1> USE DEF clientVars, chanVars, sshVars, readerVars, netVars, endVars, opVars, viewVars,
        lossVars
<1>0. /\ toClient \in Seq(Frames \X Chans) /\ spc \in [Conns -> SPlaces]
      /\ {"open", "close", "data"} \subseteq Frames
  BY DEF TypeOK, Frames
<1>1. /\ spc[s] \notin {"loop", "ended"} => scur[s] \in Chans
  BY DEF HandsOK, HandOK, Allocated
<1>2. link' = link
  BY DEF SshStep, SshGoesOn, OperatorSends, OperatorGrants, OperatorCloses, OperatorLeaves,
     OpenRegister, OpenSend, OpenAnswered, OpenExpires, OpenForget, OpenBind, OpenInsert,
     OpenConfirm, OpenRefuse, SendReply, SendFailure, CloseSend, CloseForget, CloseReply, LoopEnds
<1>3. ASSUME NEW type \in Frames, NEW c \in Chans, toClient' = Append(toClient, <<type, c>>)
      PROVE  /\ \A t, ch : OnWire(toClient, t, ch) => OnWire(toClient', t, ch)
             /\ \A ch : OnWire(toClient', "open", ch) =>
                  OnWire(toClient, "open", ch) \/ (type = "open" /\ ch = c)
             /\ OnWire(toClient', type, c)
             /\ \A ch : /\ Single(toClient, <<"open", ch>>)
                        /\ type = "open" /\ ch = c => ~OnWire(toClient, "open", ch)
                        => Single(toClient', <<"open", ch>>)
  <2> DEFINE x == <<type, c>>
  <2>1. /\ x \in Frames \X Chans /\ toClient' = Append(toClient, x)
        /\ \A t, ch : x = <<t, ch>> <=> t = type /\ ch = c
    BY <1>3
  <2> HIDE DEF x
  <2>2. \A t, ch : OnWire(Append(toClient, x), t, ch) <=> OnWire(toClient, t, ch) \/ x = <<t, ch>>
    BY <1>0, <2>1, WireAppend
  <2>3. ASSUME NEW ch, Single(toClient, <<"open", ch>>),
               type = "open" /\ ch = c => ~OnWire(toClient, "open", ch)
        PROVE  Single(toClient', <<"open", ch>>)
    <3>1. x = <<"open", ch>> => ~OnWire(toClient, "open", ch)
      BY <2>1, <2>3
    <3> QED
      BY <1>0, <2>1, <2>3, <3>1, SingleAppend
  <2> QED
    BY <2>1, <2>2, <2>3
<1>4. CASE OpenSend(s)
  <2>1. spc[s] = "open_send" /\ scur[s] \in Chans
    BY <1>1, <1>4 DEF OpenSend
  <2>2. CASE toClient' = Append(toClient, <<"open", scur[s]>>)
    BY <1>0, <1>2, <1>3, <1>4, <2>1, <2>2 DEF CloseSend
  <2>3. CASE toClient' = toClient /\ ~link
    BY <1>2, <1>4, <2>1, <2>3 DEF CloseSend
  <2> QED
    BY <1>4, <2>2, <2>3 DEF OpenSend, Framed, FrameFails
<1>5. CASE CloseSend(s)
  <2>1. spc[s] = "close_send" /\ scur[s] \in Chans
    BY <1>1, <1>5 DEF CloseSend
  <2>2. CASE toClient' = Append(toClient, <<"close", scur[s]>>)
    BY <1>0, <1>2, <1>3, <1>5, <2>1, <2>2 DEF OpenSend
  <2>3. CASE toClient' = toClient /\ ~link
    BY <1>2, <1>5, <2>1, <2>3 DEF OpenSend
  <2> QED
    BY <1>5, <2>2, <2>3 DEF CloseSend, Framed, FrameFails
<1>6. ASSUME NEW ch \in Chans, OperatorSends(s, ch),
             toClient' = Append(toClient, <<"data", ch>>), spc[s] = "loop"
      PROVE  /\ \A t, c : OnWire(toClient, t, c) => OnWire(toClient', t, c)
             /\ \A c : OnWire(toClient', "open", c) => OnWire(toClient, "open", c)
             /\ \A c : Single(toClient, <<"open", c>>) => Single(toClient', <<"open", c>>)
  BY <1>0, <1>3, <1>6
<1>7. CASE ~OpenSend(s) /\ ~CloseSend(s)
  <2>1. \/ toClient' = toClient
        \/ \E ch \in Chans : /\ OperatorSends(s, ch) /\ spc[s] = "loop"
                             /\ toClient' = Append(toClient, <<"data", ch>>)
    BY <1>7 DEF SshStep, SshGoesOn, OperatorSends, OperatorGrants, OperatorCloses, OperatorLeaves,
       OpenRegister, OpenAnswered, OpenExpires, OpenForget, OpenBind, OpenInsert, OpenConfirm,
       OpenRefuse, SendReply, SendFailure, CloseForget, CloseReply, LoopEnds, Framed, FromOperator
  <2>2. CASE toClient' = toClient
    BY <1>2, <1>7, <2>2
  <2>3. CASE toClient' # toClient
    BY <1>2, <1>6, <1>7, <2>1, <2>3
  <2> QED
    BY <2>2, <2>3
<1> QED
  BY <1>4, <1>5, <1>7

\* The reader takes one frame off what is on the way to the relay.
LEMMA ReaderOnWire ==
    ASSUME TypeOK, ReaderGoesOn
    PROVE  /\ link' => link
           /\ \A type, ch : OnWire(toRelay', type, ch) => OnWire(toRelay, type, ch)
           /\ \A type, ch : OnWire(toRelay, type, ch) =>
                OnWire(toRelay', type, ch) \/ (Reads(type) /\ NextFrame = <<type, ch>>)
<1> USE DEF clientVars, netVars
<1>0. toRelay \in Seq(Frames \X Chans)
  BY DEF TypeOK
<1>1. toRelay' = toRelay \/ \E type : Reads(type)
  BY DEF ReaderGoesOn, ReadConfirm, ReadData, ReadEof, ReadForChannel, ReadClose, Reserve,
     ReserveFails, WriteData, WriteEof, WriteClose, ReaderWrites, Unroute, Forget, ReadEnd,
     CloseClient, ListChannels, TellChannel, AllTold
<1>2. link' => link
  BY DEF ReaderGoesOn, ReadConfirm, ReadData, ReadEof, ReadForChannel, ReadClose, Reserve,
     ReserveFails, WriteData, WriteEof, WriteClose, ReaderWrites, Unroute, Forget, ReadEnd,
     CloseClient, ListChannels, TellChannel, AllTold
<1>3. CASE toRelay' = toRelay
  BY <1>2, <1>3
<1>4. ASSUME NEW type, Reads(type), NEW t, NEW ch
      PROVE  OnWire(toRelay, t, ch) <=>
               OnWire(toRelay', t, ch) \/ (Reads(t) /\ NextFrame = <<t, ch>>)
  <2>1. /\ toRelay # <<>> /\ toRelay' = Tail(toRelay)
        /\ NextFrame = <<t, ch>> => Reads(t)
    BY <1>4 DEF Reads
  <2>2. OnWire(toRelay, t, ch) <=> OnWire(Tail(toRelay), t, ch) \/ Head(toRelay) = <<t, ch>>
    BY <1>0, <2>1, WireTail
  <2> QED
    BY <2>1, <2>2 DEF NextFrame
<1> QED
  BY <1>1, <1>2, <1>3, <1>4

\* What is added behind is on the wire too.
LEMMA WireConcat ==
    ASSUME NEW S, NEW q \in Seq(S), NEW r \in Seq(S), NEW type, NEW ch
    PROVE  /\ OnWire(q \o r, type, ch) => OnWire(q, type, ch) \/ OnWire(r, type, ch)
           /\ OnWire(q, type, ch) => OnWire(q \o r, type, ch)
<1> DEFINE both == q \o r
           x == <<type, ch>>
<1>1. /\ Len(q) \in Nat /\ Len(r) \in Nat /\ Len(both) = Len(q) + Len(r)
      /\ \A i \in 1..Len(both) : both[i] = IF i <= Len(q) THEN q[i] ELSE r[i - Len(q)]
  OBVIOUS
<1>2. \A w : OnWire(w, type, ch) <=> \E i \in 1..Len(w) : w[i] = x
  BY DEF OnWire
<1> HIDE DEF both, x
<1>3. ASSUME NEW i \in 1..Len(both), both[i] = x
      PROVE  (\E j \in 1..Len(q) : q[j] = x) \/ (\E j \in 1..Len(r) : r[j] = x)
  <2>1. CASE i <= Len(q)
    <3>1. i \in 1..Len(q) /\ q[i] = x
      BY <1>1, <1>3, <2>1
    <3> QED
      BY <3>1
  <2>2. CASE ~(i <= Len(q))
    <3>1. i - Len(q) \in 1..Len(r) /\ r[i - Len(q)] = x
      BY <1>1, <1>3, <2>2
    <3> QED
      BY <3>1
  <2> QED
    BY <2>1, <2>2
<1>4. ASSUME NEW j \in 1..Len(q), q[j] = x PROVE \E i \in 1..Len(both) : both[i] = x
  <2>1. j \in 1..Len(both) /\ both[j] = x
    BY <1>1, <1>4
  <2> QED
    BY <2>1
<1>5. /\ OnWire(both, type, ch) => OnWire(q, type, ch) \/ OnWire(r, type, ch)
      /\ OnWire(q, type, ch) => OnWire(both, type, ch)
  BY <1>2, <1>3, <1>4
<1> QED
  BY <1>5 DEF both

\* A frame that the client reads is off the wire.
LEMMA ClientTakesOff ==
    ASSUME TypeOK, toClient' = toClient
    PROVE  ~ClientOpens /\ ~ClientCloses
<1>1. ASSUME NEW type, ClientReads(type) PROVE FALSE
  <2>1. toClient \in Seq(Frames \X Chans) /\ toClient # <<>> /\ Tail(toClient) = toClient
    BY <1>1 DEF ClientReads, TypeOK
  <2>2. ASSUME NEW S, NEW q \in Seq(S), q # <<>> PROVE Len(Tail(q)) # Len(q)
    <3>1. Len(Tail(q)) = Len(q) - 1 /\ Len(q) \in Nat
      BY <2>2
    <3> QED
      BY <3>1
  <2> QED
    BY <2>1, <2>2
<1> QED
  BY <1>1 DEF ClientOpens, ClientCloses

\* What the client opens it was asked for.
LEMMA ClientOpensOne ==
    ASSUME TypeOK, ClientOpens
    PROVE  ClientFrame \in Chans /\ OnWire(toClient, "open", ClientFrame)
<1>1. toClient # <<>> /\ toClient \in Seq(Frames \X Chans) /\ Head(toClient)[1] = "open"
  BY DEF ClientOpens, ClientReads, TypeOK
<1>2. Head(toClient) \in Frames \X Chans
  BY <1>1
<1>3. Head(toClient) = <<"open", ClientFrame>>
  BY <1>1, <1>2 DEF ClientFrame
<1> QED
  BY <1>1, <1>2, <1>3, WireTail DEF ClientFrame

\* The client takes one frame off what is on the way to it, and answers it.
LEMMA ClientOnWire ==
    ASSUME TypeOK, OutsideStep
    PROVE  /\ link' => link
           /\ \A type, ch : OnWire(toClient', type, ch) => OnWire(toClient, type, ch)
           /\ \A ch : OnWire(toClient, "open", ch) =>
                OnWire(toClient', "open", ch) \/ (ClientOpens /\ ClientFrame = ch)
           /\ \A ch : OnWire(toClient, "close", ch) =>
                OnWire(toClient', "close", ch) \/ (ClientCloses /\ ClientFrame = ch)
           /\ \A ch : Single(toClient, <<"open", ch>>) =>
                /\ Single(toClient', <<"open", ch>>)
                /\ ClientOpens /\ ClientFrame = ch => ~OnWire(toClient', "open", ch)
<1>0. toClient \in Seq(Frames \X Chans)
  BY DEF TypeOK
<1>1. ASSUME NEW read, ClientReads(read), NEW type, NEW ch
      PROVE  /\ OnWire(toClient, type, ch) <=>
                  OnWire(toClient', type, ch) \/ (type = read /\ ClientFrame = ch)
             /\ Single(toClient, <<type, ch>>) =>
                  /\ Single(toClient', <<type, ch>>)
                  /\ type = read /\ ClientFrame = ch => ~OnWire(toClient', type, ch)
  <2>1. /\ toClient # <<>> /\ toClient' = Tail(toClient) /\ Head(toClient)[1] = read
        /\ ClientFrame = Head(toClient)[2]
    BY <1>1 DEF ClientReads, ClientFrame
  <2>2. Head(toClient) \in Frames \X Chans
    BY <1>0, <2>1
  <2>3. Head(toClient) = <<type, ch>> <=> type = read /\ ClientFrame = ch
    BY <2>1, <2>2
  <2>4. OnWire(toClient, type, ch) <=> OnWire(Tail(toClient), type, ch) \/ Head(toClient) = <<type, ch>>
    BY <1>0, <2>1, WireTail
  <2>5. Single(toClient, <<type, ch>>) =>
          /\ Single(Tail(toClient), <<type, ch>>)
          /\ Head(toClient) = <<type, ch>> => ~OnWire(Tail(toClient), type, ch)
    BY <1>0, <2>1, SingleTail
  <2> QED
    BY <2>1, <2>3, <2>4, <2>5
<1>2. CASE ClientOpens
  <2>1. ClientReads("open") /\ link' = link
    BY <1>2 DEF ClientOpens
  <2> QED
    BY <1>1, <1>2, <2>1
<1>3. CASE ClientTakes \/ ClientCloses
  <2>1. PICK read \in {"data", "close"} : ClientReads(read) /\ (read = "close" => ClientCloses)
    BY <1>3 DEF ClientTakes, ClientCloses
  <2>2. link' = link /\ ~ClientOpens /\ (ClientCloses => read = "close")
    BY <1>3, <2>1 DEF ClientTakes, ClientCloses, ClientOpens, ClientReads
  <2>3. \A ch : OnWire(toClient, "open", ch) => OnWire(toClient', "open", ch)
    BY <1>1, <2>1
  <2>4. ASSUME NEW ch, OnWire(toClient, "close", ch)
        PROVE  OnWire(toClient', "close", ch) \/ (read = "close" /\ ClientFrame = ch)
    <3>1. CASE read = "close"
      BY <1>1, <2>1, <2>4, <3>1
    <3>2. CASE read # "close"
      BY <1>1, <2>1, <2>4, <3>2
    <3> QED
      BY <3>1, <3>2
  <2>5. \A ch : Single(toClient, <<"open", ch>>) => Single(toClient', <<"open", ch>>)
    BY <1>1, <2>1
  <2>6. \A type, ch : OnWire(toClient', type, ch) => OnWire(toClient, type, ch)
    BY <1>1, <2>1
  <2> QED
    BY <2>1, <2>2, <2>3, <2>4, <2>5, <2>6
<1>4. CASE ~ClientOpens /\ ~ClientTakes /\ ~ClientCloses
  <2>1. toClient' = toClient /\ (link' => link)
    BY <1>4 DEF OutsideStep, ClientGoesOn, EndEmits, EndFinishes, LinkFails
  <2> QED
    BY <1>4, <2>1
<1> QED
  BY <1>2, <1>3, <1>4

\* An end of the client's goes forward: it is opened or refused by the request,
\* with an answer, closed by the operator, and finished with a CLOSE at most.
LEMMA ClientEnds ==
    ASSUME TypeOK, WiresOK, AskedOnce, OutsideStep, NEW c \in Chans
    PROVE  /\ \/ end'[c] = end[c]
              \/ end[c] = "none" /\ end'[c] \in {"open", "refused"} /\ ClientOpens /\ ClientFrame = c
              \/ end[c] = "open" /\ end'[c] = "closed"
              \/ end[c] \in {"open", "closed"} /\ end'[c] = "finished"
           /\ \A type : OnWire(toRelay, type, c) => OnWire(toRelay', type, c)
           /\ OnWire(toRelay', "close", c) => OnWire(toRelay, "close", c) \/ end'[c] = "finished"
           /\ AnswerOnWire(c)' => AnswerOnWire(c) \/ end'[c] # "none"
           /\ ClientOpens /\ ClientFrame = c => AnswerOnWire(c)' /\ end'[c] # "none"
           /\ ClientCloses /\ ClientFrame = c => end'[c] # "open"
<1>0. /\ toRelay \in Seq(Frames \X Chans) /\ toClient \in Seq(Frames \X Chans)
      /\ end \in [Chans -> {"none", "open", "refused", "closed", "finished"}]
      /\ {"confirm", "fail", "data", "eof", "close"} \subseteq Frames
  BY DEF TypeOK, Frames
<1>1. CASE ClientOpens
  <2>1. ClientFrame \in Chans
    BY <1>1, ClientOpensOne
  <2>2. end[ClientFrame] = "none"
    BY <1>1, <2>1, ClientOpensOne DEF AskedOnce
  <2>3. PICK type \in {"confirm", "fail"}, state \in {"open", "refused"} :
          /\ toRelay' = Append(toRelay, <<type, ClientFrame>>)
          /\ end' = [end EXCEPT ![ClientFrame] = state]
    BY <1>1 DEF ClientOpens
  <2>4. \A t, ch : OnWire(toRelay', t, ch) <=>
          OnWire(toRelay, t, ch) \/ (t = type /\ ch = ClientFrame)
    <3> DEFINE x == <<type, ClientFrame>>
    <3>1. /\ x \in Frames \X Chans /\ toRelay' = Append(toRelay, x)
          /\ \A t, ch : x = <<t, ch>> <=> t = type /\ ch = ClientFrame
      BY <1>0, <2>1, <2>3
    <3> HIDE DEF x
    <3>2. \A t, ch : OnWire(Append(toRelay, x), t, ch) <=> OnWire(toRelay, t, ch) \/ x = <<t, ch>>
      BY <1>0, <3>1, WireAppend
    <3> QED
      BY <3>1, <3>2
  <2>5. end'[ClientFrame] = state /\ \A ch \in Chans : ch # ClientFrame => end'[ch] = end[ch]
    BY <1>0, <2>1, <2>3
  <2>6. ~ClientCloses
    BY <1>1 DEF ClientOpens, ClientCloses, ClientReads
  <2> QED
    BY <1>1, <2>2, <2>4, <2>5, <2>6 DEF AnswerOnWire
<1>2. CASE ClientTakes \/ ClientCloses
  <2>1. toRelay' = toRelay /\ ~ClientOpens
    BY <1>2 DEF ClientTakes, ClientCloses, ClientOpens, ClientReads
  <2>2. /\ end'[c] = end[c] \/ (end[c] = "open" /\ end'[c] = "closed")
        /\ ClientCloses /\ ClientFrame = c => end'[c] # "open"
    BY <1>0, <1>2 DEF ClientTakes, ClientCloses, ClientReads
  <2> QED
    BY <2>1, <2>2 DEF AnswerOnWire
<1>3. toClient' = toClient => ~ClientOpens /\ ~ClientCloses
  BY ClientTakesOff
<1>4. ASSUME NEW ch \in Chans, EndEmits(ch)
      PROVE  /\ end' = end /\ toClient' = toClient
             /\ \A t, d : OnWire(toRelay', t, d) <=> OnWire(toRelay, t, d) \/ (t = "data" /\ d = ch)
  <2> DEFINE x == <<"data", ch>>
  <2>1. /\ x \in Frames \X Chans /\ toRelay' = Append(toRelay, x) /\ end' = end /\ toClient' = toClient
        /\ \A t, d : x = <<t, d>> <=> t = "data" /\ d = ch
    BY <1>0, <1>4 DEF EndEmits
  <2> HIDE DEF x
  <2>2. \A t, d : OnWire(Append(toRelay, x), t, d) <=> OnWire(toRelay, t, d) \/ x = <<t, d>>
    BY <1>0, <2>1, WireAppend
  <2> QED
    BY <2>1, <2>2
<1>5. ASSUME NEW ch \in Chans, EndFinishes(ch)
      PROVE  /\ toClient' = toClient /\ end' = [end EXCEPT ![ch] = "finished"]
             /\ end[ch] \in {"open", "closed"}
             /\ \A t, d : /\ OnWire(toRelay, t, d) => OnWire(toRelay', t, d)
                          /\ OnWire(toRelay', t, d) =>
                               OnWire(toRelay, t, d) \/ (t \in {"eof", "close"} /\ d = ch)
  <2>1. PICK frames \in Farewells(ch) : toRelay' = toRelay \o frames
    BY <1>5 DEF EndFinishes
  <2>2. /\ toClient' = toClient /\ end' = [end EXCEPT ![ch] = "finished"]
        /\ end[ch] \in {"open", "closed"}
    BY <1>5, <2>1 DEF EndFinishes, Farewells
  <2>3. frames \in Seq({<<"eof", ch>>, <<"close", ch>>})
    <3> DEFINE x == <<"eof", ch>>
               y == <<"close", ch>>
    <3>1. frames \in {<<x, y>>, <<x>>, <<y>>}
      BY <2>1 DEF Farewells
    <3> DEFINE S == {x, y}
    <3>2. x \in S /\ y \in S
      OBVIOUS
    <3> HIDE DEF x, y, S
    <3>3. <<x, y>> \in Seq(S) /\ <<x>> \in Seq(S) /\ <<y>> \in Seq(S)
      BY <3>2
    <3>4. frames \in Seq(S)
      BY <3>1, <3>3
    <3> QED
      BY <3>4 DEF x, y, S
  <2>4. ASSUME NEW t, NEW d, OnWire(frames, t, d) PROVE t \in {"eof", "close"} /\ d = ch
    <3>1. PICK i \in 1..Len(frames) : frames[i] = <<t, d>>
      BY <2>4 DEF OnWire
    <3>2. frames[i] \in {<<"eof", ch>>, <<"close", ch>>}
      BY <2>3
    <3> QED
      BY <3>1, <3>2
  <2>5. {<<"eof", ch>>, <<"close", ch>>} \subseteq Frames \X Chans
    BY <1>0
  <2>6. frames \in Seq(Frames \X Chans)
    BY <2>3, <2>5, SeqMonotonic
  <2>7. \A t, d : /\ OnWire(toRelay \o frames, t, d) => OnWire(toRelay, t, d) \/ OnWire(frames, t, d)
                  /\ OnWire(toRelay, t, d) => OnWire(toRelay \o frames, t, d)
    BY <1>0, <2>6, WireConcat
  <2> QED
    BY <2>1, <2>2, <2>4, <2>7
<1>6. CASE LinkFails
  BY <1>3, <1>6 DEF LinkFails, netVars, endVars, AnswerOnWire
<1>7. CASE \E ch \in Chans : EndEmits(ch)
  BY <1>3, <1>4, <1>7 DEF AnswerOnWire
<1>8. CASE \E ch \in Chans : EndFinishes(ch)
  <2>1. PICK ch \in Chans : EndFinishes(ch)
    BY <1>8
  <2>2. end'[c] = end[c] \/ (c = ch /\ end[c] \in {"open", "closed"} /\ end'[c] = "finished")
    BY <1>0, <1>5, <2>1
  <2>3. c = ch => end'[c] = "finished"
    BY <1>0, <1>5, <2>1
  <2> QED
    BY <1>3, <1>5, <2>1, <2>2, <2>3 DEF AnswerOnWire
<1> QED
  BY <1>1, <1>2, <1>6, <1>7, <1>8 DEF OutsideStep, ClientGoesOn

-----------------------------------------------------------------------------
\* Among the steps of an SSH thread, those that ask and close are the only ones
\* that the rest of what is known depends on.
LEMMA SshQuiet ==
    ASSUME TypeOK, ViewsOK, HandsOK, NEW s \in Conns, SshStep(s)
    PROVE  /\ answer' = answer
           /\ \A ch \in pendingOpen : ch \in pendingOpen' \/ (OpenForget(s) /\ ch = scur[s])
           /\ \A ch \in Chans : opClosed[ch] => opClosed'[ch]
           /\ \A ch \in Chans : opClosed'[ch] => opClosed[ch] \/ OperatorCloses(s, ch)
           /\ \A ch \in Chans : bound'[ch] => bound[ch] \/ (OpenBind(s) /\ ch = scur[s])
<1> USE DEF clientVars, chanVars, opVars
<1>0. /\ opClosed \in [Chans -> BOOLEAN] /\ bound \in [Chans -> BOOLEAN]
      /\ spc[s] \notin {"loop", "ended"} => scur[s] \in Chans
  BY DEF TypeOK, HandsOK, HandOK, Allocated
<1>1. CASE \E ch \in Chans : OperatorCloses(s, ch)
  BY <1>0, <1>1 DEF OperatorCloses
<1>2. CASE OpenBind(s)
  BY <1>0, <1>2 DEF OpenBind
<1>3. CASE OpenForget(s)
  BY <1>0, <1>3 DEF OpenForget
<1>4. CASE ~OpenBind(s) /\ ~OpenForget(s) /\ ~\E ch \in Chans : OperatorCloses(s, ch)
  BY <1>0, <1>4 DEF SshStep, SshGoesOn, OperatorSends, OperatorGrants, OperatorLeaves,
     OpenRegister, OpenSend, OpenAnswered, OpenExpires, OpenInsert, OpenConfirm, OpenRefuse,
     SendReply, SendFailure, CloseSend, CloseForget, CloseReply, LoopEnds
<1> QED
  BY <1>1, <1>2, <1>3, <1>4

\* What a thread has in hand, no other has.
LEMMA HandsApart ==
    ASSUME HandsOK, NEW r \in Conns, NEW s \in Conns, r # s,
           spc[r] \notin {"loop", "ended"}, spc[s] \notin {"loop", "ended"}
    PROVE  scur[r] # scur[s]
  BY DEF HandsOK, HandOK

\* How a thread comes to a place at which something is known of its channel.
LEMMA SshArrives ==
    ASSUME TypeOK, NEW s \in Conns, SshStep(s)
    PROVE  \/ spc'[s] = spc[s] /\ scur'[s] = scur[s] /\ ~OpenSend(s)
           \/ /\ spc'[s] = "open_send"
              /\ scur'[s] = channelCounter /\ channelCounter \in Chans \cap pendingOpen'
              /\ ~OpenSend(s)
           \/ OpenSend(s) /\ spc'[s] = "open_wait" /\ scur'[s] = scur[s]
           \/ /\ spc'[s] = "open_bind" /\ spc[s] = "open_wait" /\ scur'[s] = scur[s]
              /\ answer[scur[s]] # "unset"
           \/ spc'[s] = "open_confirm" /\ scur'[s] = scur[s] /\ scur[s] \in sshChannels'
           \/ /\ spc'[s] = "close_send" /\ scur'[s] \in Chans
              /\ OperatorCloses(s, scur'[s])
           \/ /\ spc'[s] \in {"close_forget", "close_reply"} /\ spc[s] \in ClosingPlaces
              /\ scur'[s] = scur[s]
           \/ spc'[s] \in {"loop", "ended", "open_expired", "open_refuse", "open_insert",
                           "send_reply", "send_failure"}
<1> USE DEF sshVars, SpcTo
<1>0. spc \in [Conns -> SPlaces] /\ scur \in [Conns -> Nat]
  BY DEF TypeOK
<1>1. ASSUME NEW k \in Kinds, OpenRegister(s, k)
      PROVE  /\ spc'[s] = "open_send" /\ scur'[s] = channelCounter
             /\ channelCounter \in Chans \cap pendingOpen' /\ spc[s] = "loop"
  BY <1>0, <1>1 DEF OpenRegister
<1>2. ASSUME NEW ch \in Chans, OperatorSends(s, ch) \/ OperatorGrants(s, ch)
      PROVE  spc'[s] \in {"loop", "ended", "send_reply", "send_failure"}
  BY <1>0, <1>2 DEF OperatorSends, OperatorGrants, FromOperator
<1>3. ASSUME NEW ch \in Chans, OperatorCloses(s, ch)
      PROVE  \/ spc'[s] = spc[s] /\ scur'[s] = scur[s] /\ spc[s] = "loop"
             \/ spc'[s] = "close_send" /\ scur'[s] = ch
  BY <1>0, <1>3 DEF OperatorCloses, FromOperator
<1>4. CASE OperatorLeaves(s) /\ ~OpenSend(s)
  BY <1>4 DEF OperatorLeaves
<1>5. CASE OpenSend(s)
  BY <1>0, <1>5 DEF OpenSend
<1>6. CASE OpenAnswered(s) \/ OpenExpires(s) \/ OpenForget(s)
  BY <1>0, <1>6 DEF OpenAnswered, OpenExpires, OpenForget
<1>7. CASE OpenRefuse(s) \/ OpenConfirm(s) \/ SendReply(s) \/ SendFailure(s) \/ CloseReply(s)
  BY <1>0, <1>7 DEF OpenRefuse, OpenConfirm, SendReply, SendFailure, CloseReply, Reply
<1>8. CASE OpenBind(s) \/ OpenInsert(s) \/ LoopEnds(s)
  BY <1>0, <1>8 DEF OpenBind, OpenInsert, LoopEnds
<1>9. CASE CloseSend(s) \/ CloseForget(s)
  BY <1>0, <1>9 DEF CloseSend, CloseForget, ClosingPlaces
<1>10. OpenSend(s) => spc[s] = "open_send"
  BY DEF OpenSend
<1>11. CASE \E k \in Kinds : OpenRegister(s, k)
  BY <1>1, <1>10, <1>11
<1>12. CASE \E ch \in Chans : OperatorSends(s, ch) \/ OperatorGrants(s, ch)
  BY <1>2, <1>10, <1>12
<1>13. CASE \E ch \in Chans : OperatorCloses(s, ch)
  BY <1>3, <1>10, <1>13
<1> QED
  BY <1>4, <1>5, <1>6, <1>7, <1>8, <1>9, <1>11, <1>12, <1>13 DEF SshStep, SshGoesOn

\* A thread asks about a channel that the client knows nothing of.
LEMMA SshKeepsAsks ==
    ASSUME TypeOK, WiresOK, ViewsOK, HandsOK, AsksOK, AskedOnce, NEW s \in Conns, SshStep(s)
    PROVE  AsksOK'
<1>1. Alone(s) /\ end' = end
  BY SshIsAlone DEF Alone
<1>2. ASSUME NEW r \in Conns, r # s PROVE AskOK(r)'
  <2>1. AskOK(r) /\ spc'[r] = spc[r] /\ scur'[r] = scur[r]
    BY <1>1, <1>2 DEF AsksOK, Alone
  <2>2. spc[r] = "open_send" /\ (OpenForget(s) \/ OpenSend(s)) => scur[r] # scur[s]
    BY <1>2, HandsApart DEF OpenForget, OpenSend
  <2>3. spc[r] = "open_send" => scur[r] \in pendingOpen'
    BY <2>1, <2>2, SshQuiet DEF AskOK
  <2>4. spc[r] = "open_send" => ~OnWire(toClient', "open", scur[r])
    BY <2>1, <2>2, SshOnWire DEF AskOK
  <2> QED
    BY <1>1, <2>1, <2>3, <2>4 DEF AskOK
<1>3. AskOK(s)'
  <2>1. AskOK(s)
    BY DEF AsksOK
  <2>2. CASE spc'[s] = spc[s] /\ scur'[s] = scur[s] /\ ~OpenSend(s)
    <3>1. spc[s] = "open_send" => scur[s] \in pendingOpen'
      BY <2>1, SshQuiet DEF AskOK, OpenForget
    <3>2. spc[s] = "open_send" => ~OnWire(toClient', "open", scur[s])
      BY <2>1, <2>2, SshOnWire DEF AskOK
    <3> QED
      BY <1>1, <2>1, <2>2, <3>1, <3>2 DEF AskOK
  <2>3. CASE /\ spc'[s] = "open_send"
             /\ scur'[s] = channelCounter /\ channelCounter \in Chans \cap pendingOpen'
             /\ ~OpenSend(s)
    <3>1. channelCounter \notin Allocated
      BY BoundsAssumption DEF Allocated, TypeOK, Chans
    <3>2. end[channelCounter] = "none"
      BY <2>3, <3>1 DEF WiresOK
    <3>3. ~OnWire(toClient, "open", channelCounter)
      BY <3>1, OnWireAsked DEF WiresOK
    <3>4. ~OnWire(toClient', "open", channelCounter)
      BY <2>3, <3>3, SshOnWire
    <3> QED
      BY <1>1, <2>3, <3>2, <3>4 DEF AskOK
  <2>4. CASE /\ spc'[s] = "open_bind" /\ spc[s] = "open_wait" /\ scur'[s] = scur[s]
             /\ answer[scur[s]] # "unset"
    <3>1. scur[s] \in Chans
      BY <2>4 DEF HandsOK, HandOK, Allocated
    <3> QED
      BY <1>1, <2>4, <3>1 DEF AskOK, AskedOnce
  <2>5. CASE spc'[s] \notin {"open_send", "open_bind"}
    BY <2>5 DEF AskOK
  <2> QED
    BY <2>2, <2>3, <2>4, <2>5, SshArrives
<1> QED
  BY <1>2, <1>3 DEF AsksOK

LEMMA SshKeepsAsked ==
    ASSUME TypeOK, WiresOK, ViewsOK, HandsOK, AsksOK, AskedOnce, NEW s \in Conns, SshStep(s)
    PROVE  AskedOnce'
<1>1. Alone(s) /\ end' = end /\ toRelay' = toRelay /\ answer' = answer
  BY SshIsAlone, SshQuiet DEF Alone
<1>2. OpenSend(s) => ~OnWire(toClient, "open", scur[s]) /\ end[scur[s]] = "none"
  BY DEF OpenSend, AsksOK, AskOK
<1>3. OpenBind(s) => end[scur[s]] # "none"
  BY DEF OpenBind, AsksOK, AskOK
<1>4. ASSUME NEW ch \in Chans
      PROVE  /\ Single(toClient', <<"open", ch>>)
             /\ OnWire(toClient', "open", ch) => end[ch] = "none"
             /\ AnswerOnWire(ch) \/ answer[ch] # "unset" \/ bound'[ch] => end[ch] # "none"
             /\ opClosed'[ch] => bound'[ch]
  <2>1. Single(toClient', <<"open", ch>>)
    BY <1>2, SshOnWire DEF AskedOnce
  <2>2. OnWire(toClient', "open", ch) => end[ch] = "none"
    BY <1>2, SshOnWire DEF AskedOnce
  <2>3. AnswerOnWire(ch) \/ answer[ch] # "unset" \/ bound'[ch] => end[ch] # "none"
    BY <1>3, SshQuiet DEF AskedOnce
  <2>4. ASSUME opClosed'[ch] PROVE bound'[ch]
    <3>1. OperatorCloses(s, ch) => bound[ch]
      BY DEF OperatorCloses, FromOperator, ViewsOK
    <3>2. bound[ch] /\ ch \in Allocated
      BY <2>4, <3>1, SshQuiet DEF AskedOnce, ViewsOK
    <3> QED
      BY <3>2, AllocatedOnly
  <2> QED
    BY <2>1, <2>2, <2>3, <2>4
<1> QED
  BY <1>1, <1>4 DEF AskedOnce, AnswerOnWire

LEMMA SshKeepsOpens ==
    ASSUME TypeOK, WiresOK, ViewsOK, HandsOK, AsksOK, OpenIsNeverLost, NEW s \in Conns, SshStep(s)
    PROVE  OpenIsNeverLost'
<1>1. Alone(s) /\ toRelay' = toRelay /\ answer' = answer /\ link' = link
  BY SshIsAlone, SshQuiet, SshOnWire DEF Alone
<1>2. ASSUME NEW r \in Conns, spc'[r] = "open_wait"
      PROVE  \/ answer[scur'[r]] # "unset"
             \/ /\ scur'[r] \in pendingOpen'
                /\ OnWire(toClient', "open", scur'[r]) \/ AnswerOnWire(scur'[r])
             \/ ~link
  <2>1. CASE spc[r] = "open_wait" /\ scur'[r] = scur[r] /\ (OpenForget(s) => scur[s] # scur[r])
    BY <2>1, SshQuiet, SshOnWire DEF OpenIsNeverLost
  <2>2. CASE r # s
    <3>1. spc[r] = "open_wait" /\ scur'[r] = scur[r]
      BY <1>1, <1>2, <2>2 DEF Alone
    <3>2. OpenForget(s) => scur[s] # scur[r]
      BY <2>2, <3>1, HandsApart DEF OpenForget
    <3> QED
      BY <2>1, <3>1, <3>2
  <2>3. CASE r = s
    <3>1. \/ spc[s] = "open_wait" /\ scur'[s] = scur[s]
          \/ OpenSend(s) /\ scur'[s] = scur[s]
      BY <1>2, <2>3, SshArrives
    <3>2. CASE spc[s] = "open_wait" /\ scur'[s] = scur[s]
      BY <2>1, <2>3, <3>2 DEF OpenForget
    <3>3. CASE OpenSend(s) /\ scur'[s] = scur[s]
      <4>1. spc[s] = "open_send" /\ scur[s] \in pendingOpen
        BY <3>3 DEF OpenSend, AsksOK, AskOK
      <4>2. scur[s] \in pendingOpen'
        BY <4>1, SshQuiet DEF OpenForget
      <4>3. OnWire(toClient', "open", scur[s]) \/ ~link
        BY <1>2, <2>3, <3>3, SshOnWire
      <4> QED
        BY <2>3, <3>3, <4>2, <4>3
    <3> QED
      BY <3>1, <3>2, <3>3
  <2> QED
    BY <2>2, <2>3
<1> QED
  BY <1>1, <1>2 DEF OpenIsNeverLost, AnswerOnWire

LEMMA SshKeepsEnds ==
    ASSUME TypeOK, WiresOK, ViewsOK, HandsOK, EndsKnown, NEW s \in Conns, SshStep(s)
    PROVE  EndsKnown'
<1>1. UNCHANGED <<alive, link, end, toRelay, rpc, rch>>
  BY SshIsAlone, SshOnWire DEF Alone, readerVars
<1> QED
  BY <1>1 DEF EndsKnown, Over

\* A thread tells its operator of a channel that it has put in its table.
LEMMA SshTells ==
    ASSUME TypeOK, ViewsOK, HandsOK, NEW s \in Conns, SshStep(s), NEW c \in Chans,
           opView'[c] \in {"open", "closed"}
    PROVE  opView[c] \in {"open", "closed"} \/ (OpenConfirm(s) /\ c = scur[s])
<1>0. /\ HandOK(s) /\ opView \in [Chans -> Views]
      /\ spc[s] \notin {"loop", "ended"} => scur[s] \in Chans
  BY DEF HandsOK, HandOK, Allocated, TypeOK
<1>1. ASSUME NEW k \in Kinds, OpenRegister(s, k) PROVE opView[c] \in {"open", "closed"}
  BY <1>0, <1>1 DEF OpenRegister
<1>2. CASE OpenRefuse(s)
  BY <1>0, <1>2, ReplyView DEF OpenRefuse, After
<1>3. CASE OpenConfirm(s)
  BY <1>0, <1>3, ReplyView DEF OpenConfirm
<1>4. CASE SendReply(s)
  BY <1>0, <1>4, ReplyView DEF SendReply, SendFailure, After, viewVars
<1>5. CASE CloseReply(s)
  BY <1>0, <1>5, ReplyView DEF CloseReply, HandOK, ClosingPlaces
<1>7. CASE SendFailure(s)
  BY <1>0, <1>7, FailureTells
<1>6. CASE ~(OpenRefuse(s) \/ OpenConfirm(s) \/ SendReply(s) \/ SendFailure(s) \/ CloseReply(s))
  <2>1. ASSUME \A k \in Kinds : ~OpenRegister(s, k) PROVE opView' = opView
    BY <1>6, <2>1 DEF SshStep, SshGoesOn, OperatorSends, OperatorGrants, OperatorCloses,
       OperatorLeaves, OpenSend, OpenAnswered, OpenExpires, OpenForget, OpenBind, OpenInsert,
       CloseSend, CloseForget, LoopEnds, viewVars
  <2> QED
    BY <1>1, <2>1
<1> QED
  BY <1>2, <1>3, <1>4, <1>5, <1>6, <1>7

LEMMA SshKeepsReach ==
    ASSUME TypeOK, WiresOK, ViewsOK, HandsOK, ToldIsReachable, NEW s \in Conns, SshStep(s)
    PROVE  ToldIsReachable'
<1>1. Alone(s) /\ \A c : Over(c)' <=> Over(c)
  BY SshIsAlone, SshOnWire DEF Alone, Over
<1>2. \A c \in sshChannels : c \in sshChannels' \/ OperatorCloses(s, c)
  BY SshKeepsRoutes
<1>3. \A c \in Chans : OperatorCloses(s, c) => opClosed'[c] /\ owner[c] = s
  BY DEF OperatorCloses, FromOperator, TypeOK
<1>4. ASSUME NEW r \in Conns
      PROVE  /\ spc'[r] = "open_confirm" => scur'[r] \in sshChannels' \/ Over(scur'[r])
             /\ spc'[r] \in ClosingPlaces => opClosed'[scur'[r]]
  <2>1. CASE spc'[r] = spc[r] /\ scur'[r] = scur[r]
    <3>1. spc[r] = "open_confirm" => ~OperatorCloses(s, scur[r])
      <4>1. spc[r] = "open_confirm" => owner[scur[r]] = r
        BY DEF HandsOK, HandOK
      <4> QED
        BY <4>1 DEF OperatorCloses, FromOperator
    <3>2. spc[r] \in ClosingPlaces => scur[r] \in Chans
      BY DEF HandsOK, HandOK, ClosingPlaces, Allocated
    <3> QED
      BY <1>2, <2>1, <3>1, <3>2, SshQuiet DEF ToldIsReachable
  <2>2. CASE r # s
    BY <1>1, <2>1, <2>2 DEF Alone
  <2>3. CASE r = s /\ spc'[s] = "open_confirm" /\ scur'[s] \in sshChannels'
    BY <2>3 DEF ClosingPlaces
  <2>4. CASE r = s /\ spc'[s] \in ClosingPlaces /\ scur'[s] \in Chans /\ OperatorCloses(s, scur'[s])
    BY <1>3, <2>4 DEF ClosingPlaces
  <2>5. CASE r = s /\ spc'[s] \in ClosingPlaces /\ spc[s] \in ClosingPlaces /\ scur'[s] = scur[s]
    <3>1. scur[s] \in Chans
      BY <2>5 DEF HandsOK, HandOK, ClosingPlaces, Allocated
    <3> QED
      BY <2>5, <3>1, SshQuiet DEF ToldIsReachable, ClosingPlaces
  <2>6. CASE spc'[r] \notin ClosingPlaces \cup {"open_confirm"}
    BY <2>6
  <2> QED
    BY <2>1, <2>2, <2>3, <2>4, <2>5, <2>6, SshArrives DEF ClosingPlaces
<1>5. ASSUME NEW c \in Chans, opView'[c] \in {"open", "closed"}
      PROVE  c \in sshChannels' \/ opClosed'[c] \/ Over(c)
  <2>1. CASE opView[c] \in {"open", "closed"}
    BY <1>2, <1>3, <2>1, SshQuiet DEF ToldIsReachable
  <2>2. CASE OpenConfirm(s) /\ c = scur[s]
    <3>1. spc[s] = "open_confirm" /\ sshChannels' = sshChannels
      BY <2>2 DEF OpenConfirm, chanVars
    <3> QED
      BY <2>2, <3>1 DEF ToldIsReachable
  <2> QED
    BY <1>5, <2>1, <2>2, SshTells
<1> QED
  BY <1>1, <1>4, <1>5 DEF ToldIsReachable

LEMMA SshKeepsCloses ==
    ASSUME TypeOK, WiresOK, ViewsOK, HandsOK, ToldIsReachable, CloseIsNeverLost,
           AskedOnce, NEW s \in Conns, SshStep(s)
    PROVE  CloseIsNeverLost'
<1>1. Alone(s) /\ end' = end /\ link' = link
  BY SshIsAlone, SshOnWire DEF Alone
<1>2. SUFFICES ASSUME NEW c \in Chans, opClosed'[c]
               PROVE  \/ end[c] \notin {"none", "open"}
                      \/ spc'[owner'[c]] = "close_send" /\ scur'[owner'[c]] = c
                      \/ OnWire(toClient', "close", c)
                      \/ ~link
  BY <1>1 DEF CloseIsNeverLost
<1>3. CASE OperatorCloses(s, c)
  <2>1. CASE c \in sshChannels
    BY <1>3, <2>1 DEF OperatorCloses, FromOperator, SpcTo, TypeOK
  <2>2. CASE c \notin sshChannels
    <3>1. Over(c)
      BY <1>3, <2>2 DEF OperatorCloses, FromOperator, ToldIsReachable
    <3> QED
      BY <3>1 DEF Over
  <2> QED
    BY <2>1, <2>2
<1>4. CASE opClosed[c]
  <2>1. bound[c] /\ c \in Allocated /\ owner[c] \in Conns
    BY <1>4 DEF AskedOnce, ViewsOK
  <2>2. owner'[c] = owner[c]
    BY <2>1, AllocatedOnly
  <2>3. CASE spc[owner[c]] = "close_send" /\ scur[owner[c]] = c
    <3>1. CASE owner[c] # s
      BY <1>1, <2>1, <2>2, <2>3, <3>1 DEF Alone
    <3>2. CASE owner[c] = s
      <4>1. CloseSend(s) \/ OperatorLeaves(s)
        BY <2>3, <3>2 DEF SshStep, SshGoesOn, OperatorSends, OperatorGrants, OperatorCloses,
           OpenRegister, FromOperator, OpenSend, OpenAnswered, OpenExpires, OpenForget, OpenBind,
           OpenRefuse, OpenInsert, OpenConfirm, SendReply, SendFailure, CloseForget, CloseReply, LoopEnds
      <4>2. CASE CloseSend(s)
        BY <2>3, <3>2, <4>2, SshOnWire
      <4>3. CASE OperatorLeaves(s)
        BY <2>2, <2>3, <3>2, <4>3 DEF OperatorLeaves, sshVars
      <4> QED
        BY <4>1, <4>2, <4>3
    <3> QED
      BY <3>1, <3>2
  <2>4. CASE OnWire(toClient, "close", c)
    BY <2>4, SshOnWire
  <2> QED
    BY <1>4, <2>3, <2>4 DEF CloseIsNeverLost
<1> QED
  BY <1>2, <1>3, <1>4, SshQuiet

-----------------------------------------------------------------------------
\* What the reader changes of what is known: it passes on an answer to an open
\* that is pending, and takes a channel off its operator's table.
LEMMA ReaderQuiet ==
    ASSUME TypeOK, ReaderGoesOn
    PROVE  /\ \A ch \in Chans : answer[ch] # "unset" => answer'[ch] # "unset"
           /\ \A ch \in Chans : answer'[ch] # "unset" => answer[ch] # "unset" \/ AnswerOnWire(ch)
           /\ \A ch \in pendingOpen :
                \/ ch \in pendingOpen'
                \/ answer'[ch] # "unset" /\ AnswerOnWire(ch)
           /\ \A ch \in pendingOpen : AnswerOnWire(ch) => AnswerOnWire(ch)' \/ answer'[ch] # "unset"
           /\ \A ch \in sshChannels : ch \in sshChannels' \/ (rpc \in TellingPlaces /\ ch = rch)
           /\ ~alive' => ~alive \/ ~link'
           /\ rpc' \in TellingPlaces =>
                \/ rpc \in TellingPlaces /\ rch' = rch
                \/ OnWire(toRelay, "close", rch')
                \/ rpc = "telling"
<1> USE DEF clientVars, chanVars, readerVars, ReaderTo, TellingPlaces
<1>0. /\ answer \in [Chans -> {"unset", "ok", "failed"}] /\ pendingOpen \subseteq Chans
      /\ toRelay \in Seq(Frames \X Chans)
  BY DEF TypeOK
<1>1. ASSUME NEW type, Reads(type)
      PROVE  NextFrame = <<type, NextFrame[2]>> /\ OnWire(toRelay, type, NextFrame[2])
  <2>1. toRelay # <<>> /\ NextFrame[1] = type
    BY <1>1 DEF Reads
  <2>2. NextFrame \in Frames \X Chans
    BY <1>0, <2>1 DEF NextFrame
  <2>3. NextFrame = <<type, NextFrame[2]>>
    BY <2>1, <2>2
  <2> QED
    BY <1>0, <2>1, <2>3, WireTail DEF NextFrame
<1>2. CASE ReadConfirm
  <2> DEFINE c == NextFrame[2]
  <2>1. /\ answer' = IF c \in pendingOpen
                     THEN [answer EXCEPT ![c] = IF NextFrame[1] = "confirm" THEN "ok" ELSE "failed"]
                     ELSE answer
        /\ pendingOpen' = pendingOpen \ {c}
        /\ UNCHANGED <<rpc, rch, alive, sshChannels>>
        /\ Reads("confirm") \/ Reads("fail")
    BY <1>2 DEF ReadConfirm
  <2>2. AnswerOnWire(c) /\ \A ch : NextFrame = <<"confirm", ch>> \/ NextFrame = <<"fail", ch>> => ch = c
    BY <1>1, <2>1 DEF AnswerOnWire
  <2>3. \A ch : AnswerOnWire(ch) => AnswerOnWire(ch)' \/ ch = c
    BY <1>2, <2>2, ReaderOnWire DEF AnswerOnWire
  <2> HIDE DEF c
  <2>4. /\ \A ch \in Chans : answer'[ch] = answer[ch] \/ (ch = c /\ answer'[ch] \in {"ok", "failed"})
        /\ c \in pendingOpen => answer'[c] \in {"ok", "failed"}
    BY <1>0, <2>1
  <2> QED
    BY <1>0, <2>1, <2>2, <2>3, <2>4
<1>3. CASE ReadClose
  <2>1. /\ Reads("close") /\ UNCHANGED <<answer, pendingOpen, alive, sshChannels>>
        /\ rpc' \in TellingPlaces => rch' = NextFrame[2]
    BY <1>3 DEF ReadClose, RemoteClose, Reads
  <2>2. OnWire(toRelay, "close", NextFrame[2]) /\ NextFrame[1] = "close"
    BY <1>1, <2>1 DEF Reads
  <2>3. \A ch : AnswerOnWire(ch) => AnswerOnWire(ch)'
    BY <1>1, <2>1, <2>2, ReaderOnWire DEF AnswerOnWire
  <2> QED
    BY <2>1, <2>2, <2>3
<1>4. CASE ReadData \/ ReadEof
  <2>1. PICK type \in {"data", "eof"}, place \in {"reserving", "writing_eof"} :
          ReadForChannel(type, place)
    BY <1>4 DEF ReadData, ReadEof
  <2>2. /\ Reads(type) /\ UNCHANGED <<answer, pendingOpen, alive, sshChannels>>
        /\ rpc' \notin TellingPlaces /\ NextFrame[1] \in {"data", "eof"}
    BY <2>1 DEF ReadForChannel, Reads
  <2>3. \A ch : AnswerOnWire(ch) => AnswerOnWire(ch)'
    BY <2>2, ReaderOnWire DEF AnswerOnWire
  <2> QED
    BY <2>2, <2>3
<1>5. CASE ~(ReadConfirm \/ ReadClose \/ ReadData \/ ReadEof)
  <2>1. toRelay' = toRelay /\ UNCHANGED <<answer, pendingOpen>>
    BY <1>5 DEF ReaderGoesOn, Reserve, ReserveFails, WriteData, WriteEof, WriteClose,
       ReaderWrites, Unroute, Forget, ReadEnd, CloseClient, ListChannels, TellChannel, AllTold,
       netVars
  <2>2. \A ch \in sshChannels : ch \in sshChannels' \/ (rpc \in TellingPlaces /\ ch = rch)
    BY <1>5 DEF ReaderGoesOn, Reserve, ReserveFails, WriteData, WriteEof, WriteClose,
       ReaderWrites, Unroute, Forget, ReadEnd, CloseClient, ListChannels, TellChannel,
       RemoteClose, AllTold
  <2>3. ~alive' => ~alive \/ ~link'
    BY <1>5 DEF ReaderGoesOn, Reserve, ReserveFails, WriteData, WriteEof, WriteClose,
       ReaderWrites, Unroute, Forget, ReadEnd, CloseClient, ListChannels, TellChannel, AllTold
  <2>4. rpc' \in TellingPlaces => (rpc \in TellingPlaces /\ rch' = rch) \/ rpc = "telling"
    BY <1>5 DEF ReaderGoesOn, Reserve, ReserveFails, WriteData, WriteEof, WriteClose,
       ReaderWrites, Unroute, Forget, ReadEnd, CloseClient, ListChannels, TellChannel, AllTold,
       Raise, Back
  <2> QED
    BY <2>1, <2>2, <2>3, <2>4 DEF AnswerOnWire
<1> QED
  BY <1>2, <1>3, <1>4, <1>5

LEMMA ReaderKeepsAsks ==
    ASSUME TypeOK, WiresOK, ViewsOK, HandsOK, ReaderOK, AsksOK, AskedOnce, ReaderGoesOn
    PROVE  AsksOK'
<1>1. UNCHANGED <<spc, scur, end, toClient>>
  BY ReaderIsAlone DEF ReaderAlone, sshVars
<1>2. ASSUME NEW s \in Conns PROVE AskOK(s)'
  <2>1. AskOK(s)
    BY DEF AsksOK
  <2>2. spc[s] = "open_send" => scur[s] \in pendingOpen'
    <3>1. spc[s] = "open_send" => scur[s] \in Chans /\ ~AnswerOnWire(scur[s])
      BY <2>1 DEF AskOK, AskedOnce, HandsOK, HandOK, Allocated
    <3> QED
      BY <2>1, <3>1, ReaderQuiet DEF AskOK
  <2> QED
    BY <1>1, <2>1, <2>2 DEF AskOK
<1> QED
  BY <1>2 DEF AsksOK

LEMMA ReaderKeepsAsked ==
    ASSUME TypeOK, WiresOK, ViewsOK, ReaderOK, AskedOnce, ReaderGoesOn
    PROVE  AskedOnce'
<1>1. UNCHANGED <<end, toClient, opClosed>> /\ \A ch \in Chans : bound'[ch] = bound[ch]
  BY ReaderIsAlone DEF ReaderAlone, opVars, Forward
<1>2. \A ch : AnswerOnWire(ch)' => AnswerOnWire(ch)
  BY ReaderOnWire DEF AnswerOnWire
<1> QED
  BY <1>1, <1>2, ReaderQuiet DEF AskedOnce

LEMMA ReaderKeepsOpens ==
    ASSUME TypeOK, WiresOK, ViewsOK, HandsOK, ReaderOK, OpenIsNeverLost, ReaderGoesOn
    PROVE  OpenIsNeverLost'
<1>1. UNCHANGED <<spc, scur, toClient>> /\ (link' => link)
  BY ReaderIsAlone, ReaderOnWire DEF ReaderAlone, sshVars
<1>2. ASSUME NEW s \in Conns, spc[s] = "open_wait"
      PROVE  \/ answer'[scur[s]] # "unset"
             \/ /\ scur[s] \in pendingOpen'
                /\ OnWire(toClient, "open", scur[s]) \/ AnswerOnWire(scur[s])'
             \/ ~link
  <2>1. scur[s] \in Chans
    BY <1>2 DEF HandsOK, HandOK, Allocated
  <2>2. answer[scur[s]] # "unset" => answer'[scur[s]] # "unset"
    BY <2>1, ReaderQuiet
  <2>3. scur[s] \in pendingOpen => scur[s] \in pendingOpen' \/ answer'[scur[s]] # "unset"
    BY ReaderQuiet
  <2>4. ASSUME scur[s] \in pendingOpen, AnswerOnWire(scur[s]), answer'[scur[s]] = "unset"
        PROVE  AnswerOnWire(scur[s])'
    BY <1>1, <2>4, ReaderQuiet DEF AnswerOnWire
  <2> QED
    BY <1>2, <2>2, <2>3, <2>4 DEF OpenIsNeverLost
<1> QED
  BY <1>1, <1>2 DEF OpenIsNeverLost

LEMMA ReaderKeepsEnds ==
    ASSUME TypeOK, WiresOK, ViewsOK, ReaderOK, EndsKnown, ReaderGoesOn
    PROVE  EndsKnown'
<1>1. end' = end /\ (link' => link)
  BY ReaderIsAlone, ReaderOnWire DEF ReaderAlone
<1>2. \A ch \in Chans : OnWire(toRelay', "close", ch) => end[ch] = "finished"
  BY ReaderOnWire DEF EndsKnown
<1>3. rpc' \in TellingPlaces => Over(rch)'
  <2>1. OnWire(toRelay, "close", rch') => rch' \in Chans
    BY OnWireAsked DEF TypeOK
  <2>2. rpc = "telling" => ~link
    BY DEF ReaderOK, EndsKnown
  <2>3. rpc' \in TellingPlaces => end[rch'] = "finished" \/ ~link
    BY <2>1, <2>2, ReaderQuiet DEF EndsKnown, Over
  <2> QED
    BY <1>1, <2>3 DEF Over
<1>4. ~alive' => ~link'
  BY <1>1, ReaderQuiet DEF EndsKnown
<1> QED
  BY <1>1, <1>2, <1>3, <1>4 DEF EndsKnown

\* The reader tells the operator of the end of a channel that is over.
LEMMA ReaderTells ==
    ASSUME TypeOK, ReaderOK, ReaderGoesOn, NEW c \in Chans,
           opView'[c] \in {"open", "closed"}
    PROVE  opView[c] \in {"open", "closed"} \/ (rpc \in TellingPlaces /\ c = rch)
<1>1. CASE WriteData \/ WriteEof
  <2>1. PICK msg \in {"data", "eof"}, from \in WritingPlaces : ReaderWrites(msg, from, "reading")
    BY <1>1 DEF WriteData, WriteEof, WritingPlaces
  <2>2. rch \in Chans
    BY <2>1 DEF ReaderWrites, ReaderOK, Allocated
  <2>3. CASE Written(owner[rch], rch, msg)
    BY <2>1, <2>2, <2>3, ToldView DEF After
  <2>4. CASE opView' = opView
    BY <2>4
  <2> QED
    BY <2>1, <2>3, <2>4 DEF ReaderWrites, viewVars
<1>2. CASE WriteClose
  <2>1. rpc \in TellingPlaces /\ rch \in Chans
    BY <1>2 DEF WriteClose, ReaderWrites, ReaderOK, Allocated, WritingPlaces, TellingPlaces
  <2>2. CASE Written(owner[rch], rch, "close")
    BY <2>1, <2>2, ToldView
  <2>3. CASE opView' = opView
    BY <2>3
  <2> QED
    BY <1>2, <2>2, <2>3 DEF WriteClose, ReaderWrites, viewVars
<1>3. CASE ~(WriteData \/ WriteEof \/ WriteClose)
  <2>1. opView' = opView
    BY <1>3 DEF ReaderGoesOn, ReadConfirm, ReadData, ReadEof, ReadForChannel, ReadClose, Reserve,
       ReserveFails, Unroute, Forget, ReadEnd, CloseClient, ListChannels, TellChannel, AllTold,
       viewVars
  <2> QED
    BY <2>1
<1> QED
  BY <1>1, <1>2, <1>3

LEMMA ReaderKeepsReach ==
    ASSUME TypeOK, WiresOK, ViewsOK, ReaderOK, EndsKnown, ToldIsReachable, ReaderGoesOn
    PROVE  ToldIsReachable'
<1>1. UNCHANGED <<spc, scur, opClosed>> /\ \A c : Over(c) => Over(c)'
  BY ReaderIsAlone, ReaderOnWire DEF ReaderAlone, sshVars, opVars, Over
<1>2. \A c \in sshChannels : c \in sshChannels' \/ Over(c)
  BY ReaderQuiet DEF EndsKnown
<1>3. ASSUME NEW c \in Chans, opView'[c] \in {"open", "closed"}
      PROVE  c \in sshChannels' \/ opClosed[c] \/ Over(c)
  BY <1>2, <1>3, ReaderTells DEF ToldIsReachable, EndsKnown
<1> QED
  BY <1>1, <1>2, <1>3 DEF ToldIsReachable

LEMMA ReaderKeepsCloses ==
    ASSUME TypeOK, WiresOK, ViewsOK, ReaderOK, CloseIsNeverLost, ReaderGoesOn
    PROVE  CloseIsNeverLost'
<1>1. UNCHANGED <<spc, scur, opClosed, end, toClient>> /\ (link' => link)
  BY ReaderIsAlone, ReaderOnWire DEF ReaderAlone, sshVars, opVars
<1>2. \A c \in Chans : owner'[c] = owner[c]
  BY ReaderIsAlone DEF ReaderAlone, Forward
<1> QED
  BY <1>1, <1>2 DEF CloseIsNeverLost

-----------------------------------------------------------------------------
\* The client answers what it is asked, and what it has ended stays ended.
LEMMA ClientKeepsNet ==
    ASSUME TypeOK, WiresOK, HandsOK, ReaderOK, NetInv, OutsideStep
    PROVE  NetInv'
<1> USE DEF NetInv
<1>0. /\ UNCHANGED <<clientVars, chanVars, sshVars, readerVars, opVars, viewVars>>
      /\ link' => link
  BY OutsideStays, ClientOnWire
<1> USE <1>0 DEF clientVars, chanVars, sshVars, readerVars, opVars, viewVars
<1>1. \A c \in Chans : end[c] # "none" => end'[c] # "none"
  BY ClientEnds
<1>2. \A c \in Chans : Over(c) => Over(c)'
  BY ClientEnds DEF Over
<1>3. AsksOK'
  <2>1. ASSUME NEW s \in Conns PROVE AskOK(s)'
    <3>1. AskOK(s) /\ (spc[s] \notin {"loop", "ended"} => scur[s] \in Chans)
      BY DEF AsksOK, HandsOK, HandOK, Allocated
    <3>2. ASSUME spc[s] = "open_send"
          PROVE  end'[scur[s]] = "none" /\ ~OnWire(toClient', "open", scur[s])
      <4>1. ~OnWire(toClient', "open", scur[s]) /\ ~OnWire(toClient, "open", scur[s])
        BY <3>1, <3>2, ClientOnWire DEF AskOK
      <4>2. ~(ClientOpens /\ ClientFrame = scur[s])
        BY <4>1, ClientOpensOne
      <4> QED
        BY <3>1, <3>2, <4>1, <4>2, ClientEnds DEF AskOK
    <3> QED
      BY <1>1, <3>1, <3>2 DEF AskOK
  <2> QED
    BY <2>1 DEF AsksOK
<1>4. AskedOnce'
  <2>1. ASSUME NEW ch \in Chans
        PROVE  /\ Single(toClient', <<"open", ch>>)
               /\ OnWire(toClient', "open", ch) => end'[ch] = "none"
               /\ AnswerOnWire(ch)' \/ answer[ch] # "unset" \/ bound[ch] => end'[ch] # "none"
    <3>1. Single(toClient', <<"open", ch>>)
      BY ClientOnWire DEF AskedOnce
    <3>2. OnWire(toClient', "open", ch) => end'[ch] = "none"
      BY ClientOnWire, ClientEnds DEF AskedOnce
    <3>3. AnswerOnWire(ch)' \/ answer[ch] # "unset" \/ bound[ch] => end'[ch] # "none"
      BY <1>1, ClientEnds DEF AskedOnce
    <3> QED
      BY <3>1, <3>2, <3>3
  <2> QED
    BY <2>1 DEF AskedOnce
<1>5. OpenIsNeverLost'
  <2>1. ASSUME NEW s \in Conns, spc[s] = "open_wait"
        PROVE  \/ answer[scur[s]] # "unset"
               \/ /\ scur[s] \in pendingOpen
                  /\ OnWire(toClient', "open", scur[s]) \/ AnswerOnWire(scur[s])'
               \/ ~link
    <3>1. scur[s] \in Chans
      BY <2>1 DEF HandsOK, HandOK, Allocated
    <3>2. AnswerOnWire(scur[s]) => AnswerOnWire(scur[s])'
      BY <3>1, ClientEnds DEF AnswerOnWire
    <3>3. OnWire(toClient, "open", scur[s]) =>
            OnWire(toClient', "open", scur[s]) \/ AnswerOnWire(scur[s])'
      BY <3>1, ClientEnds, ClientOnWire
    <3> QED
      BY <2>1, <3>2, <3>3 DEF OpenIsNeverLost
  <2> QED
    BY <2>1 DEF OpenIsNeverLost
<1>6. EndsKnown'
  <2>1. \A ch \in Chans : OnWire(toRelay', "close", ch) => end'[ch] = "finished"
    BY ClientEnds DEF EndsKnown
  <2>2. rpc \in TellingPlaces => rch \in Chans
    BY DEF ReaderOK, TellingPlaces, WritingPlaces, Allocated
  <2> QED
    BY <1>2, <2>1, <2>2 DEF EndsKnown
<1>7. ToldIsReachable'
  <2>1. \A s \in Conns : spc[s] = "open_confirm" => scur[s] \in Chans
    BY DEF HandsOK, HandOK, Allocated
  <2> QED
    BY <1>2, <2>1 DEF ToldIsReachable
<1>8. CloseIsNeverLost'
  <2>1. ASSUME NEW c \in Chans, opClosed[c]
        PROVE  \/ end'[c] \notin {"none", "open"}
               \/ spc[owner[c]] = "close_send" /\ scur[owner[c]] = c
               \/ OnWire(toClient', "close", c)
               \/ ~link
    <3>1. end[c] \notin {"none", "open"} => end'[c] \notin {"none", "open"}
      BY ClientEnds
    <3>2. end'[c] # "none"
      BY <1>1, <2>1 DEF AskedOnce
    <3>3. OnWire(toClient, "close", c) => OnWire(toClient', "close", c) \/ end'[c] # "open"
      BY ClientOnWire, ClientEnds
    <3> QED
      BY <2>1, <3>1, <3>2, <3>3 DEF CloseIsNeverLost
  <2> QED
    BY <2>1 DEF CloseIsNeverLost
<1> QED
  BY <1>3, <1>4, <1>5, <1>6, <1>7, <1>8

-----------------------------------------------------------------------------
LEMMA InitNet == Init => NetInv
<1> SUFFICES ASSUME Init PROVE NetInv
  OBVIOUS
<1> USE DEF Init
<1>1. \A type, ch : ~OnWire(toClient, type, ch) /\ ~OnWire(toRelay, type, ch)
  BY DEF OnWire
<1>2. AsksOK /\ OpenIsNeverLost /\ CloseIsNeverLost
  BY DEF AsksOK, AskOK, OpenIsNeverLost, CloseIsNeverLost
<1>3. AskedOnce
  BY <1>1 DEF AskedOnce, Single, AnswerOnWire
<1>4. EndsKnown /\ ToldIsReachable
  BY <1>1 DEF EndsKnown, ToldIsReachable, TellingPlaces, ClosingPlaces
<1> QED
  BY <1>2, <1>3, <1>4 DEF NetInv

LEMMA NextNet == IInv /\ NetInv /\ [Next]_vars => NetInv'
<1> SUFFICES ASSUME IInv, NetInv, [Next]_vars PROVE NetInv'
  OBVIOUS
<1> USE DEF IInv, NetInv
<1>1. ASSUME NEW s \in Conns, SshStep(s) PROVE NetInv'
  BY <1>1, SshKeepsAsks, SshKeepsAsked, SshKeepsOpens, SshKeepsEnds, SshKeepsReach, SshKeepsCloses
<1>2. CASE ReaderGoesOn
  BY <1>2, ReaderKeepsAsks, ReaderKeepsAsked, ReaderKeepsOpens, ReaderKeepsEnds,
     ReaderKeepsReach, ReaderKeepsCloses
<1>3. CASE OutsideStep
  BY <1>3, ClientKeepsNet
<1>4. CASE UNCHANGED vars
  <2> USE <1>4 DEF vars, clientVars, chanVars, sshVars, readerVars, netVars, endVars, opVars,
          viewVars
  <2>1. AsksOK' /\ OpenIsNeverLost' /\ CloseIsNeverLost'
    BY DEF AsksOK, AskOK, OpenIsNeverLost, CloseIsNeverLost, AnswerOnWire
  <2>2. AskedOnce' /\ EndsKnown' /\ ToldIsReachable'
    BY DEF AskedOnce, EndsKnown, ToldIsReachable, Over, AnswerOnWire
  <2> QED
    BY <2>1, <2>2
<1> QED
  BY <1>1, <1>2, <1>3, <1>4, StepsAre

LEMMA NetInvariance == Spec => []NetInv
  BY InitNet, NextNet, Invariance, PTL DEF Spec

\* For any number of operators and channels, an open that waits has its request
\* or its answer on the way while the link is up (relay.py:165-184, 215-220;
\* client.py:222-248).
THEOREM OpensAreNotLost == Spec => []OpenIsNeverLost
  BY NetInvariance, PTL DEF NetInv

\* For any number of operators and channels, the CLOSE of an operator is with its
\* thread or on the way until the client's end has closed, or the client is gone
\* (relay.py:327-331, 345-349, 746-752).
THEOREM ClosesAreNotLost == Spec => []CloseIsNeverLost
  BY NetInvariance, PTL DEF NetInv
=============================================================================
