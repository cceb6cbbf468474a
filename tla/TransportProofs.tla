---------------------------- MODULE TransportProofs ----------------------------
(***************************************************************************)
(* Proofs about the two byte streams below the channels.  SshTransport:    *)
(* packets are read as they were sent, whatever the number of senders and  *)
(* of sequence numbers; an operator sees one host key, whatever the number *)
(* of relay processes and their crashes; a handshake never comes to where  *)
(* the two ends wait for each other; and what the relay does not know it   *)
(* names when it answers.  FrameLink: it implements FrameStream, whatever  *)
(* the number of writers, frames and pings.                                *)
(***************************************************************************)
EXTENDS SshTransport, FrameLink, SequenceTheorems, WellFoundedInduction, TLAPS

-----------------------------------------------------------------------------
(* The host key file *)

\* The file is made once, by one process, and is never made again.
OneWriter ==
    /\ hostFile \in Nat \cup {Absent} /\ made \in Nat
    /\ hpc \in [Relays -> HPlaces] /\ hostSeed \in [Relays -> Nat]
    /\ \A r \in Relays :
         /\ hpc[r] \in {"creating", "writing"} => hostSeed[r] # Empty
         /\ hpc[r] = "reading" => hostFile # Absent
         /\ hpc[r] = "writing" => hostFile = Empty
         /\ \A s \in Relays : hpc[r] = "writing" /\ hpc[s] = "writing" => r = s

HostInv == OneWriter /\ ServesTheFile

-----------------------------------------------------------------------------
(* The connection *)

PacketSet == [msg : Messages, keyed : BOOLEAN, seq : Seqs, names : Seqs, key : Nat]

RelaySends == {"KEXINIT", "ECDH_REPLY", "NEWKEYS", "SERVICE_ACCEPT", "PK_OK",
               "FAILURE", "SUCCESS", "REPLY", "UNIMPLEMENTED", "DISCONNECT"}

WireTypes ==
    /\ rpc \in RelayPlaces /\ opc \in OperatorPlaces
    /\ toSend \in RelaySends \cup {None} /\ (toSend # None <=> rpc = "sending")
    /\ sending \in [Threads -> PacketSet \cup {NoPacket}]
    /\ sendSeq \in Seqs /\ recvSeq \in Seqs /\ osend \in Seqs /\ orecv \in Seqs
    /\ sendKeyed \in BOOLEAN /\ recvKeyed \in BOOLEAN
    /\ okeyed \in BOOLEAN /\ orkeyed \in BOOLEAN
    /\ toOperator \in Seq(PacketSet) /\ toRelay \in Seq(PacketSet)

\* the connection's thread reads and sends no more
Doomed == rpc \in {"none", "closed"} \/ toSend = "DISCONNECT"

\* One thread at a time has a packet that is encrypted and not yet written, and
\* it holds send_lock; nobody has one when the cipher is set.
OneSender ==
    /\ sendLock \in Threads \cup {None}
    /\ \A t \in Threads : sending[t] # NoPacket =>
         /\ sendLock = t /\ sending[t].seq = sendSeq /\ sending[t].keyed = sendKeyed
         /\ sending[t].msg = IF t = "main" THEN toSend ELSE "DATA"
    /\ sending["main"] # NoPacket => rpc = "sending"
    /\ rpc \in {"greeting", "switching"} => \A t \in Threads : sending[t] = NoPacket

\* the number and the key of what is sent after packet p, and after queue q,
\* whose reader expects number n and key k
NumberAfter(p) == IF p.msg = "VERSION" THEN 0 ELSE Next1(p.seq)
KeyedAfter(p) == p.keyed \/ p.msg = "NEWKEYS"
NextNumber(q, n) == IF q = <<>> THEN n ELSE NumberAfter(q[Len(q)])
NextKeyed(q, k) == IF q = <<>> THEN k ELSE KeyedAfter(q[Len(q)])

\* the packets in queue q follow each other, and its reader
Follows(q, n, k) ==
    /\ \A i \in 1..Len(q) - 1 : q[i + 1].seq = NumberAfter(q[i]) /\ q[i + 1].keyed = KeyedAfter(q[i])
    /\ \A i \in 1..Len(q) : q[i].msg = "VERSION" => ~q[i].keyed
    /\ q # <<>> => q[1].keyed = k /\ (q[1].msg # "VERSION" => q[1].seq = n)

ToOperatorInv ==
    /\ Follows(toOperator, orecv, orkeyed)
    /\ rpc # "closed" => sendSeq = NextNumber(toOperator, orecv)
    /\ rpc \notin {"closed", "switching"} => sendKeyed = NextKeyed(toOperator, orkeyed)
    /\ rpc = "switching" => NextKeyed(toOperator, orkeyed)
    /\ rpc = "greeting" => toOperator = <<>> /\ orecv = 0 /\ ~orkeyed

Greeted == rpc \notin {"greeting", "want_version"}
AfterKeys ==
    \/ rpc \in {"want_service", "want_auth", "approving", "loop"}
    \/ toSend \in {"SERVICE_ACCEPT", "PK_OK", "FAILURE", "SUCCESS", "REPLY", "UNIMPLEMENTED"}

ToRelayInv == ~Doomed =>
    /\ Follows(toRelay, recvSeq, recvKeyed)
    /\ osend = NextNumber(toRelay, recvSeq)
    /\ okeyed = NextKeyed(toRelay, recvKeyed)
    /\ \A i \in 1..Len(toRelay) : toRelay[i].msg = "VERSION" => i = 1 /\ ~Greeted
    /\ ~Greeted => toRelay # <<>> /\ toRelay[1].msg = "VERSION" /\ recvSeq = 0 /\ ~recvKeyed
    /\ AfterKeys => recvKeyed

\* A relay process that has a connection serves, and what it shows is its seed.
KeyShown ==
    /\ rpc \notin {"none", "closed"} => served \in Relays /\ CanServe(served)
    /\ \A t \in Threads : sending[t] # NoPacket /\ sending[t].msg = "ECDH_REPLY" =>
         sending[t].key = hostFile /\ hostFile \in Nat \ {Empty}
    /\ \A i \in 1..Len(toOperator) : toOperator[i].msg = "ECDH_REPLY" =>
         toOperator[i].key = hostFile /\ hostFile \in Nat \ {Empty}
    /\ pinned \in Nat /\ pinned \in {Empty, hostFile}
    /\ ~changed

WireInv == WireTypes /\ OneSender /\ ToOperatorInv /\ ToRelayInv /\ NothingGarbled

-----------------------------------------------------------------------------
(* The file stays what it is once a seed is in it *)

LEMMA StartsNothing ==
    ASSUME HostInv, NEW r \in Relays, NEW place \in HPlaces \ {"creating", "writing", "reading", "serving"},
           HostGoes(r, place), UNCHANGED <<hostFile, hostSeed, made>>
    PROVE  HostInv'
  BY DEF HostInv, OneWriter, ServesTheFile, CanServe, HostGoes

LEMMA HostStep ==
    ASSUME HostInv, NEW r \in Relays,
           Start(r) \/ Look(r) \/ ReadSeed(r) \/ Create(r) \/ WriteSeed(r) \/ Crash(r)
    PROVE  /\ HostInv'
           /\ hostFile \notin {Absent, Empty} => hostFile' = hostFile
           /\ \A s \in Relays : CanServe(s) /\ (s # r \/ ~Crash(r)) => CanServe(s)'
<1> USE DEF HostInv, OneWriter, ServesTheFile, CanServe, HostGoes, HPlaces
<1>1. CASE Start(r)
  BY <1>1 DEF Start
<1>2. CASE Look(r)
  BY <1>2 DEF Look, Empty
<1>3. CASE ReadSeed(r)
  BY <1>3 DEF ReadSeed, Absent
<1>4. CASE Create(r)
  <2>1. CASE hostFile = Absent /\ hostFile' = Empty /\ HostGoes(r, "writing")
    BY <1>4, <2>1 DEF Create, Absent, Empty
  <2>2. CASE hostFile # Absent /\ HostGoes(r, "down") /\ UNCHANGED hostFile
    BY <1>4, <2>2 DEF Create
  <2> QED
    BY <1>4, <2>1, <2>2 DEF Create
<1>5. CASE WriteSeed(r)
  BY <1>5 DEF WriteSeed, Absent, Empty
<1>6. CASE Crash(r)
  BY <1>6 DEF Crash
<1> QED
  BY <1>1, <1>2, <1>3, <1>4, <1>5, <1>6

-----------------------------------------------------------------------------
(* Queues of packets *)

\* Sequence numbers wrap.
LEMMA Wraps ==
    \A n \in Seqs : /\ Next1(n) \in Seqs /\ n % Modulus = n
                    /\ (n + 1 - 1) % Modulus = n /\ (n + 0) % Modulus = n
                    /\ (n + Modulus - 1) % Modulus \in Seqs
  BY TransportAssumption DEF Seqs, Next1

LEMMA ZeroIsOne == 0 \in Seqs
  BY TransportAssumption DEF Seqs

\* A packet with the number and the key that come next is put behind a queue.
LEMMA AppendFollows ==
    ASSUME NEW q \in Seq(PacketSet), NEW n \in Seqs, NEW k \in BOOLEAN, Follows(q, n, k),
           NEW p \in PacketSet, p.msg # "VERSION" \/ (~p.keyed /\ q = <<>>),
           p.msg # "VERSION" => p.seq = NextNumber(q, n), p.keyed = NextKeyed(q, k)
    PROVE  /\ Append(q, p) \in Seq(PacketSet) /\ Follows(Append(q, p), n, k)
           /\ NextNumber(Append(q, p), n) = NumberAfter(p)
           /\ NextKeyed(Append(q, p), k) = KeyedAfter(p)
           /\ \A i \in 1..Len(Append(q, p)) :
                (i \in 1..Len(q) /\ Append(q, p)[i] = q[i]) \/ (i = Len(q) + 1 /\ Append(q, p)[i] = p)
<1> DEFINE s == Append(q, p)
<1>1. /\ s \in Seq(PacketSet) /\ Len(s) = Len(q) + 1 /\ s # <<>> /\ s[Len(s)] = p
      /\ \A i \in 1..Len(q) : s[i] = q[i]
      /\ Len(q) \in Nat
  <2>1. s \in Seq(PacketSet) /\ Len(s) = Len(q) + 1 /\ Len(q) \in Nat
    OBVIOUS
  <2>2. s[Len(s)] = p /\ \A i \in 1..Len(q) : s[i] = q[i]
    OBVIOUS
  <2> HIDE DEF s
  <2>3. s # <<>>
    BY <2>1
  <2> QED
    BY <2>1, <2>2, <2>3
<1>2. q # <<>> => q[Len(q)] \in PacketSet /\ Len(q) > 0
  OBVIOUS
<1>3. \A i \in 1..Len(s) - 1 : s[i + 1].seq = NumberAfter(s[i]) /\ s[i + 1].keyed = KeyedAfter(s[i])
  <2> SUFFICES ASSUME NEW i \in 1..Len(s) - 1
               PROVE  s[i + 1].seq = NumberAfter(s[i]) /\ s[i + 1].keyed = KeyedAfter(s[i])
    OBVIOUS
  <2>1. CASE i < Len(q)
    BY <1>1, <2>1 DEF Follows
  <2>2. CASE i = Len(q)
    BY <1>1, <1>2, <2>2 DEF NextNumber, NextKeyed
  <2> QED
    BY <1>1, <2>1, <2>2
<1>4. \A i \in 1..Len(s) : s[i].msg = "VERSION" => ~s[i].keyed
  BY <1>1 DEF Follows
<1>5. s[1].keyed = k /\ (s[1].msg # "VERSION" => s[1].seq = n)
  <2>1. CASE q = <<>>
    BY <1>1, <2>1 DEF NextNumber, NextKeyed
  <2>2. CASE q # <<>>
    BY <1>1, <1>2, <2>2 DEF Follows
  <2> QED
    BY <2>1, <2>2
<1>6. Follows(s, n, k)
  BY <1>3, <1>4, <1>5 DEF Follows
<1>7. NextNumber(s, n) = NumberAfter(p) /\ NextKeyed(s, k) = KeyedAfter(p)
  BY <1>1 DEF NextNumber, NextKeyed
<1> HIDE DEF s
<1>8. \A i \in 1..Len(s) : (i \in 1..Len(q) /\ s[i] = q[i]) \/ (i = Len(q) + 1 /\ s[i] = p)
  BY <1>1
<1> QED
  BY <1>1, <1>6, <1>7, <1>8 DEF s

\* The head of a queue is read, as what it was sent.
LEMMA TailFollows ==
    ASSUME NEW q \in Seq(PacketSet), NEW n \in Seqs, NEW k \in BOOLEAN, Follows(q, n, k),
           q # <<>>
    PROVE  /\ Head(q) \in PacketSet /\ Tail(q) \in Seq(PacketSet)
           /\ Head(q).msg # "VERSION" => ReadsWell(Head(q), k, n) /\ Head(q).seq = n
           /\ Head(q).msg = "VERSION" => ReadsWell(Head(q), k, n)
           /\ Head(q).keyed = k
           /\ Follows(Tail(q), NumberAfter(Head(q)), KeyedAfter(Head(q)))
           /\ NextNumber(Tail(q), NumberAfter(Head(q))) = NextNumber(q, n)
           /\ NextKeyed(Tail(q), KeyedAfter(Head(q))) = NextKeyed(q, k)
           /\ \A i \in 1..Len(Tail(q)) : i + 1 \in 1..Len(q) /\ Tail(q)[i] = q[i + 1]
<1> DEFINE s == Tail(q)
<1>1. /\ s \in Seq(PacketSet) /\ Len(s) = Len(q) - 1 /\ Len(q) \in Nat /\ Len(q) > 0
      /\ \A i \in 1..Len(s) : s[i] = q[i + 1]
      /\ Head(q) = q[1] /\ q[1] \in PacketSet
  OBVIOUS
<1>2. q[1].keyed = k /\ (q[1].msg # "VERSION" => q[1].seq = n)
      /\ (q[1].msg = "VERSION" => ~q[1].keyed)
  BY <1>1 DEF Follows
<1>3. \A i \in 1..Len(s) - 1 : s[i + 1].seq = NumberAfter(s[i]) /\ s[i + 1].keyed = KeyedAfter(s[i])
  BY <1>1 DEF Follows
<1>4. \A i \in 1..Len(s) : s[i].msg = "VERSION" => ~s[i].keyed
  BY <1>1 DEF Follows
<1>5. s # <<>> => Len(s) > 0 /\ s[1].keyed = KeyedAfter(q[1]) /\ s[1].seq = NumberAfter(q[1])
  BY <1>1 DEF Follows
<1>6. Follows(s, NumberAfter(q[1]), KeyedAfter(q[1]))
  BY <1>3, <1>4, <1>5 DEF Follows
<1>7. CASE s = <<>>
  <2>0. Len(s) = 0
    <3> HIDE DEF s
    <3> QED
      BY <1>7
  <2>1. Len(q) = 1 /\ q[Len(q)] = q[1] /\ q # <<>>
    <3> HIDE DEF s
    <3>1. Len(q) = 1
      BY <1>1, <2>0
    <3> QED
      BY <3>1
  <2>2. NextNumber(s, NumberAfter(q[1])) = NextNumber(q, n)
        /\ NextKeyed(s, KeyedAfter(q[1])) = NextKeyed(q, k)
    BY <1>7, <2>1 DEF NextNumber, NextKeyed
  <2>3. ReadsWell(q[1], k, n) \/ q[1].msg = "VERSION"
    BY <1>2 DEF ReadsWell
  <2>4. q[1].msg = "VERSION" => ReadsWell(q[1], k, n)
    BY <1>2 DEF ReadsWell
  <2> HIDE DEF s
  <2> QED
    BY <1>1, <1>2, <1>6, <2>2, <2>3, <2>4 DEF s
<1>8. CASE s # <<>>
  <2>1. s[Len(s)] = q[Len(q)] /\ q # <<>>
    BY <1>1, <1>5, <1>8
  <2> QED
    BY <1>1, <1>2, <1>6, <1>8, <2>1 DEF NextNumber, NextKeyed, ReadsWell
<1> QED
  BY <1>7, <1>8

LEMMA EmptyFollows == \A n, k : Follows(<<>>, n, k)
  BY DEF Follows

-----------------------------------------------------------------------------
(* The steps of the connection *)

LEMMA InitHolds == Init => HostInv /\ WireInv /\ KeyShown
<1> SUFFICES ASSUME Init
             PROVE  HostInv /\ WireInv /\ KeyShown
  OBVIOUS
<1>1. HostInv
  BY DEF Init, HostKeyInit, HostInv, OneWriter, ServesTheFile, CanServe, Absent, Empty, HPlaces
<1>2. WireTypes
  <2>1. sending \in [Threads -> PacketSet \cup {NoPacket}]
    BY DEF Init
  <2>2. toOperator \in Seq(PacketSet) /\ toRelay \in Seq(PacketSet)
    BY DEF Init
  <2> QED
    BY <2>1, <2>2, ZeroIsOne DEF Init, WireTypes, RelayPlaces, OperatorPlaces, None
<1>3. OneSender
  BY DEF Init, OneSender, None, Threads, NoPacket
<1>4. ToOperatorInv
  BY EmptyFollows DEF Init, ToOperatorInv, NextNumber, NextKeyed
<1>5. ToRelayInv /\ NothingGarbled
  BY DEF Init, ToRelayInv, Doomed, NothingGarbled
<1>6. KeyShown
  BY DEF Init, KeyShown, Empty, NoPacket
<1> QED
  BY <1>1, <1>2, <1>3, <1>4, <1>5, <1>6 DEF WireInv

\* A packet the relay sends goes behind those on the way to the operator.
LEMMA RelayAppends ==
    ASSUME WireInv, rpc \notin {"closed", "switching"}, NEW p \in PacketSet,
           toOperator' = Append(toOperator, p),
           p.msg # "VERSION" \/ (rpc = "greeting" /\ p.keyed = FALSE),
           p.msg # "VERSION" => p.seq = sendSeq, p.keyed = sendKeyed,
           UNCHANGED <<orecv, orkeyed, sendKeyed>>,
           sendSeq' = NumberAfter(p),
           rpc' # "greeting",
           rpc' = "switching" <=> p.msg = "NEWKEYS"
    PROVE  toOperator' \in Seq(PacketSet) /\ ToOperatorInv'
<1>1. /\ Follows(toOperator, orecv, orkeyed) /\ sendSeq = NextNumber(toOperator, orecv)
      /\ sendKeyed = NextKeyed(toOperator, orkeyed)
      /\ rpc = "greeting" => toOperator = <<>>
      /\ toOperator \in Seq(PacketSet) /\ orecv \in Seqs /\ orkeyed \in BOOLEAN
  BY DEF WireInv, ToOperatorInv, WireTypes
<1>2. /\ toOperator' \in Seq(PacketSet) /\ Follows(toOperator', orecv, orkeyed)
      /\ NextNumber(toOperator', orecv) = NumberAfter(p)
      /\ NextKeyed(toOperator', orkeyed) = KeyedAfter(p)
  BY <1>1, AppendFollows
<1>3. KeyedAfter(p) = IF rpc' = "switching" THEN TRUE ELSE sendKeyed
  BY DEF KeyedAfter, PacketSet
<1> QED
  BY <1>2, <1>3 DEF ToOperatorInv

LEMMA GreetKeeps ==
    ASSUME WireInv, Greet
    PROVE  WireInv'
<1> DEFINE p == Packet("VERSION", FALSE, 0, 0, Empty)
<1>1. p \in PacketSet /\ p.msg = "VERSION" /\ p.keyed = FALSE
  BY ZeroIsOne DEF Packet, PacketSet, Messages, Empty
<1>2. /\ rpc = "greeting" /\ rpc' = "want_version" /\ toSend' = None
      /\ toOperator' = Append(toOperator, p)
      /\ UNCHANGED <<operatorVars, historyVars, toRelay, sending, sendLock, sendSeq, recvSeq,
                     sendKeyed, recvKeyed, sent>>
  BY DEF Greet, Goes
<1>3. sendKeyed = FALSE /\ sendSeq = 0
  BY <1>2 DEF WireInv, ToOperatorInv, NextKeyed, NextNumber
<1>4. toOperator' \in Seq(PacketSet) /\ ToOperatorInv'
  <2>1. NumberAfter(p) = 0
    BY <1>1 DEF NumberAfter
  <2> HIDE DEF p
  <2>2. UNCHANGED <<orecv, orkeyed, sendKeyed, sendSeq>>
    BY <1>2 DEF operatorVars
  <2> QED
    BY <1>1, <1>2, <1>3, <2>1, <2>2, RelayAppends
<1>5. WireTypes'
  BY <1>2, <1>4 DEF WireInv, WireTypes, operatorVars, RelayPlaces
<1>6. OneSender'
  BY <1>2 DEF WireInv, OneSender
<1>7. ToRelayInv'
  BY <1>2 DEF WireInv, ToRelayInv, Doomed, Greeted, AfterKeys, operatorVars, None, WireTypes
<1> QED
  BY <1>2, <1>4, <1>5, <1>6, <1>7 DEF WireInv, NothingGarbled, historyVars

LEMMA ReadVersionKeeps ==
    ASSUME WireInv, ReadVersion
    PROVE  WireInv'
<1>1. /\ rpc = "want_version" /\ toRelay # <<>> /\ rpc' = "sending" /\ toSend' = "KEXINIT"
      /\ toRelay' = Tail(toRelay)
      /\ UNCHANGED <<operatorVars, historyVars, toOperator, sending, sendLock, sendSeq, recvSeq,
                     sendKeyed, recvKeyed>>
  BY DEF ReadVersion, Sends
<1>2. /\ toSend = None /\ toRelay \in Seq(PacketSet) /\ recvSeq \in Seqs /\ recvKeyed \in BOOLEAN
      /\ ~Doomed
  BY <1>1 DEF WireInv, WireTypes, Doomed, None
<1>3. /\ Follows(toRelay, recvSeq, recvKeyed) /\ toRelay[1].msg = "VERSION" /\ recvSeq = 0 /\ ~recvKeyed
      /\ osend = NextNumber(toRelay, recvSeq) /\ okeyed = NextKeyed(toRelay, recvKeyed)
      /\ \A i \in 1..Len(toRelay) : toRelay[i].msg = "VERSION" => i = 1
  BY <1>1, <1>2 DEF WireInv, ToRelayInv, Greeted
<1>4. Head(toRelay) = toRelay[1] /\ Head(toRelay) \in PacketSet
  BY <1>1, <1>2
<1>5. NumberAfter(Head(toRelay)) = 0 /\ Head(toRelay).keyed = FALSE
  BY <1>1, <1>2, <1>3, <1>4, TailFollows DEF NumberAfter
<1>6. KeyedAfter(Head(toRelay)) = recvKeyed /\ NumberAfter(Head(toRelay)) = recvSeq
  BY <1>2, <1>3, <1>4, <1>5 DEF KeyedAfter
<1>7. /\ toRelay' \in Seq(PacketSet) /\ Follows(toRelay', recvSeq, recvKeyed)
      /\ osend = NextNumber(toRelay', recvSeq) /\ okeyed = NextKeyed(toRelay', recvKeyed)
      /\ \A i \in 1..Len(toRelay') : i + 1 \in 1..Len(toRelay) /\ toRelay'[i] = toRelay[i + 1]
  BY <1>1, <1>2, <1>3, <1>6, TailFollows
<1>8. \A i \in 1..Len(toRelay') : toRelay'[i].msg # "VERSION"
  BY <1>3, <1>7
<1>9. ToRelayInv'
  BY <1>1, <1>7, <1>8 DEF ToRelayInv, Greeted, AfterKeys, operatorVars
<1>10. WireTypes'
  BY <1>1, <1>7 DEF WireInv, WireTypes, operatorVars, RelayPlaces, RelaySends, None
<1>11. OneSender' /\ ToOperatorInv'
  BY <1>1 DEF WireInv, OneSender, ToOperatorInv, operatorVars
<1> QED
  BY <1>1, <1>9, <1>10, <1>11 DEF WireInv, NothingGarbled, historyVars

\* Where a message that was read leads: to another place, or to an answer.
LEMMA ReactionLeads ==
    ASSUME NEW place \in {"want_kexinit", "want_init", "want_newkeys", "want_service",
                          "want_auth", "loop"},
           NEW msg, Reaction(place, msg)
    PROVE  \/ Sends("DISCONNECT")
           \/ /\ Goes(place) /\ msg = "IGNORE"
           \/ /\ place = "want_kexinit" /\ msg = "KEXINIT" /\ Goes("want_init")
           \/ /\ place = "want_init" /\ msg = "ECDH_INIT" /\ Sends("ECDH_REPLY")
           \/ /\ place = "want_newkeys" /\ msg = "NEWKEYS" /\ Goes("want_service")
           \/ /\ place = "want_service" /\ msg = "SERVICE_REQUEST" /\ Sends("SERVICE_ACCEPT")
           \/ /\ place = "want_auth" /\ msg = "USERAUTH_REQUEST" /\ Goes("approving")
           \/ /\ place = "loop" /\ msg # "IGNORE"
              /\ Sends(IF msg = "REQUEST" THEN "REPLY" ELSE "UNIMPLEMENTED")
<1>1. CASE place = "loop"
  BY <1>1 DEF Reaction
<1>2. CASE place # "loop"
  <2>0. /\ Wanted["want_kexinit"] = "KEXINIT" /\ Wanted["want_init"] = "ECDH_INIT"
        /\ Wanted["want_newkeys"] = "NEWKEYS" /\ Wanted["want_service"] = "SERVICE_REQUEST"
        /\ Wanted["want_auth"] = "USERAUTH_REQUEST"
    BY DEF Wanted
  <2>1. CASE msg = Wanted[place]
    <3>1. CASE place = "want_kexinit"
      BY <2>0, <2>1, <3>1 DEF Reaction
    <3>2. CASE place = "want_init"
      BY <2>0, <2>1, <3>2 DEF Reaction
    <3>3. CASE place = "want_newkeys"
      BY <2>0, <2>1, <3>3 DEF Reaction
    <3>4. CASE place = "want_service"
      BY <2>0, <2>1, <3>4 DEF Reaction
    <3>5. CASE place = "want_auth"
      BY <2>0, <2>1, <3>5 DEF Reaction
    <3> QED
      BY <1>2, <3>1, <3>2, <3>3, <3>4, <3>5
  <2>2. CASE msg # Wanted[place]
    BY <1>2, <2>2 DEF Reaction
  <2> QED
    BY <2>1, <2>2
<1> QED
  BY <1>1, <1>2

LEMMA RelayReadsKeeps ==
    ASSUME WireInv, RelayReads
    PROVE  WireInv'
<1> DEFINE p == Head(toRelay)
<1>1. /\ rpc \in {"want_kexinit", "want_init", "want_newkeys", "want_service", "want_auth", "loop"}
      /\ toRelay # <<>> /\ toRelay' = Tail(toRelay)
      /\ UNCHANGED <<operatorVars, toOperator, sending, sendLock, sendSeq, sendKeyed>>
  BY DEF RelayReads
<1>2. /\ toSend = None /\ toRelay \in Seq(PacketSet) /\ recvSeq \in Seqs /\ recvKeyed \in BOOLEAN
      /\ ~Doomed /\ Greeted
  BY <1>1 DEF WireInv, WireTypes, Doomed, None, Greeted
<1>3. /\ Follows(toRelay, recvSeq, recvKeyed)
      /\ osend = NextNumber(toRelay, recvSeq) /\ okeyed = NextKeyed(toRelay, recvKeyed)
      /\ \A i \in 1..Len(toRelay) : toRelay[i].msg # "VERSION"
      /\ AfterKeys => recvKeyed
  BY <1>2 DEF WireInv, ToRelayInv
<1>4. /\ p \in PacketSet /\ p = toRelay[1] /\ p.msg # "VERSION" /\ 1 \in 1..Len(toRelay)
  <2>1. p \in PacketSet /\ p = toRelay[1] /\ 1 \in 1..Len(toRelay)
    BY <1>1, <1>2
  <2> QED
    BY <1>3, <2>1
<1>5. /\ ReadsWell(p, recvKeyed, recvSeq) /\ p.keyed = recvKeyed /\ NumberAfter(p) = Next1(recvSeq)
      /\ toRelay' \in Seq(PacketSet) /\ Follows(toRelay', NumberAfter(p), KeyedAfter(p))
      /\ NextNumber(toRelay', NumberAfter(p)) = osend /\ NextKeyed(toRelay', KeyedAfter(p)) = okeyed
      /\ \A i \in 1..Len(toRelay') : i + 1 \in 1..Len(toRelay) /\ toRelay'[i] = toRelay[i + 1]
  BY <1>1, <1>2, <1>3, <1>4, TailFollows DEF NumberAfter
<1>6. Reaction(rpc, p.msg) /\ recvSeq' = Next1(recvSeq)
  BY <1>5 DEF RelayReads
<1>7. ~garbled'
  BY <1>5 DEF RelayReads, WireInv, NothingGarbled
<1>8. recvKeyed' = (recvKeyed \/ (rpc = "want_newkeys" /\ p.msg = "NEWKEYS"))
  BY <1>5 DEF RelayReads
<1>9. recvKeyed' \in BOOLEAN /\ recvSeq' \in Seqs
  BY <1>2, <1>6, <1>8, Wraps
<1>10. \/ Sends("DISCONNECT")
       \/ /\ Goes(rpc) /\ p.msg = "IGNORE"
       \/ /\ rpc = "want_kexinit" /\ p.msg = "KEXINIT" /\ Goes("want_init")
       \/ /\ rpc = "want_init" /\ p.msg = "ECDH_INIT" /\ Sends("ECDH_REPLY")
       \/ /\ rpc = "want_newkeys" /\ p.msg = "NEWKEYS" /\ Goes("want_service")
       \/ /\ rpc = "want_service" /\ p.msg = "SERVICE_REQUEST" /\ Sends("SERVICE_ACCEPT")
       \/ /\ rpc = "want_auth" /\ p.msg = "USERAUTH_REQUEST" /\ Goes("approving")
       \/ /\ rpc = "loop" /\ (Sends("REPLY") \/ Sends("UNIMPLEMENTED"))
  <2> HIDE DEF p
  <2> QED
    BY <1>1, <1>6, ReactionLeads
<1>11. /\ rpc' \notin {"greeting", "want_version", "switching", "none", "closed"}
       /\ rpc' \in RelayPlaces /\ toSend' \in RelaySends \cup {None} /\ (toSend' # None <=> rpc' = "sending")
  BY <1>1, <1>10 DEF Goes, Sends, RelayPlaces, RelaySends, None
<1>12. WireTypes'
  BY <1>1, <1>5, <1>9, <1>11 DEF WireInv, WireTypes, operatorVars
<1>13. OneSender'
  <2>1. sending["main"] = NoPacket
    BY <1>1 DEF WireInv, OneSender
  <2> QED
    BY <1>1, <1>11, <2>1 DEF WireInv, OneSender, Threads
<1>14. ToOperatorInv'
  BY <1>1, <1>11 DEF WireInv, ToOperatorInv, operatorVars
<1>15. CASE Sends("DISCONNECT")
  BY <1>7, <1>12, <1>13, <1>14, <1>15 DEF WireInv, ToRelayInv, Doomed, Sends, NothingGarbled
<1>16. CASE ~Sends("DISCONNECT")
  <2>1. KeyedAfter(p) = recvKeyed'
    <3>1. CASE p.msg = "NEWKEYS"
      <4>1. recvKeyed' = TRUE
        <5>1. CASE rpc = "want_newkeys"
          BY <1>8, <3>1, <5>1
        <5>2. CASE rpc = "loop"
          BY <1>3, <1>8, <5>2 DEF AfterKeys
        <5> QED
          BY <1>10, <1>16, <3>1, <5>1, <5>2
      <4> QED
        BY <3>1, <4>1 DEF KeyedAfter
    <3>2. CASE p.msg # "NEWKEYS"
      BY <1>2, <1>5, <1>8, <3>2 DEF KeyedAfter
    <3> QED
      BY <3>1, <3>2
  <2>2. /\ Follows(toRelay', recvSeq', recvKeyed')
        /\ osend' = NextNumber(toRelay', recvSeq') /\ okeyed' = NextKeyed(toRelay', recvKeyed')
        /\ \A j \in 1..Len(toRelay') : toRelay'[j].msg # "VERSION"
    BY <1>1, <1>3, <1>5, <1>6, <2>1 DEF operatorVars
  <2>3. AfterKeys' => recvKeyed'
    <3>1. AfterKeys' => \/ AfterKeys
                        \/ rpc = "want_newkeys" /\ p.msg = "NEWKEYS"
      BY <1>1, <1>10, <1>16 DEF AfterKeys, Goes, Sends, None
    <3> QED
      BY <1>3, <1>8, <3>1
  <2>4. ToRelayInv'
    BY <1>11, <2>2, <2>3 DEF ToRelayInv, Greeted
  <2> QED
    BY <1>7, <1>12, <1>13, <1>14, <2>4 DEF WireInv, NothingGarbled
<1> QED
  BY <1>15, <1>16

LEMMA VerdictKeeps ==
    ASSUME WireInv, Verdict
    PROVE  WireInv'
<1>1. /\ rpc = "approving" /\ rpc' = "sending" /\ toSend' \in {"PK_OK", "FAILURE", "SUCCESS", "DISCONNECT"}
      /\ UNCHANGED <<operatorVars, historyVars, wireVars, sending, sendLock, sendSeq, recvSeq,
                     sendKeyed, recvKeyed>>
  BY DEF Verdict, Sends
<1>2. sending["main"] = NoPacket /\ toSend = None /\ ~Doomed /\ Greeted /\ AfterKeys
  BY <1>1 DEF WireInv, OneSender, WireTypes, Doomed, None, Greeted, AfterKeys
<1>3. WireTypes'
  BY <1>1 DEF WireInv, WireTypes, operatorVars, wireVars, RelayPlaces, RelaySends, None
<1>4. OneSender'
  BY <1>1, <1>2 DEF WireInv, OneSender
<1>5. ToOperatorInv'
  BY <1>1 DEF WireInv, ToOperatorInv, operatorVars, wireVars
<1>6. ToRelayInv'
  BY <1>1, <1>2 DEF WireInv, ToRelayInv, Greeted, operatorVars, wireVars
<1> QED
  BY <1>1, <1>3, <1>4, <1>5, <1>6 DEF WireInv, NothingGarbled, historyVars

LEMMA BeginSendKeeps ==
    ASSUME WireInv, NEW t \in Threads, BeginSend(t), served \in Relays, hostSeed \in [Relays -> Nat]
    PROVE  WireInv'
<1> DEFINE msg == IF t = "main" THEN toSend ELSE "DATA"
           p == Packet(msg, sendKeyed, sendSeq,
                       IF msg = "UNIMPLEMENTED" THEN (recvSeq + Modulus - 1) % Modulus ELSE 0,
                       IF msg = "ECDH_REPLY" THEN hostSeed[served] ELSE Empty)
<1>1. /\ sending' = [sending EXCEPT ![t] = p] /\ sendLock = None /\ sendLock' = t
      /\ UNCHANGED <<operatorVars, historyVars, wireVars, rpc, toSend, sendSeq, recvSeq,
                     sendKeyed, recvKeyed>>
  BY DEF BeginSend, Encrypted
<1>2. t = "main" => rpc = "sending" /\ toSend \in RelaySends
  BY DEF BeginSend, MayBegin, WireInv, WireTypes
<1>3. msg \in Messages
  BY <1>2 DEF RelaySends, Messages
<1>4. p \in PacketSet
  <2>1. sendKeyed \in BOOLEAN /\ sendSeq \in Seqs /\ recvSeq \in Seqs
    BY DEF WireInv, WireTypes
  <2>2. hostSeed[served] \in Nat /\ Empty \in Nat
    BY DEF Empty
  <2> HIDE DEF msg
  <2> QED
    BY <1>3, <2>1, <2>2, ZeroIsOne, Wraps DEF Packet, PacketSet
<1>5. p.seq = sendSeq /\ p.keyed = sendKeyed /\ p.msg = msg
  BY DEF Packet
<1> HIDE DEF p
<1>6. t \notin {None} /\ \A s \in Threads : sending[s] = NoPacket
  <2>1. None \notin Threads
    BY TransportAssumption DEF None, Threads
  <2> QED
    BY <1>1, <2>1 DEF WireInv, OneSender
<1>7. rpc \notin {"greeting", "switching"}
  <2>1. CASE t = "main"
    BY <1>2, <2>1
  <2>2. CASE t # "main"
    BY <2>2 DEF BeginSend, MayBegin, WireInv, WireTypes, None
  <2> QED
    BY <2>1, <2>2
<1>8. sending' \in [Threads -> PacketSet \cup {NoPacket}]
      /\ \A s \in Threads : s # t => sending'[s] = NoPacket
      /\ sending'[t] = p
  BY <1>1, <1>4, <1>6 DEF WireInv, WireTypes
<1>9. WireTypes'
  BY <1>1, <1>8 DEF WireInv, WireTypes, operatorVars, wireVars
<1>10. OneSender'
  <2>1. sending'["main"] # NoPacket => t = "main"
    BY <1>8 DEF Threads
  <2> QED
    BY <1>1, <1>2, <1>5, <1>7, <1>8, <2>1 DEF OneSender
<1>11. ToOperatorInv' /\ ToRelayInv'
  BY <1>1 DEF WireInv, ToOperatorInv, ToRelayInv, Doomed, Greeted, AfterKeys, operatorVars, wireVars
<1> QED
  BY <1>1, <1>9, <1>10, <1>11 DEF WireInv, NothingGarbled, historyVars

\* What the connection's thread does next, by what it has sent.
LEMMA AfterSendLeads ==
    ASSUME NEW msg \in RelaySends, AfterSend(msg)
    PROVE  /\ rpc' \in RelayPlaces /\ rpc' \notin {"greeting", "want_version", "none"}
           /\ toSend' \in {"NEWKEYS", None} /\ (toSend' # None <=> rpc' = "sending")
           /\ rpc' = "switching" <=> msg = "NEWKEYS"
           /\ msg = "DISCONNECT" => rpc' = "closed"
           /\ AfterKeys' => msg \in {"SERVICE_ACCEPT", "PK_OK", "FAILURE", "SUCCESS", "REPLY",
                                     "UNIMPLEMENTED"}
<1> USE DEF AfterSend, Goes, Sends, RelayPlaces, AfterKeys, None
<1>1. CASE msg \in {"KEXINIT", "ECDH_REPLY", "NEWKEYS", "DISCONNECT"}
  BY <1>1
<1>2. CASE msg \in {"SERVICE_ACCEPT", "PK_OK", "FAILURE"}
  BY <1>2
<1>3. CASE msg \in {"SUCCESS", "REPLY", "UNIMPLEMENTED"}
  BY <1>3
<1> QED
  BY <1>1, <1>2, <1>3 DEF RelaySends

LEMMA EndSendKeeps ==
    ASSUME WireInv, NEW t \in Threads, EndSend(t)
    PROVE  WireInv'
<1> DEFINE p == sending[t]
<1>1. /\ p # NoPacket /\ p \in PacketSet /\ p.seq = sendSeq /\ p.keyed = sendKeyed
      /\ sendLock = t /\ p.msg = IF t = "main" THEN toSend ELSE "DATA"
      /\ t = "main" => rpc = "sending"
      /\ \A s \in Threads : s # t => sending[s] = NoPacket
      /\ rpc \notin {"greeting", "switching"}
  BY DEF EndSend, WireInv, OneSender, WireTypes
<1>2. /\ sending' = [sending EXCEPT ![t] = NoPacket] /\ sendLock' = None
      /\ UNCHANGED <<operatorVars, historyVars, toRelay, recvSeq, sendKeyed, recvKeyed>>
      /\ IF rpc = "closed" THEN UNCHANGED <<toOperator, sendSeq>>
         ELSE toOperator' = Append(toOperator, p) /\ sendSeq' = Next1(sendSeq)
      /\ IF t = "main" THEN AfterSend(toSend) ELSE UNCHANGED <<rpc, toSend>>
  BY <1>1 DEF EndSend
<1>3. t = "main" => toSend \in RelaySends
  BY <1>1 DEF WireInv, WireTypes
<1>4. /\ rpc' \in RelayPlaces /\ rpc' # "greeting"
      /\ toSend' \in RelaySends \cup {None} /\ (toSend' # None <=> rpc' = "sending")
      /\ rpc' = "switching" <=> p.msg = "NEWKEYS"
  <2>1. CASE t = "main"
    <3>1. AfterSend(toSend) /\ p.msg = toSend
      BY <1>1, <1>2, <2>1
    <3> QED
      BY <1>3, <2>1, <3>1, AfterSendLeads DEF RelaySends
  <2>2. CASE t # "main"
    BY <1>1, <1>2, <2>2 DEF WireInv, WireTypes
  <2> QED
    BY <2>1, <2>2
<1>5. \A s \in Threads : sending'[s] = NoPacket
  BY <1>1, <1>2 DEF WireInv, WireTypes
<1>6. OneSender'
  BY <1>2, <1>5 DEF OneSender, Threads
<1>7. p.msg # "VERSION" /\ NumberAfter(p) = Next1(sendSeq)
  BY <1>1, <1>3 DEF RelaySends, NumberAfter
<1>8. toOperator' \in Seq(PacketSet) /\ ToOperatorInv'
  <2>1. CASE rpc = "closed"
    <3>1. t # "main" /\ rpc' = "closed"
      BY <1>1, <1>2, <2>1
    <3> QED
      BY <1>2, <2>1, <3>1 DEF WireInv, ToOperatorInv, WireTypes, operatorVars
  <2>2. CASE rpc # "closed"
    <3> HIDE DEF p
    <3>1. UNCHANGED <<orecv, orkeyed, sendKeyed>>
      BY <1>2 DEF operatorVars
    <3> QED
      BY <1>1, <1>2, <1>4, <1>7, <2>2, <3>1, RelayAppends
  <2> QED
    BY <2>1, <2>2
<1>9. WireTypes'
  <2>1. sendSeq' \in Seqs
    BY <1>2, Wraps DEF WireInv, WireTypes
  <2>2. sending' \in [Threads -> PacketSet \cup {NoPacket}]
    BY <1>2 DEF WireInv, WireTypes
  <2> QED
    BY <1>2, <1>4, <1>8, <2>1, <2>2 DEF WireInv, WireTypes, operatorVars
<1>10. ToRelayInv'
  <2>1. CASE t = "main"
    <3>1. AfterSend(toSend)
      BY <1>2, <2>1
    <3>2. ~Doomed' => ~Doomed
      BY <1>1, <1>3, <2>1, <3>1, AfterSendLeads DEF Doomed
    <3>3. AfterKeys' => AfterKeys
      BY <1>3, <2>1, <3>1, AfterSendLeads DEF AfterKeys
    <3>4. Greeted' /\ Greeted
      BY <1>1, <1>3, <2>1, <3>1, AfterSendLeads DEF Greeted
    <3> QED
      BY <1>2, <3>2, <3>3, <3>4 DEF WireInv, ToRelayInv, operatorVars
  <2>2. CASE t # "main"
    BY <1>2, <2>2 DEF WireInv, ToRelayInv, Doomed, Greeted, AfterKeys, operatorVars
  <2> QED
    BY <2>1, <2>2
<1> QED
  BY <1>2, <1>6, <1>8, <1>9, <1>10 DEF WireInv, NothingGarbled, historyVars

LEMMA SwitchKeeps ==
    ASSUME WireInv, SetSendCipher
    PROVE  WireInv'
<1>1. /\ rpc = "switching" /\ sendKeyed' = TRUE /\ rpc' = "want_newkeys" /\ toSend' = None
      /\ UNCHANGED <<operatorVars, historyVars, wireVars, sending, sendLock, sendSeq, recvSeq,
                     recvKeyed, sent>>
  BY DEF SetSendCipher, Goes
<1>2. \A t \in Threads : sending[t] = NoPacket
  BY <1>1 DEF WireInv, OneSender
<1>3. toSend = None
  BY <1>1 DEF WireInv, WireTypes
<1>4. WireTypes'
  BY <1>1 DEF WireInv, WireTypes, operatorVars, wireVars, RelayPlaces
<1>5. OneSender'
  BY <1>1, <1>2 DEF WireInv, OneSender, Threads
<1>6. ToOperatorInv'
  <2>1. NextKeyed(toOperator, orkeyed) = TRUE
    <3>1. NextKeyed(toOperator, orkeyed)
      BY <1>1 DEF WireInv, ToOperatorInv
    <3>2. NextKeyed(toOperator, orkeyed) \in BOOLEAN
      BY DEF NextKeyed, KeyedAfter, WireInv, WireTypes
    <3> QED
      BY <3>1, <3>2
  <2> QED
    BY <1>1, <2>1 DEF WireInv, ToOperatorInv, operatorVars, wireVars
<1>7. ToRelayInv'
  BY <1>1, <1>3 DEF WireInv, ToRelayInv, Doomed, Greeted, AfterKeys, None, operatorVars, wireVars
<1> QED
  BY <1>1, <1>4, <1>5, <1>6, <1>7 DEF WireInv, NothingGarbled, historyVars

\* The connection ends: its reader meets the end, or its process dies.
LEMMA ClosingKeeps ==
    ASSUME WireInv, rpc' = "closed", toSend' = None,
           UNCHANGED <<operatorVars, garbled, wireVars, sendSeq, recvSeq, sendKeyed, recvKeyed>>,
           \/ rpc # "sending" /\ UNCHANGED <<sending, sendLock>>
           \/ sending' = [t \in Threads |-> NoPacket] /\ sendLock' = None
    PROVE  WireInv'
<1>1. WireTypes'
  BY DEF WireInv, WireTypes, operatorVars, wireVars, RelayPlaces
<1>2. OneSender'
  BY DEF WireInv, OneSender, Threads
<1>3. ToOperatorInv' /\ ToRelayInv'
  BY DEF WireInv, ToOperatorInv, ToRelayInv, Doomed, operatorVars, wireVars
<1> QED
  BY <1>1, <1>2, <1>3 DEF WireInv, NothingGarbled

LEMMA ConnectKeeps ==
    ASSUME WireInv, NEW r \in Relays, Connect(r)
    PROVE  WireInv'
<1> DEFINE p == Packet("VERSION", FALSE, 0, 0, Empty)
<1>1. p \in PacketSet /\ p.msg = "VERSION" /\ p.keyed = FALSE
  BY ZeroIsOne DEF Packet, PacketSet, Messages, Empty
<1>2. /\ rpc' = "greeting" /\ toSend' = None
      /\ sending' = [t \in Threads |-> NoPacket] /\ sendLock' = None
      /\ sendSeq' = 0 /\ recvSeq' = 0 /\ sendKeyed' = FALSE /\ recvKeyed' = FALSE
      /\ toOperator' = <<>> /\ toRelay' = <<p>>
      /\ opc' = "want_version" /\ osend' = 0 /\ orecv' = 0 /\ okeyed' = FALSE /\ orkeyed' = FALSE
      /\ UNCHANGED historyVars
  BY DEF Connect
<1>3. WireTypes'
  <2>1. toOperator' \in Seq(PacketSet) /\ toRelay' \in Seq(PacketSet)
    <3> HIDE DEF p
    <3> QED
      BY <1>1, <1>2
  <2> QED
    BY <1>2, <2>1, ZeroIsOne DEF WireTypes, RelayPlaces, OperatorPlaces
<1>4. OneSender'
  BY <1>2 DEF OneSender, Threads
<1>5. ToOperatorInv'
  BY <1>2, EmptyFollows DEF ToOperatorInv, NextNumber, NextKeyed
<1> HIDE DEF p
<1>6. ToRelayInv'
  <2>0. Len(<<p>>) = 1 /\ <<p>>[1] = p /\ <<p>> # <<>>
    OBVIOUS
  <2>1. Follows(<<p>>, 0, FALSE)
    BY <1>1, <2>0 DEF Follows
  <2>2. NextNumber(<<p>>, 0) = 0 /\ NextKeyed(<<p>>, FALSE) = FALSE
    BY <1>1, <2>0 DEF NextNumber, NextKeyed, NumberAfter, KeyedAfter
  <2>3. ~AfterKeys' /\ ~Greeted'
    BY <1>2 DEF AfterKeys, None, Greeted
  <2>4. \A k \in 1..Len(<<p>>) : k = 1
    BY <2>0
  <2> QED
    BY <1>1, <1>2, <2>0, <2>1, <2>2, <2>3, <2>4 DEF ToRelayInv
<1> QED
  BY <1>2, <1>3, <1>4, <1>5, <1>6 DEF WireInv, NothingGarbled, historyVars

\* The operator's client sends nothing, or one message.
LEMMA OperatorSendsKeeps ==
    ASSUME WireInv, NEW msgs, OperatorSends(msgs),
           msgs = <<>> \/ \E m \in Messages \ {"VERSION"} : msgs = <<m>>,
           okeyed' = (okeyed \/ "NEWKEYS" \in {msgs[i] : i \in DOMAIN msgs}),
           UNCHANGED <<rpc, toSend, recvSeq, recvKeyed>>
    PROVE  /\ toRelay' \in Seq(PacketSet) /\ osend' \in Seqs /\ okeyed' \in BOOLEAN /\ ToRelayInv'
<1>0. /\ toRelay \in Seq(PacketSet) /\ osend \in Seqs /\ okeyed \in BOOLEAN
      /\ recvSeq \in Seqs /\ recvKeyed \in BOOLEAN
  BY DEF WireInv, WireTypes
<1>1. CASE msgs = <<>>
  <2>1. Len(msgs) = 0 /\ DOMAIN msgs = {}
    BY <1>1
  <2>2. okeyed' = okeyed
    BY <1>0, <2>1
  <2>3. osend' = osend
    BY <1>0, <2>1, Wraps DEF OperatorSends
  <2>4. toRelay' = toRelay
    <3>1. [i \in 1..Len(msgs) |-> Packet(msgs[i], okeyed, (osend + i - 1) % Modulus, 0, Empty)] = <<>>
      BY <2>1
    <3> QED
      BY <1>0, <3>1 DEF OperatorSends
  <2> QED
    BY <1>0, <2>2, <2>3, <2>4 DEF WireInv, ToRelayInv, Doomed, Greeted, AfterKeys
<1>2. ASSUME NEW m \in Messages \ {"VERSION"}, msgs = <<m>>
      PROVE  /\ toRelay' \in Seq(PacketSet) /\ osend' \in Seqs /\ okeyed' \in BOOLEAN /\ ToRelayInv'
  <2> DEFINE p == Packet(m, okeyed, osend, 0, Empty)
  <2>1. Len(msgs) = 1 /\ DOMAIN msgs = {1} /\ msgs[1] = m
    BY <1>2
  <2>2. okeyed' = (okeyed \/ m = "NEWKEYS")
    BY <2>1
  <2>3. osend' = Next1(osend)
    BY <2>1 DEF OperatorSends, Next1
  <2>4. p \in PacketSet /\ p.msg = m /\ p.seq = osend /\ p.keyed = okeyed
    BY <1>0, ZeroIsOne DEF Packet, PacketSet, Empty
  <2>5. toRelay' = Append(toRelay, p)
    <3>1. 1..Len(msgs) = {1}
      BY <2>1
    <3>2. (osend + 1 - 1) % Modulus = osend
      BY <1>0, Wraps
    <3>3. [i \in 1..Len(msgs) |-> Packet(msgs[i], okeyed, (osend + i - 1) % Modulus, 0, Empty)] = <<p>>
      BY <2>1, <3>1, <3>2
    <3>4. toRelay' = toRelay \o <<p>>
      BY <3>3 DEF OperatorSends
    <3> HIDE DEF p
    <3> QED
      BY <1>0, <2>4, <3>4
  <2> HIDE DEF p
  <2>6. toRelay' \in Seq(PacketSet) /\ osend' \in Seqs /\ okeyed' \in BOOLEAN
    BY <1>0, <2>2, <2>3, <2>4, <2>5, Wraps
  <2>7. ASSUME ~Doomed
        PROVE  /\ Follows(toRelay', recvSeq, recvKeyed)
               /\ osend' = NextNumber(toRelay', recvSeq) /\ okeyed' = NextKeyed(toRelay', recvKeyed)
               /\ \A i \in 1..Len(toRelay') : toRelay'[i].msg = "VERSION" => i = 1 /\ ~Greeted
               /\ toRelay # <<>> => toRelay' # <<>> /\ toRelay'[1] = toRelay[1]
    <3>1. /\ Follows(toRelay, recvSeq, recvKeyed) /\ osend = NextNumber(toRelay, recvSeq)
          /\ okeyed = NextKeyed(toRelay, recvKeyed)
          /\ \A i \in 1..Len(toRelay) : toRelay[i].msg = "VERSION" => i = 1 /\ ~Greeted
      BY <2>7 DEF WireInv, ToRelayInv
    <3>2. /\ Follows(toRelay', recvSeq, recvKeyed)
          /\ NextNumber(toRelay', recvSeq) = NumberAfter(p) /\ NextKeyed(toRelay', recvKeyed) = KeyedAfter(p)
          /\ \A i \in 1..Len(toRelay') :
                (i \in 1..Len(toRelay) /\ toRelay'[i] = toRelay[i]) \/ (i = Len(toRelay) + 1 /\ toRelay'[i] = p)
      BY <1>0, <2>4, <2>5, <3>1, AppendFollows
    <3>3. NumberAfter(p) = osend' /\ KeyedAfter(p) = okeyed'
      BY <2>2, <2>3, <2>4 DEF NumberAfter, KeyedAfter
    <3>4. \A i \in 1..Len(toRelay') : toRelay'[i].msg = "VERSION" => i = 1 /\ ~Greeted
      BY <2>4, <3>1, <3>2
    <3>5. toRelay # <<>> => toRelay' # <<>> /\ toRelay'[1] = toRelay[1]
      BY <1>0, <2>4, <2>5
    <3> QED
      BY <3>2, <3>3, <3>4, <3>5
  <2>8. ToRelayInv'
    BY <2>7 DEF WireInv, ToRelayInv, Doomed, Greeted, AfterKeys
  <2> QED
    BY <2>6, <2>8
<1> QED
  BY <1>1, <1>2

LEMMA AnswerIsOne ==
    ASSUME NEW place, NEW msg
    PROVE  /\ OperatorAnswer(place, msg)[1] \in OperatorPlaces \/ OperatorAnswer(place, msg)[1] = place
           /\ \/ OperatorAnswer(place, msg)[2] = <<>>
              \/ \E m \in Messages \ {"VERSION"} : OperatorAnswer(place, msg)[2] = <<m>>
  BY DEF OperatorAnswer, OperatorPlaces, Messages

LEMMA OperatorReadsKeeps ==
    ASSUME WireInv, OperatorReads
    PROVE  WireInv'
<1> DEFINE p == Head(toOperator)
<1>1. /\ toOperator # <<>> /\ toOperator' = Tail(toOperator) /\ UNCHANGED relayVars
      /\ orecv' = IF p.msg = "VERSION" THEN 0 ELSE Next1(orecv)
      /\ orkeyed' = (orkeyed \/ (ReadsWell(p, orkeyed, orecv) /\ p.msg = "NEWKEYS"))
      /\ garbled' = (garbled \/ ~ReadsWell(p, orkeyed, orecv))
  BY DEF OperatorReads
<1>2. /\ toOperator \in Seq(PacketSet) /\ orecv \in Seqs /\ orkeyed \in BOOLEAN
      /\ Follows(toOperator, orecv, orkeyed)
  BY DEF WireInv, WireTypes, ToOperatorInv
<1>3. /\ p \in PacketSet /\ ReadsWell(p, orkeyed, orecv) /\ p.keyed = orkeyed
      /\ p.msg # "VERSION" => p.seq = orecv
      /\ toOperator' \in Seq(PacketSet) /\ Follows(toOperator', NumberAfter(p), KeyedAfter(p))
      /\ NextNumber(toOperator', NumberAfter(p)) = NextNumber(toOperator, orecv)
      /\ NextKeyed(toOperator', KeyedAfter(p)) = NextKeyed(toOperator, orkeyed)
  BY <1>1, <1>2, TailFollows
<1>4. orecv' = NumberAfter(p)
  BY <1>1, <1>3 DEF NumberAfter
<1>5. orkeyed' = KeyedAfter(p)
  BY <1>1, <1>3 DEF KeyedAfter
<1>6. ~garbled'
  BY <1>1, <1>3 DEF WireInv, NothingGarbled
<1>7. orecv' \in Seqs /\ orkeyed' \in BOOLEAN
  BY <1>1, <1>2, ZeroIsOne, Wraps
<1>8. ToOperatorInv'
  BY <1>1, <1>2, <1>3, <1>4, <1>5 DEF WireInv, ToOperatorInv, relayVars
<1>9. PICK answer : /\ opc' = answer[1] /\ OperatorSends(answer[2])
                    /\ okeyed' = (okeyed \/ "NEWKEYS" \in {answer[2][i] : i \in DOMAIN answer[2]})
                    /\ answer = OperatorAnswer(opc, p.msg) \/ answer = <<"left", <<>>>>
  BY DEF OperatorReads
<1>10. opc' \in OperatorPlaces /\ (answer[2] = <<>> \/ \E m \in Messages \ {"VERSION"} : answer[2] = <<m>>)
  <2>1. CASE answer = <<"left", <<>>>>
    BY <1>9, <2>1 DEF OperatorPlaces
  <2>2. CASE answer = OperatorAnswer(opc, p.msg)
    BY <1>9, <2>2, AnswerIsOne DEF WireInv, WireTypes
  <2> QED
    BY <1>9, <2>1, <2>2
<1>11. toRelay' \in Seq(PacketSet) /\ osend' \in Seqs /\ okeyed' \in BOOLEAN /\ ToRelayInv'
  <2>1. UNCHANGED <<rpc, toSend, recvSeq, recvKeyed>>
    BY <1>1 DEF relayVars
  <2> QED
    BY <1>9, <1>10, <2>1, OperatorSendsKeeps
<1>12. WireTypes'
  BY <1>1, <1>3, <1>7, <1>10, <1>11 DEF WireInv, WireTypes, relayVars
<1>13. OneSender'
  BY <1>1 DEF WireInv, OneSender, relayVars
<1> QED
  BY <1>6, <1>8, <1>11, <1>12, <1>13 DEF WireInv, NothingGarbled

LEMMA OperatorTalksKeeps ==
    ASSUME WireInv, OperatorTalks
    PROVE  WireInv'
<1>1. PICK msg \in {"IGNORE", "REQUEST", "UNKNOWN", "KEXINIT"} :
         OperatorSends(<<msg>>) /\ opc' = IF msg = "KEXINIT" THEN "rekeying" ELSE opc
  BY DEF OperatorTalks
<1>2. UNCHANGED <<relayVars, historyVars, toOperator, orecv, okeyed, orkeyed>>
  BY DEF OperatorTalks
<1>3. toRelay' \in Seq(PacketSet) /\ osend' \in Seqs /\ ToRelayInv'
  <2>1. msg \in Messages \ {"VERSION"}
    BY DEF Messages
  <2>2. DOMAIN <<msg>> = {1} /\ <<msg>>[1] = msg
    OBVIOUS
  <2>3. okeyed' = (okeyed \/ "NEWKEYS" \in {<<msg>>[i] : i \in DOMAIN <<msg>>})
    BY <1>2, <2>2 DEF WireInv, WireTypes
  <2>4. UNCHANGED <<rpc, toSend, recvSeq, recvKeyed>>
    BY <1>2 DEF relayVars
  <2> QED
    BY <1>1, <2>1, <2>3, <2>4, OperatorSendsKeeps
<1>4. WireTypes'
  BY <1>1, <1>2, <1>3 DEF WireInv, WireTypes, relayVars, OperatorPlaces
<1>5. OneSender' /\ ToOperatorInv'
  BY <1>2 DEF WireInv, OneSender, ToOperatorInv, relayVars
<1> QED
  BY <1>2, <1>3, <1>4, <1>5 DEF WireInv, NothingGarbled, historyVars

\* Steps of other relay processes, the operator leaving, and no step at all.
LEMMA StillKeeps ==
    ASSUME WireInv, UNCHANGED <<relayVars, toOperator, toRelay, osend, orecv, okeyed, orkeyed, garbled>>,
           opc' \in OperatorPlaces
    PROVE  WireInv'
<1>1. WireTypes' /\ OneSender'
  BY DEF WireInv, WireTypes, OneSender, relayVars
<1>2. ToOperatorInv' /\ ToRelayInv'
  BY DEF WireInv, ToOperatorInv, ToRelayInv, Doomed, Greeted, AfterKeys, relayVars
<1> QED
  BY <1>1, <1>2 DEF WireInv, NothingGarbled

LEMMA WireStep ==
    ASSUME WireInv, HostInv, KeyShown, [Next]_vars
    PROVE  WireInv'
<1>0. opc \in OperatorPlaces
  BY DEF WireInv, WireTypes
<1>1. CASE HostKeySteps \/ OperatorLeaves \/ UNCHANGED vars
  BY <1>0, <1>1, StillKeeps DEF HostKeySteps, OperatorLeaves, vars, operatorVars, historyVars, wireVars,
     OperatorPlaces
<1>2. ASSUME NEW r \in Relays, CrashRelay(r)
      PROVE  WireInv'
  <2>1. UNCHANGED <<operatorVars, historyVars, wireVars, sendSeq, recvSeq, sendKeyed, recvKeyed, sent>>
    BY <1>2 DEF CrashRelay
  <2>2. CASE rpc' = "closed" /\ toSend' = None
             /\ sending' = [t \in Threads |-> NoPacket] /\ sendLock' = None
    BY <2>1, <2>2, ClosingKeeps DEF historyVars
  <2>3. CASE UNCHANGED <<rpc, toSend, sending, sendLock>>
    BY <1>0, <2>1, <2>3, StillKeeps DEF operatorVars, historyVars, wireVars, relayVars
  <2> QED
    BY <1>2, <2>2, <2>3 DEF CrashRelay, Goes
<1>3. CASE \E r \in Relays : Connect(r)
  BY <1>3, ConnectKeeps
<1>4. ASSUME NEW t \in Threads, BeginSend(t)
      PROVE  WireInv'
  <2>1. rpc \notin {"none", "closed"}
    BY <1>4 DEF BeginSend, MayBegin, WireInv, WireTypes, None
  <2>2. served \in Relays /\ hostSeed \in [Relays -> Nat]
    BY <2>1 DEF KeyShown, HostInv, OneWriter
  <2> QED
    BY <1>4, <2>2, BeginSendKeeps
<1>5. ASSUME NEW t \in Threads, EndSend(t)
      PROVE  WireInv'
  BY <1>5, EndSendKeeps
<1>6. CASE RelaySeesEnd
  BY <1>6, ClosingKeeps DEF RelaySeesEnd, Goes, historyVars
<1>7. CASE Greet \/ ReadVersion \/ RelayReads \/ Verdict \/ SetSendCipher
  BY <1>7, GreetKeeps, ReadVersionKeeps, RelayReadsKeeps, VerdictKeeps, SwitchKeeps
<1>8. CASE OperatorReads \/ OperatorTalks
  BY <1>8, OperatorReadsKeeps, OperatorTalksKeeps
<1> QED
  BY <1>1, <1>2, <1>3, <1>4, <1>5, <1>6, <1>7, <1>8 DEF Next, MainSteps, Threads

-----------------------------------------------------------------------------
(* The host key an operator is shown *)

\* Steps in which the file and the process of the connection stay what they are,
\* and no packet with a key is made.
LEMMA KeyStays ==
    ASSUME KeyShown, HostInv,
           \/ hostFile' = hostFile
           \/ hostFile \in {Absent, Empty} /\ UNCHANGED <<sending, toOperator>>,
           rpc' \notin {"none", "closed"} => served' \in Relays /\ CanServe(served)',
           \A t \in Threads : sending'[t] = NoPacket \/ sending'[t] = sending[t],
           \A i \in 1..Len(toOperator') : \/ \E j \in 1..Len(toOperator) : toOperator'[i] = toOperator[j]
                                          \/ toOperator'[i].msg # "ECDH_REPLY"
                                          \/ \E t \in Threads : sending[t] # NoPacket /\ toOperator'[i] = sending[t],
           UNCHANGED <<pinned, changed>>
    PROVE  KeyShown'
<1>1. pinned \in {Empty, hostFile'}
  BY DEF KeyShown, HostInv, OneWriter, Absent
<1>2. CASE hostFile' = hostFile
  BY <1>1, <1>2 DEF KeyShown
<1>3. CASE hostFile \in {Absent, Empty} /\ UNCHANGED <<sending, toOperator>>
  <2>1. hostFile \notin Nat \ {Empty}
    BY <1>3 DEF Absent, Empty
  <2> QED
    BY <1>1, <1>3, <2>1 DEF KeyShown
<1> QED
  BY <1>2, <1>3

LEMMA KeyShownStep ==
    ASSUME KeyShown, HostInv, WireInv, [Next]_vars
    PROVE  KeyShown'
<1> USE DEF KeyShown
<1>1. CASE HostKeySteps
  <2>1. PICK r \in Relays : Start(r) \/ Look(r) \/ ReadSeed(r) \/ Create(r) \/ WriteSeed(r)
    BY <1>1 DEF HostKeySteps
  <2>2. hostFile \notin {Absent, Empty} => hostFile' = hostFile
    BY <2>1, HostStep
  <2>3. \A s \in Relays : CanServe(s) => CanServe(s)'
    <3>1. ~CanServe(r)
      BY <2>1 DEF CanServe, Start, Look, ReadSeed, Create, WriteSeed
    <3> QED
      BY <2>1, <3>1, HostStep
  <2>4. UNCHANGED <<relayVars, wireVars, connVars, historyVars>>
    BY <1>1 DEF HostKeySteps
  <2>5. UNCHANGED <<rpc, served, sending, toOperator, pinned, changed>>
    BY <2>4 DEF relayVars, wireVars, connVars, historyVars
  <2>6. rpc' \notin {"none", "closed"} => served' \in Relays /\ CanServe(served)'
    BY <2>3, <2>5 DEF CanServe
  <2>7. \A i \in 1..Len(toOperator') : \E j \in 1..Len(toOperator) : toOperator'[i] = toOperator[j]
    BY <2>5
  <2> QED
    BY <2>2, <2>5, <2>6, <2>7, KeyStays
<1>2. ASSUME NEW r \in Relays, CrashRelay(r)
      PROVE  KeyShown'
  <2>1. Crash(r) /\ hostFile' = hostFile /\ UNCHANGED <<served, toOperator, pinned, changed>>
    BY <1>2 DEF CrashRelay, Crash, connVars, wireVars, historyVars
  <2>2. \A t \in Threads : sending'[t] = NoPacket \/ sending'[t] = sending[t]
    BY <1>2 DEF CrashRelay
  <2>3. rpc' \notin {"none", "closed"} => rpc' = rpc /\ r # served
    BY <1>2 DEF CrashRelay, Goes
  <2>4. \A s \in Relays : CanServe(s) /\ s # r => CanServe(s)'
    BY <2>1, HostStep
  <2>5. rpc' \notin {"none", "closed"} => served' \in Relays /\ CanServe(served)'
    BY <2>1, <2>3, <2>4 DEF CanServe
  <2>6. \A i \in 1..Len(toOperator') : \E j \in 1..Len(toOperator) : toOperator'[i] = toOperator[j]
    BY <2>1
  <2> QED
    BY <2>1, <2>2, <2>5, <2>6, KeyStays
<1>3. CASE \E r \in Relays : Connect(r)
  <2> PICK r \in Relays : Connect(r)
    BY <1>3
  <2>1. /\ CanServe(r) /\ served' = r /\ toOperator' = <<>> /\ UNCHANGED <<hostKeyVars, pinned, changed>>
        /\ sending' = [t \in Threads |-> NoPacket]
    BY DEF Connect, historyVars
  <2>2. CanServe(served)' /\ hostFile' = hostFile
    BY <2>1 DEF CanServe, hostKeyVars
  <2> QED
    BY <2>1, <2>2
\* the steps that follow leave the host key alone, and the process of a connection
<1>4. ASSUME hostKeyVars' = hostKeyVars, served' = served, UNCHANGED <<pinned, changed>>,
             rpc \in {"none", "closed"} => rpc' \in {"none", "closed"},
             \A t \in Threads : sending'[t] = NoPacket \/ sending'[t] = sending[t],
             \A i \in 1..Len(toOperator') : \/ \E j \in 1..Len(toOperator) : toOperator'[i] = toOperator[j]
                                            \/ toOperator'[i].msg # "ECDH_REPLY"
                                            \/ \E t \in Threads : sending[t] # NoPacket /\ toOperator'[i] = sending[t]
      PROVE  KeyShown'
  <2>1. rpc' \notin {"none", "closed"} => served' \in Relays /\ CanServe(served)'
    BY <1>4 DEF CanServe, hostKeyVars
  <2> QED
    BY <1>4, <2>1, KeyStays DEF hostKeyVars
<1>5. ASSUME NEW t \in Threads, BeginSend(t)
      PROVE  KeyShown'
  <2>1. rpc \notin {"none", "closed"}
    BY <1>5 DEF BeginSend, MayBegin, WireInv, WireTypes, None
  <2>2. CanServe(served) /\ served \in Relays
    BY <2>1
  <2>3. hostSeed[served] = hostFile /\ hostFile \in Nat \ {Empty}
    BY <2>2 DEF HostInv, ServesTheFile, CanServe, OneWriter
  <2> DEFINE msg == IF t = "main" THEN toSend ELSE "DATA"
             p == Packet(msg, sendKeyed, sendSeq,
                         IF msg = "UNIMPLEMENTED" THEN (recvSeq + Modulus - 1) % Modulus ELSE 0,
                         IF msg = "ECDH_REPLY" THEN hostSeed[served] ELSE Empty)
  <2>4. sending' = [sending EXCEPT ![t] = p]
        /\ UNCHANGED <<hostKeyVars, connVars, historyVars, toOperator, rpc>>
    BY <1>5 DEF BeginSend, Encrypted, wireVars
  <2>5. p.msg = "ECDH_REPLY" => p.key = hostFile
    BY <2>3 DEF Packet
  <2> HIDE DEF p
  <2>6. \A s \in Threads : sending'[s] = IF s = t THEN p ELSE sending[s]
    BY <2>4 DEF WireInv, WireTypes
  <2>7. CanServe(served)' /\ hostFile' = hostFile /\ served' = served
        /\ UNCHANGED <<pinned, changed, toOperator>>
    BY <2>2, <2>4 DEF CanServe, hostKeyVars, connVars, historyVars
  <2> QED
    BY <2>2, <2>3, <2>5, <2>6, <2>7
<1>6. ASSUME NEW t \in Threads, EndSend(t)
      PROVE  KeyShown'
  <2>1. /\ sending[t] # NoPacket /\ sending' = [sending EXCEPT ![t] = NoPacket]
        /\ UNCHANGED <<hostKeyVars, connVars, historyVars>>
        /\ toOperator' = toOperator \/ toOperator' = Append(toOperator, sending[t])
        /\ IF t = "main" THEN AfterSend(toSend) ELSE UNCHANGED <<rpc, toSend>>
    BY <1>6 DEF EndSend
  <2>2. rpc \in {"none", "closed"} => rpc' \in {"none", "closed"}
    BY <2>1 DEF WireInv, OneSender
  <2>3. \A i \in 1..Len(toOperator') : \/ \E j \in 1..Len(toOperator) : toOperator'[i] = toOperator[j]
                                       \/ toOperator'[i] = sending[t]
    <3>1. CASE toOperator' = toOperator
      BY <3>1
    <3>2. CASE toOperator' = Append(toOperator, sending[t])
      <4>1. toOperator \in Seq(PacketSet) /\ sending[t] \in PacketSet
        BY <2>1 DEF WireInv, WireTypes
      <4>2. Len(toOperator') = Len(toOperator) + 1 /\ Len(toOperator) \in Nat
            /\ \A j \in 1..Len(toOperator) : toOperator'[j] = toOperator[j]
        BY <3>2, <4>1
      <4>3. toOperator'[Len(toOperator) + 1] = sending[t]
        BY <3>2, <4>1
      <4> QED
        BY <4>2, <4>3
    <3> QED
      BY <2>1, <3>1, <3>2
  <2>4. \A s \in Threads : sending'[s] = NoPacket \/ sending'[s] = sending[s]
    BY <2>1 DEF WireInv, WireTypes
  <2>5. served' = served /\ UNCHANGED <<pinned, changed>>
    BY <2>1 DEF connVars, historyVars
  <2> QED
    BY <1>4, <2>1, <2>2, <2>3, <2>4, <2>5
<1>7. CASE Greet
  <2>1. UNCHANGED <<hostKeyVars, connVars, historyVars, sending>> /\ rpc = "greeting"
        /\ toOperator' = Append(toOperator, Packet("VERSION", FALSE, 0, 0, Empty))
    BY <1>7 DEF Greet
  <2>2. toOperator = <<>>
    BY <2>1 DEF WireInv, ToOperatorInv
  <2>3. \A i \in 1..Len(toOperator') : toOperator'[i].msg = "VERSION"
    BY <2>1, <2>2 DEF Packet
  <2> QED
    BY <1>4, <2>1, <2>3 DEF connVars, historyVars
<1>8. CASE ReadVersion \/ RelayReads \/ Verdict \/ SetSendCipher \/ RelaySeesEnd \/ OperatorTalks
           \/ OperatorLeaves \/ UNCHANGED vars
  <2>1. UNCHANGED <<hostKeyVars, served, sending, toOperator, pinned, changed>>
    BY <1>8 DEF ReadVersion, RelayReads, Verdict, SetSendCipher, RelaySeesEnd, OperatorTalks,
       OperatorLeaves, vars, connVars, wireVars, historyVars, relayVars
  <2>2. rpc \in {"none", "closed"} => rpc' \in {"none", "closed"}
    BY <1>8 DEF ReadVersion, RelayReads, Verdict, SetSendCipher, RelaySeesEnd, OperatorTalks,
       OperatorLeaves, vars, relayVars
  <2>3. \A i \in 1..Len(toOperator') : \E j \in 1..Len(toOperator) : toOperator'[i] = toOperator[j]
    BY <2>1
  <2> QED
    BY <1>4, <2>1, <2>2, <2>3
<1>9. CASE OperatorReads
  <2> DEFINE p == Head(toOperator)
  <2>1. /\ UNCHANGED <<hostKeyVars, connVars, relayVars>> /\ toOperator # <<>>
        /\ toOperator' = Tail(toOperator) /\ toOperator \in Seq(PacketSet)
    BY <1>9 DEF OperatorReads, WireInv, WireTypes
  <2>2. p = toOperator[1] /\ 1 \in 1..Len(toOperator)
        /\ \A i \in 1..Len(toOperator') : i + 1 \in 1..Len(toOperator) /\ toOperator'[i] = toOperator[i + 1]
    BY <2>1
  <2>3. p.msg = "ECDH_REPLY" => p.key = hostFile /\ hostFile \in Nat \ {Empty}
    BY <2>2
  <2>4. pinned' = pinned \/ (p.msg = "ECDH_REPLY" /\ pinned' = p.key)
    BY <1>9 DEF OperatorReads
  <2>5. ~changed'
    BY <1>9, <2>3 DEF OperatorReads
  <2>6. CanServe(served)' = CanServe(served) /\ hostFile' = hostFile /\ served' = served
        /\ rpc' = rpc /\ sending' = sending
    BY <2>1 DEF CanServe, hostKeyVars, connVars, relayVars
  <2> HIDE DEF p
  <2> QED
    BY <2>2, <2>3, <2>4, <2>5, <2>6
<1> QED
  BY <1>1, <1>2, <1>3, <1>5, <1>6, <1>7, <1>8, <1>9 DEF Next, MainSteps, Threads

-----------------------------------------------------------------------------
LEMMA HostInvStep ==
    ASSUME HostInv, [Next]_vars
    PROVE  HostInv'
<1>1. CASE HostKeySteps \/ \E r \in Relays : CrashRelay(r)
  BY <1>1, HostStep DEF HostKeySteps, CrashRelay
<1>2. CASE UNCHANGED hostKeyVars
  BY <1>2 DEF HostInv, OneWriter, ServesTheFile, CanServe, hostKeyVars
<1>3. ASSUME Next, ~HostKeySteps, ~\E r \in Relays : CrashRelay(r)
      PROVE  UNCHANGED hostKeyVars
  BY <1>3 DEF Next, MainSteps, Connect, Greet, ReadVersion, RelayReads, Verdict, SetSendCipher,
     RelaySeesEnd, BeginSend, Encrypted, EndSend, OperatorReads, OperatorTalks, OperatorLeaves
<1> QED
  BY <1>1, <1>2, <1>3 DEF vars

LEMMA Invariance == Spec => [](HostInv /\ WireInv /\ KeyShown)
<1>1. HostInv /\ WireInv /\ KeyShown /\ [Next]_vars => (HostInv /\ WireInv /\ KeyShown)'
  BY HostInvStep, WireStep, KeyShownStep
<1> QED
  BY <1>1, InitHolds, PTL DEF Spec

\* Every packet is read with the key and the number it was sent with, for any
\* number of senders and any modulus (relay.py:512-514, 611-616;
\* ssh_packet.py:88-114).
THEOREM PacketsReadWell == FairSpec => []NothingGarbled
<1>1. WireInv => NothingGarbled
  BY DEF WireInv
<1> QED
  BY <1>1, Invariance, PTL DEF FairSpec

\* An operator is shown one host key, for any number of relay processes and of
\* restarts (keys.py:26-36, relay.py:937).
THEOREM HostKeyIsKept == FairSpec => []OneHostKey
<1>1. KeyShown => OneHostKey
  BY DEF KeyShown, OneHostKey
<1> QED
  BY <1>1, Invariance, PTL DEF FairSpec

\* Whoever serves does so with the seed in the file (keys.py:26-36).
THEOREM SeedIsKept == FairSpec => []ServesTheFile
<1>1. HostInv => ServesTheFile
  BY DEF HostInv
<1> QED
  BY <1>1, Invariance, PTL DEF FairSpec

-----------------------------------------------------------------------------
(* The handshake.  How far the relay has come says what it has sent and what *)
(* it has read; how far the operator has come says which of that is still   *)
(* on its way to the operator, and what is still on its way to the relay.   *)

PlaceStage == [greeting |-> 0, want_version |-> 1, want_kexinit |-> 3, want_init |-> 4,
               switching |-> 7, want_newkeys |-> 8, want_service |-> 9, want_auth |-> 11,
               approving |-> 12, loop |-> 13, none |-> 0, closed |-> 0]
SendStage == [KEXINIT |-> 2, ECDH_REPLY |-> 5, NEWKEYS |-> 6, SERVICE_ACCEPT |-> 10,
              PK_OK |-> 12, FAILURE |-> 12, SUCCESS |-> 12, REPLY |-> 13, UNIMPLEMENTED |-> 13,
              DISCONNECT |-> 0]
StageOf(place, msg) == IF place = "sending" THEN SendStage[msg] ELSE PlaceStage[place]
Stage == StageOf(rpc, toSend)

Has(q, msg) == \E i \in 1..Len(q) : q[i].msg = msg

\* what the relay has sent and the operator has not read is on its way
SentIsComing(place, stage, q) ==
    /\ place = "want_version" /\ stage >= 1 => Has(q, "VERSION")
    /\ place \in {"want_version", "want_kexinit"} /\ stage >= 3 => Has(q, "KEXINIT")
    /\ place \in {"want_version", "want_kexinit", "want_reply"} /\ stage >= 6 => Has(q, "ECDH_REPLY")
    /\ place \in {"want_version", "want_kexinit", "want_reply", "want_newkeys"} /\ stage >= 7
          => Has(q, "NEWKEYS")
    /\ place \in {"want_version", "want_kexinit", "want_reply", "want_newkeys", "want_accept"}
          /\ stage >= 11 => Has(q, "SERVICE_ACCEPT")
    /\ place \in {"want_version", "want_kexinit", "want_reply", "want_newkeys", "want_accept",
                  "want_auth"} /\ stage >= 13 => Has(q, "SUCCESS")

\* what the operator has sent last and the relay has not read is on its way; an
\* attempt to authenticate may have been answered
AskedIsComing(place, stage, q, back) ==
    /\ place = "want_reply" /\ stage <= 4 => Has(q, "ECDH_INIT")
    /\ place = "want_newkeys" /\ stage <= 8 => Has(q, "NEWKEYS")
    /\ place = "want_accept" /\ stage <= 9 => Has(q, "SERVICE_REQUEST")
    /\ place = "want_auth" /\ stage <= 11 =>
          Has(q, "USERAUTH_REQUEST") \/ Has(back, "PK_OK") \/ Has(back, "FAILURE")

HandshakeInv ==
    /\ ~Doomed => SentIsComing(opc, Stage, toOperator)
    /\ ~Doomed => AskedIsComing(opc, Stage, toRelay, toOperator)

-----------------------------------------------------------------------------
\* What is in a queue stays there, and what is put behind it is there.
LEMMA HasAppend ==
    ASSUME NEW q \in Seq(PacketSet), NEW p \in PacketSet, NEW msg
    PROVE  Has(q, msg) \/ p.msg = msg => Has(Append(q, p), msg)
<1> DEFINE s == Append(q, p)
<1>1. /\ Len(s) = Len(q) + 1 /\ Len(q) \in Nat /\ s[Len(q) + 1] = p
      /\ \A i \in 1..Len(q) : s[i] = q[i]
  OBVIOUS
<1> HIDE DEF s
<1>2. ASSUME NEW i \in 1..Len(q), q[i].msg = msg
      PROVE  Has(s, msg)
  <2>1. i \in 1..Len(s) /\ s[i].msg = msg
    BY <1>1, <1>2
  <2> QED
    BY <2>1 DEF Has
<1>3. CASE p.msg = msg
  <2>1. Len(q) + 1 \in 1..Len(s) /\ s[Len(q) + 1].msg = msg
    BY <1>1, <1>3
  <2> QED
    BY <2>1 DEF Has, s
<1> QED
  BY <1>2, <1>3 DEF Has, s

\* Only the packet that is read leaves a queue.
LEMMA HasTail ==
    ASSUME NEW q \in Seq(PacketSet), q # <<>>, NEW msg, Has(q, msg), Head(q).msg # msg
    PROVE  Has(Tail(q), msg)
<1> DEFINE s == Tail(q)
<1>1. /\ Len(s) = Len(q) - 1 /\ Len(q) \in Nat /\ Head(q) = q[1]
      /\ \A i \in 1..Len(q) - 1 : s[i] = q[i + 1]
  OBVIOUS
<1> HIDE DEF s
<1>2. PICK i \in 1..Len(q) : q[i].msg = msg
  BY DEF Has
<1>3. i # 1
  BY <1>1, <1>2
<1>4. i - 1 \in 1..Len(q) - 1 /\ (i - 1) + 1 = i
  BY <1>1, <1>3
<1>5. i - 1 \in 1..Len(s) /\ s[i - 1].msg = msg
  BY <1>1, <1>2, <1>4
<1> QED
  BY <1>5 DEF Has, s

\* What the relay sends next completes what it has sent; otherwise its stages do
\* not change what the operator is to receive.
LEMMA SentGrows ==
    ASSUME NEW place, NEW stage \in 0..13, NEW next \in 0..13,
           NEW q \in Seq(PacketSet), NEW p \in PacketSet,
           SentIsComing(place, stage, q),
           \/ stage = 0 /\ next = 1 /\ p.msg = "VERSION"
           \/ stage = 2 /\ next = 3 /\ p.msg = "KEXINIT"
           \/ stage = 5 /\ next = 6 /\ p.msg = "ECDH_REPLY"
           \/ stage = 6 /\ next = 7 /\ p.msg = "NEWKEYS"
           \/ stage = 10 /\ next = 11 /\ p.msg = "SERVICE_ACCEPT"
           \/ stage = 12 /\ next = 13 /\ p.msg = "SUCCESS"
           \/ stage = 12 /\ next = 11
           \/ stage = next
    PROVE  SentIsComing(place, next, Append(q, p))
<1> DEFINE s == Append(q, p)
<1>1. \A msg \in Messages : Has(q, msg) \/ p.msg = msg => Has(s, msg)
  BY HasAppend
<1>2. {"VERSION", "KEXINIT", "ECDH_REPLY", "NEWKEYS", "SERVICE_ACCEPT", "SUCCESS"} \subseteq Messages
  BY DEF Messages
<1> HIDE DEF s
<1> SUFFICES SentIsComing(place, next, s)
  BY DEF s
<1>3. /\ Has(q, "VERSION") \/ p.msg = "VERSION" => Has(s, "VERSION")
      /\ Has(q, "KEXINIT") \/ p.msg = "KEXINIT" => Has(s, "KEXINIT")
      /\ Has(q, "ECDH_REPLY") \/ p.msg = "ECDH_REPLY" => Has(s, "ECDH_REPLY")
      /\ Has(q, "NEWKEYS") \/ p.msg = "NEWKEYS" => Has(s, "NEWKEYS")
      /\ Has(q, "SERVICE_ACCEPT") \/ p.msg = "SERVICE_ACCEPT" => Has(s, "SERVICE_ACCEPT")
      /\ Has(q, "SUCCESS") \/ p.msg = "SUCCESS" => Has(s, "SUCCESS")
  BY <1>1, <1>2
<1> QED
  BY <1>3 DEF SentIsComing

LEMMA SentStays ==
    ASSUME NEW place, NEW stage \in 0..13, NEW next \in 0..13, NEW q,
           SentIsComing(place, stage, q),
           stage = next \/ (stage \in {1, 3, 4, 7, 8, 9, 11} /\ next = stage + 1)
    PROVE  SentIsComing(place, next, q)
  BY DEF SentIsComing

\* A relay that goes on asks for no more than before.
LEMMA AskedStays ==
    ASSUME NEW place, NEW stage \in 0..13, NEW next \in 0..13, stage <= next,
           NEW q, NEW back \in Seq(PacketSet), NEW p \in PacketSet, NEW after,
           after = back \/ after = Append(back, p),
           AskedIsComing(place, stage, q, back)
    PROVE  AskedIsComing(place, next, q, after)
<1>1. /\ Has(back, "PK_OK") => Has(after, "PK_OK")
      /\ Has(back, "FAILURE") => Has(after, "FAILURE")
  BY HasAppend
<1> QED
  BY <1>1 DEF AskedIsComing

\* What the relay reads is what it waits for, or it is of no account.
LEMMA AskedRead ==
    ASSUME NEW place, NEW stage \in 0..13, NEW next \in 0..13,
           NEW q \in Seq(PacketSet), q # <<>>, NEW back,
           AskedIsComing(place, stage, q, back),
           \/ stage = next /\ Head(q).msg = "IGNORE"
           \/ stage = 1 /\ next = 2 /\ Head(q).msg = "VERSION"
           \/ stage = 3 /\ next = 4 /\ Head(q).msg = "KEXINIT"
           \/ stage = 4 /\ next = 5 /\ Head(q).msg = "ECDH_INIT"
           \/ stage = 8 /\ next = 9 /\ Head(q).msg = "NEWKEYS"
           \/ stage = 9 /\ next = 10 /\ Head(q).msg = "SERVICE_REQUEST"
           \/ stage = 11 /\ next = 12 /\ Head(q).msg = "USERAUTH_REQUEST"
           \/ stage = 13 /\ next = 13
    PROVE  AskedIsComing(place, next, Tail(q), back)
<1>1. \A msg \in Messages : Has(q, msg) /\ Head(q).msg # msg => Has(Tail(q), msg)
  BY HasTail
<1>2. {"ECDH_INIT", "NEWKEYS", "SERVICE_REQUEST", "USERAUTH_REQUEST"} \subseteq Messages
  BY DEF Messages
<1> DEFINE s == Tail(q)
           h == Head(q).msg
<1>3. /\ Has(q, "ECDH_INIT") /\ h # "ECDH_INIT" => Has(s, "ECDH_INIT")
      /\ Has(q, "NEWKEYS") /\ h # "NEWKEYS" => Has(s, "NEWKEYS")
      /\ Has(q, "SERVICE_REQUEST") /\ h # "SERVICE_REQUEST" => Has(s, "SERVICE_REQUEST")
      /\ Has(q, "USERAUTH_REQUEST") /\ h # "USERAUTH_REQUEST" => Has(s, "USERAUTH_REQUEST")
  BY <1>1, <1>2
<1> HIDE DEF s, h
<1> SUFFICES AskedIsComing(place, next, s, back)
  BY DEF s
<1> QED
  BY <1>3 DEF AskedIsComing, h

-----------------------------------------------------------------------------
\* The stages there are.
LEMMA Stages ==
    ASSUME NEW place \in RelayPlaces, NEW msg \in RelaySends \cup {None},
           msg # None <=> place = "sending"
    PROVE  StageOf(place, msg) \in 0..13
<1>1. place # "sending" => PlaceStage[place] \in 0..13
  BY DEF RelayPlaces, PlaceStage
<1>2. msg \in RelaySends => SendStage[msg] \in 0..13
  BY DEF RelaySends, SendStage
<1> QED
  BY <1>1, <1>2 DEF StageOf, None

LEMMA StagesOfPlaces ==
    ASSUME NEW msg
    PROVE  /\ StageOf("greeting", msg) = 0 /\ StageOf("want_version", msg) = 1
           /\ StageOf("want_kexinit", msg) = 3 /\ StageOf("want_init", msg) = 4
           /\ StageOf("switching", msg) = 7 /\ StageOf("want_newkeys", msg) = 8
           /\ StageOf("want_service", msg) = 9 /\ StageOf("want_auth", msg) = 11
           /\ StageOf("approving", msg) = 12 /\ StageOf("loop", msg) = 13
  BY DEF StageOf, PlaceStage

LEMMA StagesOfSends ==
    /\ StageOf("sending", "KEXINIT") = 2 /\ StageOf("sending", "ECDH_REPLY") = 5
    /\ StageOf("sending", "NEWKEYS") = 6 /\ StageOf("sending", "SERVICE_ACCEPT") = 10
    /\ StageOf("sending", "PK_OK") = 12 /\ StageOf("sending", "FAILURE") = 12
    /\ StageOf("sending", "SUCCESS") = 12 /\ StageOf("sending", "REPLY") = 13
    /\ StageOf("sending", "UNIMPLEMENTED") = 13
  BY DEF StageOf, SendStage

LEMMA StageIs ==
    /\ WireTypes => Stage \in 0..13 /\ Stage <= Stage
    /\ WireTypes' => Stage' \in 0..13
<1>1. WireTypes => Stage \in 0..13
  BY Stages DEF WireTypes, Stage
<1>2. WireTypes' => Stage' \in 0..13
  BY Stages DEF WireTypes, Stage
<1> QED
  BY <1>1, <1>2

LEMMA HandshakeEndSend ==
    ASSUME WireInv, WireTypes', HandshakeInv, NEW t \in Threads, EndSend(t)
    PROVE  HandshakeInv'
<1> DEFINE p == sending[t]
<1>1. /\ p \in PacketSet /\ p.msg = IF t = "main" THEN toSend ELSE "DATA"
      /\ t = "main" => rpc = "sending" /\ toSend \in RelaySends
      /\ toOperator \in Seq(PacketSet)
  BY DEF EndSend, WireInv, OneSender, WireTypes, None
<1>0. Stage \in 0..13 /\ Stage' \in 0..13 /\ Stage <= Stage
  BY StageIs DEF WireInv
<1>2. /\ UNCHANGED <<opc, toRelay>>
      /\ IF rpc = "closed" THEN UNCHANGED toOperator ELSE toOperator' = Append(toOperator, p)
      /\ IF t = "main" THEN AfterSend(toSend) ELSE UNCHANGED <<rpc, toSend>>
  BY DEF EndSend, operatorVars
<1> HIDE DEF p
<1>3. CASE t # "main"
  <2>1. Stage' = Stage /\ Doomed' = Doomed
    BY <1>2, <1>3 DEF Stage, Doomed
  <2>2. CASE Doomed
    BY <2>1, <2>2 DEF HandshakeInv
  <2>3. CASE ~Doomed
    <3>1. toOperator' = Append(toOperator, p)
      BY <1>2, <2>3 DEF Doomed
    <3>2. SentIsComing(opc, Stage, toOperator')
      BY <1>0, <1>1, <2>3, <3>1, SentGrows DEF HandshakeInv
    <3>3. AskedIsComing(opc, Stage, toRelay, toOperator')
      BY <1>0, <1>1, <2>3, <3>1, AskedStays DEF HandshakeInv
    <3> QED
      BY <1>2, <2>1, <3>2, <3>3 DEF HandshakeInv
  <2> QED
    BY <2>2, <2>3
<1>4. CASE t = "main"
  <2>1. rpc = "sending" /\ toSend \in RelaySends /\ p.msg = toSend /\ AfterSend(toSend)
        /\ toOperator' = Append(toOperator, p)
    BY <1>1, <1>2, <1>4
  <2>2. CASE toSend = "DISCONNECT"
    BY <2>1, <2>2 DEF AfterSend, Goes, HandshakeInv, Doomed
  <2>3. ASSUME toSend # "DISCONNECT"
        PROVE  \/ Stage = 2 /\ Stage' = 3 /\ toSend = "KEXINIT"
               \/ Stage = 5 /\ Stage' = 6 /\ toSend = "ECDH_REPLY"
               \/ Stage = 6 /\ Stage' = 7 /\ toSend = "NEWKEYS"
               \/ Stage = 10 /\ Stage' = 11 /\ toSend = "SERVICE_ACCEPT"
               \/ Stage = 12 /\ Stage' = 13 /\ toSend = "SUCCESS"
               \/ Stage = 12 /\ Stage' = 11 /\ toSend \in {"PK_OK", "FAILURE"}
               \/ Stage = 13 /\ Stage' = 13
    <3> USE StagesOfPlaces, StagesOfSends DEF AfterSend, Goes, Sends, Stage
    <3>1. CASE toSend \in {"KEXINIT", "ECDH_REPLY", "NEWKEYS", "SERVICE_ACCEPT"}
      BY <2>1, <3>1
    <3>2. CASE toSend \in {"SUCCESS", "PK_OK", "FAILURE", "REPLY", "UNIMPLEMENTED"}
      BY <2>1, <3>2
    <3> QED
      BY <2>1, <2>3, <3>1, <3>2 DEF RelaySends
  <2>4. CASE toSend # "DISCONNECT"
    <3>1. ~Doomed
      BY <2>1, <2>4 DEF Doomed
    <3>2. SentIsComing(opc, Stage', toOperator')
      <4>1. SentIsComing(opc, Stage, toOperator)
        BY <3>1 DEF HandshakeInv
      <4> QED
        BY <1>0, <1>1, <2>1, <2>3, <2>4, <4>1, SentGrows
    <3>3. AskedIsComing(opc, Stage', toRelay, toOperator')
      <4>1. AskedIsComing(opc, Stage, toRelay, toOperator)
        BY <3>1 DEF HandshakeInv
      <4>2. CASE Stage <= Stage'
        BY <1>0, <1>1, <2>1, <4>1, <4>2, AskedStays
      <4>3. CASE ~(Stage <= Stage')
        <5>1. Stage = 12 /\ Stage' = 11 /\ p.msg \in {"PK_OK", "FAILURE"}
          BY <1>0, <2>1, <2>3, <2>4, <4>3
        <5>2. Has(toOperator', "PK_OK") \/ Has(toOperator', "FAILURE")
          BY <1>1, <2>1, <5>1, HasAppend
        <5> QED
          BY <5>1, <5>2 DEF AskedIsComing
      <4> QED
        BY <4>2, <4>3
    <3> QED
      BY <1>2, <3>2, <3>3 DEF HandshakeInv
  <2> QED
    BY <2>2, <2>4
<1> QED
  BY <1>3, <1>4


LEMMA HandshakeGreet ==
    ASSUME WireInv, HandshakeInv, Greet
    PROVE  HandshakeInv'
<1> DEFINE p == Packet("VERSION", FALSE, 0, 0, Empty)
<1>1. p \in PacketSet /\ p.msg = "VERSION"
  BY ZeroIsOne DEF Packet, PacketSet, Messages, Empty
<1>2. /\ rpc = "greeting" /\ rpc' = "want_version" /\ toSend' = None
      /\ toOperator' = Append(toOperator, p) /\ UNCHANGED <<opc, toRelay>>
  BY DEF Greet, Goes, operatorVars
<1> HIDE DEF p
<1>3. toOperator \in Seq(PacketSet) /\ Stage = 0 /\ Stage' = 1 /\ ~Doomed
  BY <1>2, StagesOfPlaces DEF WireInv, WireTypes, Stage, Doomed, None
<1>4. /\ SentIsComing(opc, 0, toOperator)
      /\ AskedIsComing(opc, 0, toRelay, toOperator)
      /\ 0 \in 0..13 /\ 1 \in 0..13 /\ 0 <= 1
  BY <1>3 DEF HandshakeInv
<1>5. SentIsComing(opc, 1, toOperator')
  BY <1>1, <1>2, <1>3, <1>4, SentGrows
<1>6. AskedIsComing(opc, 1, toRelay, toOperator')
  BY <1>1, <1>2, <1>3, <1>4, AskedStays
<1> QED
  BY <1>2, <1>3, <1>5, <1>6 DEF HandshakeInv

\* The connection's thread goes on and writes nothing.
LEMMA HandshakeGoesOn ==
    ASSUME WireInv, WireTypes', HandshakeInv, UNCHANGED <<opc, toOperator>>,
           Doomed' \/ (~Doomed /\ (Stage' = Stage \/ (Stage \in {1, 3, 4, 7, 8, 9, 11} /\ Stage' = Stage + 1))),
           Doomed' \/ toRelay' = toRelay
             \/ ( /\ toRelay # <<>> /\ toRelay' = Tail(toRelay)
                  /\ \/ Stage = Stage' /\ Head(toRelay).msg = "IGNORE"
                     \/ Stage = 1 /\ Stage' = 2 /\ Head(toRelay).msg = "VERSION"
                     \/ Stage = 3 /\ Stage' = 4 /\ Head(toRelay).msg = "KEXINIT"
                     \/ Stage = 4 /\ Stage' = 5 /\ Head(toRelay).msg = "ECDH_INIT"
                     \/ Stage = 8 /\ Stage' = 9 /\ Head(toRelay).msg = "NEWKEYS"
                     \/ Stage = 9 /\ Stage' = 10 /\ Head(toRelay).msg = "SERVICE_REQUEST"
                     \/ Stage = 11 /\ Stage' = 12 /\ Head(toRelay).msg = "USERAUTH_REQUEST"
                     \/ Stage = 13 /\ Stage' = 13 )
    PROVE  HandshakeInv'
<1> SUFFICES ASSUME ~Doomed'
             PROVE  /\ SentIsComing(opc, Stage', toOperator)
                    /\ AskedIsComing(opc, Stage', toRelay', toOperator)
  BY DEF HandshakeInv
<1>1. Stage \in 0..13 /\ Stage' \in 0..13
  BY StageIs DEF WireInv
<1>2. toOperator \in Seq(PacketSet) /\ toRelay \in Seq(PacketSet)
  BY DEF WireInv, WireTypes
<1>3. /\ SentIsComing(opc, Stage, toOperator)
      /\ AskedIsComing(opc, Stage, toRelay, toOperator)
  BY DEF HandshakeInv
<1>4. SentIsComing(opc, Stage', toOperator)
  BY <1>1, <1>3, SentStays
<1>5. CASE toRelay' = toRelay
  <2>1. Stage <= Stage'
    BY <1>1
  <2>2. Packet("IGNORE", FALSE, 0, 0, Empty) \in PacketSet
    BY ZeroIsOne DEF Packet, PacketSet, Messages, Empty
  <2> QED
    BY <1>1, <1>2, <1>3, <1>4, <1>5, <2>1, <2>2, AskedStays
<1>6. CASE toRelay' # toRelay
  BY <1>1, <1>2, <1>3, <1>4, <1>6, AskedRead
<1> QED
  BY <1>5, <1>6

\* What the connection's thread does with the packet it reads.
LEMMA ReadLeads ==
    ASSUME WireInv, RelayReads
    PROVE  /\ toRelay # <<>> /\ toRelay' = Tail(toRelay)
           /\ UNCHANGED <<opc, toOperator, unknowns, sending>>
           /\ toSend = None /\ ~Doomed
           /\ \/ Doomed' /\ toSend' = "DISCONNECT"
              \/ /\ toSend' \notin {"REPLY", "UNIMPLEMENTED"}
                 /\ \/ Stage' = Stage /\ Head(toRelay).msg = "IGNORE"
                    \/ Stage = 3 /\ Stage' = 4 /\ Head(toRelay).msg = "KEXINIT"
                    \/ Stage = 4 /\ Stage' = 5 /\ Head(toRelay).msg = "ECDH_INIT"
                    \/ Stage = 8 /\ Stage' = 9 /\ Head(toRelay).msg = "NEWKEYS"
                    \/ Stage = 9 /\ Stage' = 10 /\ Head(toRelay).msg = "SERVICE_REQUEST"
                    \/ Stage = 11 /\ Stage' = 12 /\ Head(toRelay).msg = "USERAUTH_REQUEST"
              \/ /\ Stage = 13 /\ Stage' = 13 /\ Head(toRelay).msg # "IGNORE" /\ rpc = "loop"
                 /\ ~Doomed' /\ toSend' = IF Head(toRelay).msg = "REQUEST" THEN "REPLY" ELSE "UNIMPLEMENTED"
<1>1. /\ toRelay # <<>> /\ toRelay' = Tail(toRelay) /\ UNCHANGED <<opc, toOperator, unknowns, sending>>
      /\ rpc \in {"want_kexinit", "want_init", "want_newkeys", "want_service", "want_auth", "loop"}
      /\ Reaction(rpc, Head(toRelay).msg) \/ Sends("DISCONNECT")
  BY DEF RelayReads, operatorVars
<1>2. toSend = None /\ ~Doomed
  BY <1>1 DEF WireInv, WireTypes, Doomed, None
<1> DEFINE msg == Head(toRelay).msg
<1>3. \/ Sends("DISCONNECT")
      \/ Goes(rpc) /\ msg = "IGNORE"
      \/ rpc = "want_kexinit" /\ msg = "KEXINIT" /\ Goes("want_init")
      \/ rpc = "want_init" /\ msg = "ECDH_INIT" /\ Sends("ECDH_REPLY")
      \/ rpc = "want_newkeys" /\ msg = "NEWKEYS" /\ Goes("want_service")
      \/ rpc = "want_service" /\ msg = "SERVICE_REQUEST" /\ Sends("SERVICE_ACCEPT")
      \/ rpc = "want_auth" /\ msg = "USERAUTH_REQUEST" /\ Goes("approving")
      \/ /\ rpc = "loop" /\ msg # "IGNORE"
         /\ Sends(IF msg = "REQUEST" THEN "REPLY" ELSE "UNIMPLEMENTED")
  BY <1>1, ReactionLeads
<1> HIDE DEF msg
<1>4. \/ Doomed' /\ toSend' = "DISCONNECT"
      \/ /\ toSend' \notin {"REPLY", "UNIMPLEMENTED"}
         /\ \/ Stage' = Stage /\ msg = "IGNORE"
            \/ Stage = 3 /\ Stage' = 4 /\ msg = "KEXINIT"
            \/ Stage = 4 /\ Stage' = 5 /\ msg = "ECDH_INIT"
            \/ Stage = 8 /\ Stage' = 9 /\ msg = "NEWKEYS"
            \/ Stage = 9 /\ Stage' = 10 /\ msg = "SERVICE_REQUEST"
            \/ Stage = 11 /\ Stage' = 12 /\ msg = "USERAUTH_REQUEST"
      \/ /\ Stage = 13 /\ Stage' = 13 /\ msg # "IGNORE" /\ rpc = "loop"
         /\ ~Doomed' /\ toSend' = IF msg = "REQUEST" THEN "REPLY" ELSE "UNIMPLEMENTED"
  <2> USE StagesOfPlaces, StagesOfSends DEF Stage, Goes, Sends, None
  <2>1. CASE Sends("DISCONNECT")
    BY <2>1 DEF Doomed
  <2>2. CASE Goes(rpc) /\ msg = "IGNORE"
    BY <1>2, <2>2
  <2>3. CASE rpc = "want_kexinit" /\ msg = "KEXINIT" /\ Goes("want_init")
    BY <2>3
  <2>4. CASE rpc = "want_init" /\ msg = "ECDH_INIT" /\ Sends("ECDH_REPLY")
    BY <2>4
  <2>5. CASE rpc = "want_newkeys" /\ msg = "NEWKEYS" /\ Goes("want_service")
    BY <2>5
  <2>6. CASE rpc = "want_service" /\ msg = "SERVICE_REQUEST" /\ Sends("SERVICE_ACCEPT")
    BY <2>6
  <2>7. CASE rpc = "want_auth" /\ msg = "USERAUTH_REQUEST" /\ Goes("approving")
    BY <2>7
  <2>8. CASE /\ rpc = "loop" /\ msg # "IGNORE"
             /\ Sends(IF msg = "REQUEST" THEN "REPLY" ELSE "UNIMPLEMENTED")
    BY <2>8 DEF Doomed
  <2> QED
    BY <1>3, <2>1, <2>2, <2>3, <2>4, <2>5, <2>6, <2>7, <2>8
<1> QED
  BY <1>1, <1>2, <1>4 DEF msg

LEMMA HandshakeReads ==
    ASSUME WireInv, WireTypes', HandshakeInv, RelayReads
    PROVE  HandshakeInv'
<1>1. Doomed' \/ (~Doomed /\ (Stage' = Stage \/ (Stage \in {1, 3, 4, 7, 8, 9, 11} /\ Stage' = Stage + 1)))
  BY ReadLeads
<1> QED
  BY <1>1, ReadLeads, HandshakeGoesOn

\* The steps in which the connection's thread reads no packet and writes none.
LEMMA HandshakeMoves ==
    ASSUME WireInv, WireTypes', HandshakeInv, ReadVersion \/ Verdict \/ SetSendCipher \/ RelaySeesEnd
    PROVE  HandshakeInv'
<1> USE StagesOfPlaces, StagesOfSends DEF Stage, Goes, Sends, operatorVars, wireVars
<1>1. CASE ReadVersion
  <2>1. /\ rpc = "want_version" /\ rpc' = "sending" /\ toSend' = "KEXINIT"
        /\ toRelay # <<>> /\ toRelay' = Tail(toRelay) /\ UNCHANGED <<opc, toOperator>>
    BY <1>1 DEF ReadVersion
  <2>2. Stage = 1 /\ Stage' = 2 /\ ~Doomed
    BY <2>1 DEF WireInv, WireTypes, Doomed, None
  <2>3. Head(toRelay).msg = "VERSION"
    <3>1. toRelay[1].msg = "VERSION"
      BY <2>1, <2>2 DEF WireInv, ToRelayInv, Greeted
    <3>2. Head(toRelay) = toRelay[1]
      BY <2>1 DEF WireInv, WireTypes
    <3> QED
      BY <3>1, <3>2
  <2>4. Stage \in {1, 3, 4, 7, 8, 9, 11} /\ Stage' = Stage + 1
    BY <2>2
  <2> HIDE DEF Stage
  <2> QED
    BY <2>1, <2>2, <2>3, <2>4, HandshakeGoesOn
<1>2. CASE Verdict /\ toSend' = "DISCONNECT"
  BY <1>2 DEF Verdict, HandshakeInv, Doomed
<1>2a. CASE Verdict /\ toSend' # "DISCONNECT"
  <2>1. /\ rpc = "approving" /\ rpc' = "sending" /\ toSend' \in {"PK_OK", "FAILURE", "SUCCESS"}
        /\ UNCHANGED <<opc, toOperator, toRelay>>
    BY <1>2a DEF Verdict
  <2>2. Stage = 12 /\ Stage' = 12 /\ ~Doomed
    BY <2>1 DEF WireInv, WireTypes, Doomed, None
  <2> HIDE DEF Stage
  <2> QED
    BY <2>1, <2>2, HandshakeGoesOn
<1>3. CASE SetSendCipher
  <2>1. rpc = "switching" /\ rpc' = "want_newkeys" /\ UNCHANGED <<opc, toOperator, toRelay>>
    BY <1>3 DEF SetSendCipher
  <2>2. Stage = 7 /\ Stage' = 8 /\ ~Doomed
    BY <2>1 DEF WireInv, WireTypes, Doomed, None
  <2>3. Stage \in {1, 3, 4, 7, 8, 9, 11} /\ Stage' = Stage + 1
    BY <2>2
  <2> HIDE DEF Stage
  <2> QED
    BY <2>1, <2>2, <2>3, HandshakeGoesOn
<1>4. CASE RelaySeesEnd
  BY <1>4 DEF RelaySeesEnd, HandshakeInv, Doomed
<1> QED
  BY <1>1, <1>2, <1>2a, <1>3, <1>4

-----------------------------------------------------------------------------
\* What an operator that goes on with the handshake has read, and what it sends.
LEMMA AnswerInHandshake ==
    ASSUME NEW place \in OperatorPlaces \ {"away", "left"}, NEW msg, NEW answer,
           answer = OperatorAnswer(place, msg) \/ answer = <<"left", <<>>>>
    PROVE  \/ answer[1] \in {"left", "connected", "rekeying"}
           \/ place = "want_version" /\ msg = "VERSION" /\ answer = <<"want_kexinit", <<"KEXINIT">>>>
           \/ place = "want_kexinit" /\ msg = "KEXINIT" /\ answer = <<"want_reply", <<"ECDH_INIT">>>>
           \/ place = "want_reply" /\ msg = "ECDH_REPLY" /\ answer = <<"want_newkeys", <<"NEWKEYS">>>>
           \/ place = "want_newkeys" /\ msg = "NEWKEYS"
                /\ answer = <<"want_accept", <<"SERVICE_REQUEST">>>>
           \/ place = "want_accept" /\ msg = "SERVICE_ACCEPT"
                /\ answer = <<"want_auth", <<"USERAUTH_REQUEST">>>>
           \/ place = "want_auth" /\ msg \in {"PK_OK", "FAILURE"}
                /\ answer = <<"want_auth", <<"USERAUTH_REQUEST">>>>
<1>1. CASE answer = <<"left", <<>>>>
  BY <1>1
<1>2. CASE answer = OperatorAnswer(place, msg)
  BY <1>2 DEF OperatorAnswer, OperatorPlaces
<1> QED
  BY <1>1, <1>2

\* A message the operator sends goes behind those on the way to the relay.
LEMMA OperatorAppends ==
    ASSUME WireInv, NEW m \in Messages, OperatorSends(<<m>>)
    PROVE  \E p \in PacketSet : p.msg = m /\ p.seq = osend /\ toRelay' = Append(toRelay, p)
<1> DEFINE p == Packet(m, okeyed, osend, 0, Empty)
<1>0. toRelay \in Seq(PacketSet) /\ osend \in Seqs /\ okeyed \in BOOLEAN
  BY DEF WireInv, WireTypes
<1>1. p \in PacketSet /\ p.msg = m /\ p.seq = osend
  BY <1>0, ZeroIsOne DEF Packet, PacketSet, Empty
<1>2. Len(<<m>>) = 1 /\ <<m>>[1] = m /\ 1..Len(<<m>>) = {1}
  OBVIOUS
<1>3. (osend + 1 - 1) % Modulus = osend
  BY <1>0, Wraps
<1>4. [i \in 1..Len(<<m>>) |-> Packet(<<m>>[i], okeyed, (osend + i - 1) % Modulus, 0, Empty)] = <<p>>
  BY <1>2, <1>3
<1>5. toRelay' = toRelay \o <<p>>
  BY <1>4 DEF OperatorSends
<1> HIDE DEF p
<1>6. toRelay' = Append(toRelay, p)
  BY <1>0, <1>1, <1>5
<1> QED
  BY <1>1, <1>6

LEMMA HandshakeOperatorReads ==
    ASSUME WireInv, HandshakeInv, OperatorReads
    PROVE  HandshakeInv'
<1> DEFINE msg == Head(toOperator).msg
<1>1. /\ opc \in OperatorPlaces \ {"away", "left"}
      /\ toOperator # <<>> /\ toOperator' = Tail(toOperator) /\ UNCHANGED relayVars
      /\ toOperator \in Seq(PacketSet) /\ toRelay \in Seq(PacketSet)
  BY DEF OperatorReads, WireInv, WireTypes
<1>2. PICK answer : /\ opc' = answer[1] /\ OperatorSends(answer[2])
                    /\ answer = OperatorAnswer(opc, msg) \/ answer = <<"left", <<>>>>
  BY DEF OperatorReads
<1>3. \A m \in Messages : Has(toOperator, m) /\ msg # m => Has(toOperator', m)
  BY <1>1, HasTail
<1> HIDE DEF msg
<1>4. Stage' = Stage /\ Doomed' = Doomed /\ Stage \in 0..13
  BY <1>1, StageIs DEF relayVars, Stage, Doomed, WireInv
<1>5. CASE opc' \in {"left", "connected", "rekeying"}
  BY <1>5 DEF HandshakeInv, SentIsComing, AskedIsComing
<1>6. ASSUME ~Doomed, opc' \notin {"left", "connected", "rekeying"}
      PROVE  HandshakeInv'
  <2>1. \/ opc = "want_version" /\ msg = "VERSION" /\ answer = <<"want_kexinit", <<"KEXINIT">>>>
        \/ opc = "want_kexinit" /\ msg = "KEXINIT" /\ answer = <<"want_reply", <<"ECDH_INIT">>>>
        \/ opc = "want_reply" /\ msg = "ECDH_REPLY" /\ answer = <<"want_newkeys", <<"NEWKEYS">>>>
        \/ opc = "want_newkeys" /\ msg = "NEWKEYS"
             /\ answer = <<"want_accept", <<"SERVICE_REQUEST">>>>
        \/ opc = "want_accept" /\ msg = "SERVICE_ACCEPT"
             /\ answer = <<"want_auth", <<"USERAUTH_REQUEST">>>>
        \/ opc = "want_auth" /\ msg \in {"PK_OK", "FAILURE"}
             /\ answer = <<"want_auth", <<"USERAUTH_REQUEST">>>>
    BY <1>1, <1>2, <1>6, AnswerInHandshake
  <2>2. PICK m \in Messages : answer[2] = <<m>> /\
          \/ opc = "want_version" /\ msg = "VERSION" /\ opc' = "want_kexinit" /\ m = "KEXINIT"
          \/ opc = "want_kexinit" /\ msg = "KEXINIT" /\ opc' = "want_reply" /\ m = "ECDH_INIT"
          \/ opc = "want_reply" /\ msg = "ECDH_REPLY" /\ opc' = "want_newkeys" /\ m = "NEWKEYS"
          \/ opc = "want_newkeys" /\ msg = "NEWKEYS" /\ opc' = "want_accept" /\ m = "SERVICE_REQUEST"
          \/ opc = "want_accept" /\ msg = "SERVICE_ACCEPT" /\ opc' = "want_auth"
               /\ m = "USERAUTH_REQUEST"
          \/ opc = "want_auth" /\ msg \in {"PK_OK", "FAILURE"} /\ opc' = "want_auth"
               /\ m = "USERAUTH_REQUEST"
    BY <1>2, <2>1 DEF Messages
  <2>3. Has(toRelay', m)
    <3>1. PICK p \in PacketSet : p.msg = m /\ toRelay' = Append(toRelay, p)
      BY <1>2, <2>2, OperatorAppends
    <3> QED
      BY <1>1, <3>1, HasAppend
  <2>4. /\ SentIsComing(opc, Stage, toOperator)
        /\ AskedIsComing(opc, Stage, toRelay, toOperator)
    BY <1>6 DEF HandshakeInv
  <2>5. /\ Has(toOperator, "KEXINIT") /\ msg # "KEXINIT" => Has(toOperator', "KEXINIT")
        /\ Has(toOperator, "ECDH_REPLY") /\ msg # "ECDH_REPLY" => Has(toOperator', "ECDH_REPLY")
        /\ Has(toOperator, "NEWKEYS") /\ msg # "NEWKEYS" => Has(toOperator', "NEWKEYS")
        /\ Has(toOperator, "SERVICE_ACCEPT") /\ msg # "SERVICE_ACCEPT"
             => Has(toOperator', "SERVICE_ACCEPT")
        /\ Has(toOperator, "SUCCESS") /\ msg # "SUCCESS" => Has(toOperator', "SUCCESS")
    BY <1>3 DEF Messages
  <2>6. SentIsComing(opc', Stage, toOperator')
    BY <2>2, <2>4, <2>5 DEF SentIsComing
  <2>7. AskedIsComing(opc', Stage, toRelay', toOperator')
    BY <2>2, <2>3 DEF AskedIsComing
  <2> QED
    BY <1>4, <2>6, <2>7 DEF HandshakeInv
<1>7. CASE Doomed
  BY <1>4, <1>7 DEF HandshakeInv
<1> QED
  BY <1>5, <1>6, <1>7

\* What the operator says of its own accord is behind what the handshake needs.
LEMMA HandshakeOperatorTalks ==
    ASSUME WireInv, HandshakeInv, OperatorTalks
    PROVE  HandshakeInv'
<1>1. PICK m \in {"IGNORE", "REQUEST", "UNKNOWN", "KEXINIT"} :
         OperatorSends(<<m>>) /\ opc' = IF m = "KEXINIT" THEN "rekeying" ELSE opc
  BY DEF OperatorTalks
<1>2. UNCHANGED <<rpc, toSend, toOperator>> /\ toRelay \in Seq(PacketSet)
  BY DEF OperatorTalks, relayVars, WireInv, WireTypes
<1>3. PICK p \in PacketSet : toRelay' = Append(toRelay, p)
  BY <1>1, OperatorAppends DEF Messages
<1>4. Stage' = Stage /\ Doomed' = Doomed
  BY <1>2 DEF Stage, Doomed
<1>5. CASE opc' = "rekeying"
  BY <1>5 DEF HandshakeInv, SentIsComing, AskedIsComing
<1>6. CASE opc' = opc
  <2>1. /\ Has(toRelay, "ECDH_INIT") => Has(toRelay', "ECDH_INIT")
        /\ Has(toRelay, "NEWKEYS") => Has(toRelay', "NEWKEYS")
        /\ Has(toRelay, "SERVICE_REQUEST") => Has(toRelay', "SERVICE_REQUEST")
        /\ Has(toRelay, "USERAUTH_REQUEST") => Has(toRelay', "USERAUTH_REQUEST")
    BY <1>2, <1>3, HasAppend
  <2>2. AskedIsComing(opc, Stage, toRelay, toOperator) => AskedIsComing(opc, Stage, toRelay', toOperator)
    BY <2>1 DEF AskedIsComing
  <2> QED
    BY <1>2, <1>4, <1>6, <2>2 DEF HandshakeInv
<1> QED
  BY <1>1, <1>5, <1>6

-----------------------------------------------------------------------------
\* Every step keeps the invariant of the handshake.
LEMMA HandshakeStep ==
    ASSUME WireInv, HostInv, KeyShown, HandshakeInv, [Next]_vars
    PROVE  HandshakeInv'
<1>0. WireTypes'
  BY WireStep DEF WireInv
<1>1. ASSUME UNCHANGED <<rpc, toSend, toOperator, toRelay>>, opc' \in {opc, "left"}
      PROVE  HandshakeInv'
  <2>1. Stage' = Stage /\ Doomed' = Doomed
    BY <1>1 DEF Stage, Doomed
  <2> QED
    BY <1>1, <2>1 DEF HandshakeInv, SentIsComing, AskedIsComing
<1>2. CASE HostKeySteps \/ OperatorLeaves \/ UNCHANGED vars \/ \E t \in Threads : BeginSend(t)
  BY <1>1, <1>2 DEF HostKeySteps, OperatorLeaves, vars, operatorVars, relayVars, wireVars,
     BeginSend, Encrypted
<1>3. ASSUME NEW r \in Relays, CrashRelay(r)
      PROVE  HandshakeInv'
  <2>1. CASE rpc' = "closed"
    BY <2>1 DEF HandshakeInv, Doomed
  <2>2. CASE UNCHANGED <<rpc, toSend>>
    BY <1>1, <1>3, <2>2 DEF CrashRelay, operatorVars, wireVars
  <2> QED
    BY <1>3, <2>1, <2>2 DEF CrashRelay, Goes
<1>4. ASSUME NEW r \in Relays, Connect(r)
      PROVE  HandshakeInv'
  <2>1. opc' = "want_version" /\ rpc' = "greeting"
    BY <1>4 DEF Connect
  <2>2. Stage' = 0
    BY <2>1, StagesOfPlaces DEF Stage
  <2> QED
    BY <2>1, <2>2 DEF HandshakeInv, SentIsComing, AskedIsComing
<1>5. CASE \E t \in Threads : EndSend(t)
  BY <1>0, <1>5, HandshakeEndSend
<1>6. CASE Greet \/ ReadVersion \/ RelayReads \/ Verdict \/ SetSendCipher \/ RelaySeesEnd
  BY <1>0, <1>6, HandshakeGreet, HandshakeReads, HandshakeMoves
<1>7. CASE OperatorReads \/ OperatorTalks
  BY <1>7, HandshakeOperatorReads, HandshakeOperatorTalks
<1> QED
  BY <1>2, <1>3, <1>4, <1>5, <1>6, <1>7 DEF Next, MainSteps, Threads

\* During a handshake the two ends never wait for each other (relay.py:490-510,
\* 618-670).
THEOREM HandshakeNeverStuck == FairSpec => []NeverBothWait
<1>1. Init => HandshakeInv
  BY DEF Init, HandshakeInv, Doomed
<1>2. HostInv /\ WireInv /\ KeyShown /\ HandshakeInv /\ [Next]_vars => HandshakeInv'
  BY HandshakeStep
<1>3. WireInv /\ HandshakeInv => NeverBothWait
  <2> SUFFICES ASSUME WireInv, HandshakeInv,
                      opc \notin {"away", "connected", "rekeying", "left"}, toOperator = <<>>,
                      rpc \in {"want_version", "want_kexinit", "want_init", "want_newkeys",
                               "want_service", "want_auth", "loop"},
                      toRelay = <<>>
               PROVE  FALSE
    BY DEF NeverBothWait
  <2>1. \A msg : ~Has(toOperator, msg) /\ ~Has(toRelay, msg)
    BY DEF Has
  <2>2. /\ opc \in {"want_version", "want_kexinit", "want_reply", "want_newkeys", "want_accept",
                    "want_auth"}
        /\ ~Doomed
    BY DEF WireInv, WireTypes, OperatorPlaces, Doomed, None
  <2>3. rpc # "want_version"
    BY <2>2 DEF WireInv, ToRelayInv, Greeted
  <2>4. Stage \in {3, 4, 8, 9, 11, 13}
    BY <2>3, StagesOfPlaces DEF Stage
  <2> QED
    BY <2>1, <2>2, <2>4 DEF HandshakeInv, SentIsComing, AskedIsComing
<1> QED
  BY <1>1, <1>2, <1>3, Invariance, InitHolds, PTL DEF FairSpec, Spec

-----------------------------------------------------------------------------
(* What the two say to each other.  In a handshake no end says anything that *)
(* the other does not wait for: so the relay's loop begins when the operator *)
(* is let in, and answers nothing that was said before.                     *)

Handshaking == {"want_version", "want_kexinit", "want_reply", "want_newkeys", "want_accept", "want_auth"}

\* how far the relay can have come while the operator stands at a place
Reached == [want_version |-> 3, want_kexinit |-> 4, want_reply |-> 8, want_newkeys |-> 9,
            want_accept |-> 11, want_auth |-> 13]

\* a message that may be on its way to the relay: the operator has sent it, and
\* the relay has not come past the place that reads it
MayCome(place, stage, msg) ==
    \/ msg = "IGNORE"
    \/ msg = "VERSION" /\ stage <= 1
    \/ msg = "KEXINIT" /\ stage <= 3 /\ place # "want_version"
    \/ msg = "ECDH_INIT" /\ stage <= 4 /\ place \notin {"want_version", "want_kexinit"}
    \/ msg = "NEWKEYS" /\ stage <= 8 /\ place \in {"want_newkeys", "want_accept", "want_auth"}
    \/ msg = "SERVICE_REQUEST" /\ stage <= 9 /\ place \in {"want_accept", "want_auth"}
    \/ msg = "USERAUTH_REQUEST" /\ stage <= 11 /\ place = "want_auth"

\* in a handshake every message comes once, but for those that are ignored
ComeOnce(place, stage, q) ==
    /\ stage <= Reached[place]
    /\ \A i \in 1..Len(q) : MayCome(place, stage, q[i].msg)
    /\ \A i, j \in 1..Len(q) : q[i].msg = q[j].msg => i = j \/ q[i].msg = "IGNORE"

Verdicts == {"PK_OK", "FAILURE", "SUCCESS"}

\* an attempt to authenticate is on its way, or with the relay, or its verdict is
\* on its way back, and there is one of them
OneAttempt(stage, q, back) ==
    /\ \A i, j \in 1..Len(back) : back[i].msg \in Verdicts /\ back[j].msg \in Verdicts => i = j
    /\ \A i \in 1..Len(back) : back[i].msg \in Verdicts =>
          /\ ~Has(q, "USERAUTH_REQUEST")
          /\ IF back[i].msg = "SUCCESS" THEN stage = 13 ELSE stage <= 11
    /\ stage = 12 => /\ ~Has(q, "USERAUTH_REQUEST")
                     /\ \A i \in 1..Len(back) : back[i].msg \notin Verdicts

Requests == {"IGNORE", "REQUEST", "UNKNOWN", "KEXINIT"}

Conversation(place, stage, q, back) ==
    /\ place \in Handshaking => ComeOnce(place, stage, q)
    /\ place \in Handshaking \ {"want_auth"} =>
          \A i \in 1..Len(back) : back[i].msg \notin Verdicts
    /\ place = "want_auth" => OneAttempt(stage, q, back)
    /\ place \in {"connected", "rekeying"} =>
          stage = 13 /\ \A i \in 1..Len(q) : q[i].msg \in Requests

NothingUnknown == opc \in Handshaking =>
    /\ unknowns = <<>> /\ toSend \notin {"REPLY", "UNIMPLEMENTED"}
    /\ ~Has(toOperator, "UNIMPLEMENTED")

TalkInv ==
    /\ NothingUnknown
    /\ ~Doomed => Conversation(opc, Stage, toRelay, toOperator)

LEMMA ItemsAppend ==
    ASSUME NEW S, NEW q \in Seq(S), NEW x \in S
    PROVE  /\ Len(q) \in Nat /\ Len(Append(q, x)) = Len(q) + 1
           /\ \A i \in 1..Len(q) : Append(q, x)[i] = q[i]
           /\ Append(q, x)[Len(q) + 1] = x
           /\ \A i \in 1..Len(q) + 1 : i \in 1..Len(q) \/ i = Len(q) + 1
  OBVIOUS

LEMMA ItemsTail ==
    ASSUME NEW S, NEW q \in Seq(S), q # <<>>
    PROVE  /\ Len(q) \in Nat \ {0} /\ Len(Tail(q)) = Len(q) - 1
           /\ Head(q) = q[1] /\ 1 \in 1..Len(q)
           /\ \A i \in 1..Len(Tail(q)) : i + 1 \in 1..Len(q) /\ i + 1 # 1 /\ Tail(q)[i] = q[i + 1]
  OBVIOUS

\* The relay goes on and reads nothing.
LEMMA RelayMoves ==
    ASSUME NEW place \in OperatorPlaces, NEW stage \in 0..13, NEW next \in 0..13,
           \/ stage = next
           \/ stage \in {0, 2, 5, 6, 7, 10} /\ next = stage + 1
           \/ stage = 12 /\ next \in {11, 13}
    PROVE  /\ \A msg : MayCome(place, stage, msg) => MayCome(place, next, msg)
           /\ place \in Handshaking /\ stage <= Reached[place] => next <= Reached[place]
<1>1. place \in Handshaking /\ stage <= Reached[place] => next <= Reached[place]
  BY DEF Reached, Handshaking
<1> QED
  BY <1>1 DEF MayCome

\* The relay goes on, and what it writes, if it writes, is no verdict.
LEMMA ConversationMoves ==
    ASSUME NEW place \in OperatorPlaces, NEW stage \in 0..13, NEW next \in 0..13, NEW q,
           NEW back \in Seq(PacketSet), NEW after, NEW p \in PacketSet,
           Conversation(place, stage, q, back),
           stage = next \/ (stage \in {0, 2, 5, 6, 7, 10} /\ next = stage + 1),
           after = back \/ (after = Append(back, p) /\ p.msg \notin Verdicts)
    PROVE  Conversation(place, next, q, after)
<1>1. place \in Handshaking => ComeOnce(place, next, q)
  <2>1. place \in Handshaking => ComeOnce(place, stage, q)
    BY DEF Conversation
  <2> QED
    BY <2>1, RelayMoves DEF ComeOnce
<1>2. /\ \A i \in 1..Len(after) : after[i].msg \in Verdicts => i \in 1..Len(back) /\ after[i] = back[i]
  <2>1. CASE after = back
    BY <2>1
  <2>2. CASE after = Append(back, p) /\ p.msg \notin Verdicts
    BY <2>2, ItemsAppend
  <2> QED
    BY <2>1, <2>2
<1>3. place \in Handshaking \ {"want_auth"} => \A i \in 1..Len(after) : after[i].msg \notin Verdicts
  <2> SUFFICES ASSUME place \in Handshaking \ {"want_auth"}, NEW i \in 1..Len(after),
                      after[i].msg \in Verdicts
               PROVE  FALSE
    OBVIOUS
  <2> QED
    BY <1>2 DEF Conversation
<1>4. place = "want_auth" => OneAttempt(next, q, after)
  <2> SUFFICES ASSUME place = "want_auth" PROVE OneAttempt(next, q, after)
    OBVIOUS
  <2>1. OneAttempt(stage, q, back)
    BY DEF Conversation
  <2>2. ASSUME NEW i \in 1..Len(after), after[i].msg \in Verdicts
        PROVE  ~Has(q, "USERAUTH_REQUEST") /\ stage # 12
               /\ IF after[i].msg = "SUCCESS" THEN next = 13 ELSE next <= 11
    BY <1>2, <2>1, <2>2 DEF OneAttempt
  <2>3. \A i, j \in 1..Len(after) : after[i].msg \in Verdicts /\ after[j].msg \in Verdicts => i = j
    BY <1>2, <2>1 DEF OneAttempt
  <2>4. next = 12 => stage = 12
    OBVIOUS
  <2> QED
    BY <2>1, <2>2, <2>3, <2>4 DEF OneAttempt
<1>5. place \in {"connected", "rekeying"} =>
         next = 13 /\ \A i \in 1..Len(q) : q[i].msg \in Requests
  BY DEF Conversation
<1> QED
  BY <1>1, <1>3, <1>4, <1>5 DEF Conversation

\* The relay writes its verdict of an attempt.
LEMMA ConversationJudged ==
    ASSUME NEW place \in OperatorPlaces \ {"away", "left"}, NEW next \in {11, 13}, NEW q,
           NEW back \in Seq(PacketSet), NEW p \in PacketSet,
           Conversation(place, 12, q, back),
           p.msg \in Verdicts, p.msg = "SUCCESS" <=> next = 13
    PROVE  Conversation(place, next, q, Append(back, p))
<1> DEFINE after == Append(back, p)
<1>1. place = "want_auth"
  BY DEF Conversation, ComeOnce, Reached, Handshaking, OperatorPlaces
<1>2. ComeOnce(place, next, q)
  <2>1. ComeOnce(place, 12, q) /\ 12 \in 0..13 /\ next \in 0..13
    BY <1>1 DEF Conversation, Handshaking
  <2>2. /\ \A msg : MayCome(place, 12, msg) => MayCome(place, next, msg)
        /\ place \in Handshaking /\ 12 <= Reached[place] => next <= Reached[place]
    BY <2>1, RelayMoves
  <2> QED
    BY <1>1, <2>1, <2>2 DEF ComeOnce, Handshaking
<1>3. OneAttempt(12, q, back)
  BY <1>1 DEF Conversation
<1>4. \A i \in 1..Len(after) : after[i].msg \in Verdicts => i = Len(back) + 1 /\ after[i] = p
  BY <1>3, ItemsAppend DEF OneAttempt
<1> HIDE DEF after
<1>5. OneAttempt(next, q, after)
  <2>1. ~Has(q, "USERAUTH_REQUEST") /\ next # 12
    BY <1>3 DEF OneAttempt
  <2>2. \A i, j \in 1..Len(after) : after[i].msg \in Verdicts /\ after[j].msg \in Verdicts => i = j
    BY <1>4
  <2>3. \A i \in 1..Len(after) : after[i].msg \in Verdicts =>
          IF after[i].msg = "SUCCESS" THEN next = 13 ELSE next <= 11
    BY <1>4
  <2> QED
    BY <2>1, <2>2, <2>3 DEF OneAttempt
<1> QED
  BY <1>1, <1>2, <1>5 DEF Conversation, after

\* The relay reads what it waits for.
LEMMA ConversationRead ==
    ASSUME NEW place \in OperatorPlaces \ {"away", "left"}, NEW stage \in 0..13, NEW next \in 0..13,
           NEW q \in Seq(PacketSet), q # <<>>, NEW back,
           Conversation(place, stage, q, back),
           \/ stage = next /\ Head(q).msg = "IGNORE"
           \/ stage = 1 /\ next = 2 /\ Head(q).msg = "VERSION"
           \/ stage = 3 /\ next = 4 /\ Head(q).msg = "KEXINIT"
           \/ stage = 4 /\ next = 5 /\ Head(q).msg = "ECDH_INIT"
           \/ stage = 8 /\ next = 9 /\ Head(q).msg = "NEWKEYS"
           \/ stage = 9 /\ next = 10 /\ Head(q).msg = "SERVICE_REQUEST"
           \/ stage = 11 /\ next = 12 /\ Head(q).msg = "USERAUTH_REQUEST"
           \/ stage = 13 /\ next = 13
    PROVE  Conversation(place, next, Tail(q), back)
<1> DEFINE h == Head(q).msg
           t == Tail(q)
<1>1. /\ Len(q) \in Nat \ {0} /\ 1 \in 1..Len(q) /\ h = q[1].msg /\ Len(t) \in Nat
      /\ \A i \in 1..Len(t) : i + 1 \in 1..Len(q) /\ i + 1 # 1 /\ t[i] = q[i + 1]
  BY ItemsTail
<1> HIDE DEF h, t
<1>2. CASE place \in {"connected", "rekeying"}
  <2>1. next = 13
    BY <1>2 DEF Conversation, h
  <2>2. \A i \in 1..Len(t) : t[i].msg \in Requests
    BY <1>1, <1>2 DEF Conversation
  <2> QED
    BY <1>2, <2>1, <2>2 DEF Conversation, Handshaking, t
<1>3. CASE place \in Handshaking
  <2>1. ComeOnce(place, stage, q) /\ MayCome(place, stage, h) /\ stage <= Reached[place]
    BY <1>1, <1>3 DEF Conversation, ComeOnce
  <2>2. \/ stage = next
        \/ stage = 1 /\ next = 2 /\ h = "VERSION"
        \/ stage = 3 /\ next = 4 /\ h = "KEXINIT"
        \/ stage = 4 /\ next = 5 /\ h = "ECDH_INIT"
        \/ stage = 8 /\ next = 9 /\ h = "NEWKEYS"
        \/ stage = 9 /\ next = 10 /\ h = "SERVICE_REQUEST"
        \/ stage = 11 /\ next = 12 /\ h = "USERAUTH_REQUEST"
    BY DEF h
  <2>3. next <= Reached[place]
    BY <1>3, <2>1, <2>2 DEF MayCome, Reached, Handshaking
  <2>4. ASSUME NEW i \in 1..Len(t)
        PROVE  MayCome(place, next, t[i].msg) /\ (t[i].msg = h => h = "IGNORE")
    <3>1. t[i] = q[i + 1] /\ i + 1 \in 1..Len(q) /\ i + 1 # 1
      BY <1>1
    <3>2. MayCome(place, stage, t[i].msg) /\ (t[i].msg = h => h = "IGNORE")
      BY <1>1, <2>1, <3>1 DEF ComeOnce
    <3> QED
      BY <2>2, <3>2 DEF MayCome
  <2>5. \A i, j \in 1..Len(t) : t[i].msg = t[j].msg => i = j \/ t[i].msg = "IGNORE"
    <3> SUFFICES ASSUME NEW i \in 1..Len(t), NEW j \in 1..Len(t), t[i].msg = t[j].msg
                 PROVE  i = j \/ t[i].msg = "IGNORE"
      OBVIOUS
    <3>1. /\ t[i] = q[i + 1] /\ i + 1 \in 1..Len(q)
          /\ t[j] = q[j + 1] /\ j + 1 \in 1..Len(q)
      BY <1>1
    <3>2. i + 1 = j + 1 \/ t[i].msg = "IGNORE"
      BY <2>1, <3>1 DEF ComeOnce
    <3> QED
      BY <3>2
  <2>6. ComeOnce(place, next, t)
    BY <2>3, <2>4, <2>5 DEF ComeOnce
  <2>7. place = "want_auth" => OneAttempt(next, t, back)
    <3> SUFFICES ASSUME place = "want_auth" PROVE OneAttempt(next, t, back)
      OBVIOUS
    <3>1. OneAttempt(stage, q, back)
      BY DEF Conversation
    <3>2. Has(t, "USERAUTH_REQUEST") => Has(q, "USERAUTH_REQUEST")
      BY <1>1 DEF Has
    <3>3. CASE next = 12
      <4>1. CASE stage = 11 /\ h = "USERAUTH_REQUEST"
        <5>1. Has(q, "USERAUTH_REQUEST") /\ ~Has(t, "USERAUTH_REQUEST")
          BY <1>1, <2>4, <4>1 DEF Has
        <5> QED
          BY <3>1, <3>3, <5>1 DEF OneAttempt
      <4>2. CASE stage = 12
        BY <3>1, <3>2, <3>3, <4>2 DEF OneAttempt
      <4> QED
        BY <2>2, <3>3, <4>1, <4>2
    <3>4. CASE next # 12
      <4>1. stage <= 11 /\ stage # 13 => next <= 11 /\ next # 13
        BY <2>2, <3>4
      <4>2. stage = 13 => next = 13
        BY <2>2
      <4> QED
        BY <3>1, <3>2, <3>4, <4>1, <4>2 DEF OneAttempt
    <3> QED
      BY <3>3, <3>4
  <2>8. place # "want_auth" => \A i \in 1..Len(back) : back[i].msg \notin Verdicts
    BY <1>3 DEF Conversation
  <2> QED
    BY <1>3, <2>6, <2>7, <2>8 DEF Conversation, Handshaking, t
<1> QED
  BY <1>2, <1>3 DEF Handshaking, OperatorPlaces

\* The operator says something of its own accord.
LEMMA ConversationTalked ==
    ASSUME NEW place \in OperatorPlaces, NEW stage \in 0..13, NEW q \in Seq(PacketSet), NEW back,
           NEW p \in PacketSet, Conversation(place, stage, q, back),
           \/ p.msg = "IGNORE"
           \/ place = "connected" /\ p.msg \in Requests,
           NEW after, after = place \/ (place = "connected" /\ after = "rekeying")
    PROVE  Conversation(after, stage, Append(q, p), back)
<1> DEFINE s == Append(q, p)
<1>1. /\ Len(q) \in Nat /\ Len(s) = Len(q) + 1 /\ s[Len(q) + 1] = p
      /\ \A i \in 1..Len(q) : s[i] = q[i]
      /\ \A i \in 1..Len(s) : i \in 1..Len(q) \/ i = Len(q) + 1
  BY ItemsAppend
<1> HIDE DEF s
<1>2. CASE after \in {"connected", "rekeying"}
  <2>1. stage = 13 /\ place \in {"connected", "rekeying"}
    BY <1>2 DEF Conversation
  <2>2. \A i \in 1..Len(s) : s[i].msg \in Requests
    BY <1>1, <2>1 DEF Conversation, Requests
  <2> QED
    BY <1>2, <2>1, <2>2 DEF Conversation, Handshaking, s
<1>3. CASE after \in Handshaking
  <2>1. after = place /\ p.msg = "IGNORE"
    BY <1>3 DEF Handshaking
  <2>2. ComeOnce(place, stage, q)
    BY <1>3, <2>1 DEF Conversation
  <2>3. \A i \in 1..Len(s) : s[i].msg # "IGNORE" => i \in 1..Len(q) /\ s[i] = q[i]
    BY <1>1, <2>1
  <2>4. ComeOnce(place, stage, s)
    <3>1. \A i \in 1..Len(s) : MayCome(place, stage, s[i].msg)
      <4> SUFFICES ASSUME NEW i \in 1..Len(s) PROVE MayCome(place, stage, s[i].msg)
        OBVIOUS
      <4>1. CASE s[i].msg = "IGNORE"
        BY <4>1 DEF MayCome
      <4>2. CASE s[i].msg # "IGNORE"
        BY <2>2, <2>3, <4>2 DEF ComeOnce
      <4> QED
        BY <4>1, <4>2
    <3>2. \A i, j \in 1..Len(s) : s[i].msg = s[j].msg => i = j \/ s[i].msg = "IGNORE"
      BY <2>2, <2>3 DEF ComeOnce
    <3> QED
      BY <2>2, <3>1, <3>2 DEF ComeOnce
  <2>5. Has(s, "USERAUTH_REQUEST") => Has(q, "USERAUTH_REQUEST")
    BY <2>3 DEF Has
  <2>6. place = "want_auth" => OneAttempt(stage, s, back)
    BY <2>1, <2>5 DEF Conversation, OneAttempt
  <2> QED
    BY <1>3, <2>1, <2>4, <2>6 DEF Conversation, Handshaking, s
<1>4. CASE after \notin Handshaking \cup {"connected", "rekeying"}
  BY <1>4 DEF Conversation, Handshaking
<1> QED
  BY <1>2, <1>3, <1>4

\* The operator goes on with the handshake.
LEMMA ConversationAnswered ==
    ASSUME NEW place \in OperatorPlaces, NEW after, NEW stage \in 0..13,
           NEW q \in Seq(PacketSet), NEW p \in PacketSet,
           NEW back \in Seq(PacketSet), back # <<>>,
           Conversation(place, stage, q, back),
           \/ place = "want_version" /\ Head(back).msg = "VERSION" /\ after = "want_kexinit"
                /\ p.msg = "KEXINIT"
           \/ place = "want_kexinit" /\ Head(back).msg = "KEXINIT" /\ after = "want_reply"
                /\ p.msg = "ECDH_INIT"
           \/ place = "want_reply" /\ Head(back).msg = "ECDH_REPLY" /\ after = "want_newkeys"
                /\ p.msg = "NEWKEYS"
           \/ place = "want_newkeys" /\ Head(back).msg = "NEWKEYS" /\ after = "want_accept"
                /\ p.msg = "SERVICE_REQUEST"
           \/ place = "want_accept" /\ Head(back).msg = "SERVICE_ACCEPT" /\ after = "want_auth"
                /\ p.msg = "USERAUTH_REQUEST"
           \/ place = "want_auth" /\ Head(back).msg \in {"PK_OK", "FAILURE"} /\ after = "want_auth"
                /\ p.msg = "USERAUTH_REQUEST"
    PROVE  Conversation(after, stage, Append(q, p), Tail(back))
<1> DEFINE s == Append(q, p)
           t == Tail(back)
           h == Head(back).msg
           m == p.msg
<1>1. /\ Len(q) \in Nat /\ Len(s) = Len(q) + 1 /\ s[Len(q) + 1] = p
      /\ \A i \in 1..Len(q) : s[i] = q[i]
      /\ \A i \in 1..Len(s) : i \in 1..Len(q) \/ i = Len(q) + 1
  BY ItemsAppend
<1>2. /\ 1 \in 1..Len(back) /\ h = back[1].msg
      /\ \A i \in 1..Len(t) : i + 1 \in 1..Len(back) /\ i + 1 # 1 /\ t[i] = back[i + 1]
  BY ItemsTail
<1>3. \/ place = "want_version" /\ after = "want_kexinit" /\ m = "KEXINIT"
      \/ place = "want_kexinit" /\ after = "want_reply" /\ m = "ECDH_INIT"
      \/ place = "want_reply" /\ after = "want_newkeys" /\ m = "NEWKEYS"
      \/ place = "want_newkeys" /\ after = "want_accept" /\ m = "SERVICE_REQUEST"
      \/ place = "want_accept" /\ after = "want_auth" /\ m = "USERAUTH_REQUEST"
      \/ place = "want_auth" /\ h \in {"PK_OK", "FAILURE"} /\ after = "want_auth"
           /\ m = "USERAUTH_REQUEST"
  OBVIOUS
<1> HIDE DEF s, t, h, m
<1>4. place \in Handshaking /\ after \in Handshaking
  BY <1>3 DEF Handshaking
<1>5. ComeOnce(place, stage, q)
  BY <1>4 DEF Conversation
<1>6. place = "want_auth" => OneAttempt(stage, q, back)
  BY DEF Conversation
<1>7. place # "want_auth" => \A i \in 1..Len(back) : back[i].msg \notin Verdicts
  BY <1>4 DEF Conversation
<1>8. /\ place = "want_auth" => stage <= 11 /\ ~Has(q, "USERAUTH_REQUEST")
                                /\ \A i \in 1..Len(t) : t[i].msg \notin Verdicts
      /\ place # "want_auth" => \A i \in 1..Len(t) : t[i].msg \notin Verdicts
  <2>1. CASE place = "want_auth"
    <3>1. h \in Verdicts /\ h # "SUCCESS"
      BY <1>3, <2>1 DEF Verdicts
    <3>2. stage <= 11 /\ ~Has(q, "USERAUTH_REQUEST")
      BY <1>2, <1>6, <2>1, <3>1 DEF OneAttempt
    <3>3. ASSUME NEW i \in 1..Len(t), t[i].msg \in Verdicts PROVE FALSE
      <4>1. i + 1 \in 1..Len(back) /\ i + 1 # 1 /\ back[i + 1].msg \in Verdicts
        BY <1>2, <3>3
      <4> QED
        BY <1>2, <1>6, <2>1, <3>1, <4>1 DEF OneAttempt
    <3> QED
      BY <2>1, <3>2, <3>3
  <2>2. CASE place # "want_auth"
    BY <1>2, <1>7, <2>2
  <2> QED
    BY <2>1, <2>2
\* the message is the first of its kind, and the relay has not come past it
<1>9. /\ MayCome(after, stage, m)
      /\ \A i \in 1..Len(q) : q[i].msg # m
  <2>1. MayCome(after, stage, m)
    BY <1>3, <1>5, <1>8 DEF ComeOnce, MayCome, Reached
  <2>2. ASSUME NEW i \in 1..Len(q), q[i].msg = m PROVE FALSE
    <3>1. MayCome(place, stage, m)
      BY <1>5, <2>2 DEF ComeOnce
    <3>2. CASE place = "want_auth"
      BY <1>3, <1>8, <2>2, <3>2 DEF Has
    <3>3. CASE place # "want_auth"
      BY <1>3, <3>1, <3>3 DEF MayCome
    <3> QED
      BY <3>2, <3>3
  <2> QED
    BY <2>1, <2>2
<1>10. ComeOnce(after, stage, s)
  <2>1. stage <= Reached[after]
    BY <1>3, <1>5 DEF ComeOnce, Reached
  <2>2. \A msg : MayCome(place, stage, msg) => MayCome(after, stage, msg)
    BY <1>3 DEF MayCome
  <2>3. \A i \in 1..Len(s) : MayCome(after, stage, s[i].msg)
    BY <1>1, <1>5, <1>9, <2>2 DEF ComeOnce, m
  <2>4. \A i, j \in 1..Len(s) : s[i].msg = s[j].msg => i = j \/ s[i].msg = "IGNORE"
    <3> SUFFICES ASSUME NEW i \in 1..Len(s), NEW j \in 1..Len(s), s[i].msg = s[j].msg
                 PROVE  i = j \/ s[i].msg = "IGNORE"
      OBVIOUS
    <3>1. CASE i \in 1..Len(q) /\ j \in 1..Len(q)
      BY <1>1, <1>5, <3>1 DEF ComeOnce
    <3>2. CASE ~(i \in 1..Len(q) /\ j \in 1..Len(q))
      BY <1>1, <1>9, <3>2 DEF m
    <3> QED
      BY <3>1, <3>2
  <2> QED
    BY <2>1, <2>3, <2>4 DEF ComeOnce
<1>11. after = "want_auth" => OneAttempt(stage, s, t)
  <2>1. after = "want_auth" => stage # 12
    BY <1>3, <1>5, <1>8 DEF ComeOnce, Reached
  <2> QED
    BY <1>8, <2>1 DEF OneAttempt
<1> QED
  BY <1>4, <1>8, <1>10, <1>11 DEF Conversation, Handshaking, s, t

\* The operator is let in.
LEMMA ConversationAdmits ==
    ASSUME NEW stage \in 0..13, NEW q \in Seq(PacketSet), NEW back \in Seq(PacketSet), back # <<>>,
           Conversation("want_auth", stage, q, back), Head(back).msg = "SUCCESS"
    PROVE  /\ Conversation("connected", stage, q, Tail(back))
           /\ \A i \in 1..Len(q) : q[i].msg = "IGNORE"
<1>1. ComeOnce("want_auth", stage, q) /\ OneAttempt(stage, q, back)
  BY DEF Conversation, Handshaking
<1>2. 1 \in 1..Len(back) /\ back[1].msg = "SUCCESS"
  BY ItemsTail
<1>3. stage = 13
  BY <1>1, <1>2 DEF OneAttempt, Verdicts
<1>4. \A i \in 1..Len(q) : q[i].msg = "IGNORE"
  BY <1>1, <1>3 DEF ComeOnce, MayCome
<1> QED
  BY <1>3, <1>4 DEF Conversation, Handshaking, Requests

-----------------------------------------------------------------------------
LEMMA StillTalk ==
    ASSUME TalkInv, UNCHANGED <<rpc, toSend, toRelay, toOperator, unknowns>>, opc' \in {opc, "left"}
    PROVE  TalkInv'
<1>1. Stage' = Stage /\ Doomed' = Doomed
  BY DEF Stage, Doomed
<1>2. NothingUnknown'
  BY DEF TalkInv, NothingUnknown, Handshaking
<1>3. CASE opc' = opc
  BY <1>1, <1>2, <1>3 DEF TalkInv
<1>4. CASE opc' = "left"
  BY <1>2, <1>4 DEF TalkInv, Conversation, Handshaking
<1> QED
  BY <1>3, <1>4

\* A relay that is done with the connection makes no difference any more.
LEMMA TalkDoomed ==
    ASSUME TalkInv, Doomed', UNCHANGED <<opc, toOperator, unknowns>>,
           toSend' \notin {"REPLY", "UNIMPLEMENTED"}
    PROVE  TalkInv'
  BY DEF TalkInv, NothingUnknown

\* No packet is an UNIMPLEMENTED that was none, behind one that was written.
LEMMA NoneAppended ==
    ASSUME NEW q \in Seq(PacketSet), NEW p \in PacketSet, NEW msg, ~Has(q, msg), p.msg # msg
    PROVE  ~Has(Append(q, p), msg)
<1> SUFFICES ASSUME NEW i \in 1..Len(Append(q, p)), Append(q, p)[i].msg = msg PROVE FALSE
  BY DEF Has
<1> QED
  BY ItemsAppend DEF Has

LEMMA NoneInTail ==
    ASSUME NEW q \in Seq(PacketSet), q # <<>>, NEW msg, ~Has(q, msg)
    PROVE  ~Has(Tail(q), msg)
<1> SUFFICES ASSUME NEW i \in 1..Len(Tail(q)), Tail(q)[i].msg = msg PROVE FALSE
  BY DEF Has
<1> QED
  BY ItemsTail DEF Has

LEMMA TalkEndSend ==
    ASSUME WireInv, WireTypes', TalkInv, NEW t \in Threads, EndSend(t)
    PROVE  TalkInv'
<1> DEFINE p == sending[t]
<1>1. /\ p \in PacketSet /\ p.msg = IF t = "main" THEN toSend ELSE "DATA"
      /\ t = "main" => rpc = "sending" /\ toSend \in RelaySends
      /\ toOperator \in Seq(PacketSet)
  BY DEF EndSend, WireInv, OneSender, WireTypes, None
<1>0. Stage \in 0..13 /\ Stage' \in 0..13 /\ opc \in OperatorPlaces
  BY StageIs DEF WireInv, WireTypes
<1>2. /\ UNCHANGED <<opc, toRelay, unknowns>>
      /\ IF rpc = "closed" THEN UNCHANGED toOperator ELSE toOperator' = Append(toOperator, p)
      /\ IF t = "main" THEN AfterSend(toSend) ELSE UNCHANGED <<rpc, toSend>>
  BY DEF EndSend, operatorVars
<1> HIDE DEF p
<1>3. NothingUnknown'
  <2> SUFFICES ASSUME opc \in Handshaking
               PROVE  toSend' \notin {"REPLY", "UNIMPLEMENTED"} /\ ~Has(toOperator', "UNIMPLEMENTED")
    BY <1>2 DEF NothingUnknown, TalkInv
  <2>1. toSend \notin {"REPLY", "UNIMPLEMENTED"} /\ ~Has(toOperator, "UNIMPLEMENTED")
    BY DEF TalkInv, NothingUnknown
  <2>2. p.msg # "UNIMPLEMENTED"
    BY <1>1, <2>1
  <2>3. ~Has(toOperator', "UNIMPLEMENTED")
    BY <1>1, <1>2, <2>1, <2>2, NoneAppended
  <2>4. toSend' \notin {"REPLY", "UNIMPLEMENTED"}
    BY <1>1, <1>2, <2>1 DEF AfterSend, RelaySends, Goes, Sends, None
  <2> QED
    BY <2>3, <2>4
<1>4. ASSUME ~Doomed' PROVE Conversation(opc, Stage', toRelay, toOperator')
  <2>1. ~Doomed /\ (t = "main" => toSend # "DISCONNECT")
    BY <1>1, <1>2, <1>4 DEF Doomed, AfterSend, Goes
  <2>2. Conversation(opc, Stage, toRelay, toOperator) /\ toOperator' = Append(toOperator, p)
    BY <1>2, <2>1 DEF TalkInv, Doomed
  <2>3. CASE t # "main"
    <3>1. Stage' = Stage /\ p.msg \notin Verdicts
      BY <1>1, <1>2, <2>3 DEF Stage, Verdicts
    <3> QED
      BY <1>0, <1>1, <2>2, <3>1, ConversationMoves
  <2>4. CASE t = "main"
    <3>1. rpc = "sending" /\ toSend \in RelaySends /\ p.msg = toSend /\ AfterSend(toSend)
      BY <1>1, <1>2, <2>4
    <3>2. \/ Stage = 2 /\ Stage' = 3 /\ toSend = "KEXINIT"
          \/ Stage = 5 /\ Stage' = 6 /\ toSend = "ECDH_REPLY"
          \/ Stage = 6 /\ Stage' = 7 /\ toSend = "NEWKEYS"
          \/ Stage = 10 /\ Stage' = 11 /\ toSend = "SERVICE_ACCEPT"
          \/ Stage = 12 /\ Stage' = 13 /\ toSend = "SUCCESS"
          \/ Stage = 12 /\ Stage' = 11 /\ toSend \in {"PK_OK", "FAILURE"}
          \/ Stage = 13 /\ Stage' = 13 /\ toSend \in {"REPLY", "UNIMPLEMENTED"}
      <4> USE StagesOfPlaces, StagesOfSends DEF AfterSend, Goes, Sends, Stage
      <4>1. CASE toSend \in {"KEXINIT", "ECDH_REPLY", "NEWKEYS", "SERVICE_ACCEPT"}
        BY <3>1, <4>1
      <4>2. CASE toSend \in {"SUCCESS", "PK_OK", "FAILURE", "REPLY", "UNIMPLEMENTED"}
        BY <3>1, <4>2
      <4> QED
        BY <2>1, <2>4, <3>1, <4>1, <4>2 DEF RelaySends
    <3>3. CASE Stage = 12
      <4>1. Stage' \in {11, 13} /\ p.msg \in Verdicts /\ (p.msg = "SUCCESS" <=> Stage' = 13)
        BY <3>1, <3>2, <3>3 DEF Verdicts
      <4>2. CASE opc \in {"away", "left"}
        BY <4>2 DEF Conversation, Handshaking
      <4>3. CASE opc \notin {"away", "left"}
        BY <1>0, <1>1, <2>2, <3>3, <4>1, <4>3, ConversationJudged
      <4> QED
        BY <4>2, <4>3
    <3>4. CASE Stage # 12
      <4>1. /\ p.msg \notin Verdicts
            /\ Stage' = Stage \/ (Stage \in {0, 2, 5, 6, 7, 10} /\ Stage' = Stage + 1)
        BY <3>1, <3>2, <3>4 DEF Verdicts
      <4> QED
        BY <1>0, <1>1, <2>2, <4>1, ConversationMoves
    <3> QED
      BY <3>3, <3>4
  <2> QED
    BY <2>3, <2>4
<1> QED
  BY <1>2, <1>3, <1>4 DEF TalkInv

LEMMA ConversationStays ==
    ASSUME NEW place \in OperatorPlaces, NEW stage \in 0..13, NEW next \in 0..13, NEW q,
           NEW back \in Seq(PacketSet), Conversation(place, stage, q, back),
           stage = next \/ (stage \in {0, 2, 5, 6, 7, 10} /\ next = stage + 1)
    PROVE  Conversation(place, next, q, back)
<1>1. Packet("IGNORE", FALSE, 0, 0, Empty) \in PacketSet
  BY ZeroIsOne DEF Packet, PacketSet, Messages, Empty
<1> QED
  BY <1>1, ConversationMoves

\* The steps in which the connection's thread reads no packet but the version
\* line, and writes no packet but its own.
LEMMA TalkGreet ==
    ASSUME WireInv, TalkInv, Greet
    PROVE  TalkInv'
<1> DEFINE p == Packet("VERSION", FALSE, 0, 0, Empty)
<1>1. p \in PacketSet /\ p.msg = "VERSION"
  BY ZeroIsOne DEF Packet, PacketSet, Messages, Empty
<1>2. /\ rpc = "greeting" /\ rpc' = "want_version" /\ toSend' = None
      /\ toOperator' = Append(toOperator, p) /\ UNCHANGED <<opc, toRelay, unknowns>>
  BY DEF Greet, Goes, operatorVars
<1> HIDE DEF p
<1>3. toOperator \in Seq(PacketSet) /\ Stage = 0 /\ Stage' = 1 /\ ~Doomed /\ opc \in OperatorPlaces
  BY <1>2, StagesOfPlaces DEF WireInv, WireTypes, Stage, Doomed, None
<1>4. NothingUnknown'
  <2>1. ~Has(toOperator, "UNIMPLEMENTED") => ~Has(toOperator', "UNIMPLEMENTED")
    BY <1>1, <1>2, <1>3, NoneAppended
  <2> QED
    BY <1>2, <2>1 DEF TalkInv, NothingUnknown, None
<1>5. Conversation(opc, 1, toRelay, toOperator')
  <2>1. Conversation(opc, 0, toRelay, toOperator) /\ p.msg \notin Verdicts
    BY <1>1, <1>3 DEF TalkInv, Verdicts
  <2>2. 0 \in {0, 2, 5, 6, 7, 10} /\ 1 = 0 + 1 /\ 0 \in 0..13 /\ 1 \in 0..13
    OBVIOUS
  <2> QED
    BY <1>1, <1>2, <1>3, <2>1, <2>2, ConversationMoves
<1> QED
  BY <1>2, <1>3, <1>4, <1>5 DEF TalkInv

LEMMA TalkMoves ==
    ASSUME WireInv, WireTypes', TalkInv, ReadVersion \/ Verdict \/ SetSendCipher \/ RelaySeesEnd
    PROVE  TalkInv'
<1> USE StagesOfPlaces, StagesOfSends DEF Stage, Goes, Sends, operatorVars, wireVars
<1>0. /\ toOperator \in Seq(PacketSet) /\ toRelay \in Seq(PacketSet) /\ opc \in OperatorPlaces
  BY DEF WireInv, WireTypes
<1>1. UNCHANGED <<opc, toOperator, unknowns>> /\ toSend' \notin {"REPLY", "UNIMPLEMENTED"}
  BY DEF ReadVersion, Verdict, SetSendCipher, RelaySeesEnd, None
<1>2. NothingUnknown'
  BY <1>1 DEF TalkInv, NothingUnknown
<1>3. CASE ReadVersion
  <2>1. /\ rpc = "want_version" /\ rpc' = "sending" /\ toSend' = "KEXINIT"
        /\ toRelay # <<>> /\ toRelay' = Tail(toRelay)
    BY <1>3 DEF ReadVersion
  <2>2. Stage = 1 /\ Stage' = 2 /\ ~Doomed
    BY <2>1 DEF WireInv, WireTypes, Doomed, None
  <2>3. Head(toRelay).msg = "VERSION"
    <3>1. toRelay[1].msg = "VERSION"
      BY <2>1, <2>2 DEF WireInv, ToRelayInv, Greeted
    <3>2. Head(toRelay) = toRelay[1]
      BY <2>1 DEF WireInv, WireTypes
    <3> QED
      BY <3>1, <3>2
  <2> HIDE DEF Stage
  <2>4. Conversation(opc, 1, toRelay, toOperator) /\ 1 \in 0..13 /\ 2 \in 0..13
    BY <2>2 DEF TalkInv
  <2>5. CASE opc \in {"away", "left"}
    BY <1>1, <1>2, <2>5 DEF TalkInv, Conversation, Handshaking
  <2>6. CASE opc \notin {"away", "left"}
    BY <1>0, <1>1, <1>2, <2>1, <2>2, <2>3, <2>4, <2>6, ConversationRead DEF TalkInv
  <2> QED
    BY <2>5, <2>6
<1>4. CASE Verdict /\ toSend' = "DISCONNECT"
  BY <1>1, <1>2, <1>4 DEF TalkInv, Doomed
<1>4a. CASE Verdict /\ toSend' # "DISCONNECT"
  <2>1. /\ rpc = "approving" /\ rpc' = "sending" /\ toSend' \in {"PK_OK", "FAILURE", "SUCCESS"}
        /\ UNCHANGED toRelay
    BY <1>4a DEF Verdict
  <2>2. Stage = 12 /\ Stage' = 12 /\ ~Doomed
    BY <2>1 DEF WireInv, WireTypes, Doomed, None
  <2> HIDE DEF Stage
  <2> QED
    BY <1>1, <1>2, <2>1, <2>2 DEF TalkInv
<1>5. CASE SetSendCipher
  <2>1. rpc = "switching" /\ rpc' = "want_newkeys" /\ UNCHANGED toRelay
    BY <1>5 DEF SetSendCipher
  <2>2. Stage = 7 /\ Stage' = 8 /\ ~Doomed
    BY <2>1 DEF WireInv, WireTypes, Doomed, None
  <2>3. 7 \in {0, 2, 5, 6, 7, 10} /\ 8 = 7 + 1 /\ 7 \in 0..13 /\ 8 \in 0..13
    OBVIOUS
  <2> HIDE DEF Stage
  <2>4. Conversation(opc, 8, toRelay, toOperator)
    <3>1. Conversation(opc, 7, toRelay, toOperator)
      BY <2>2 DEF TalkInv
    <3> QED
      BY <1>0, <2>3, <3>1, ConversationStays
  <2> QED
    BY <1>1, <1>2, <2>1, <2>2, <2>4 DEF TalkInv
<1>6. CASE RelaySeesEnd
  BY <1>1, <1>2, <1>6 DEF RelaySeesEnd, TalkInv, Doomed
<1> QED
  BY <1>3, <1>4, <1>4a, <1>5, <1>6

LEMMA TalkReads ==
    ASSUME WireInv, WireTypes', TalkInv, RelayReads
    PROVE  TalkInv'
<1>0. /\ Stage \in 0..13 /\ Stage' \in 0..13 /\ opc \in OperatorPlaces
      /\ toRelay \in Seq(PacketSet)
  BY StageIs DEF WireInv, WireTypes
<1> DEFINE h == Head(toRelay)
<1>1. /\ toRelay # <<>> /\ toRelay' = Tail(toRelay)
      /\ UNCHANGED <<opc, toOperator, unknowns>> /\ ~Doomed
  BY ReadLeads
<1>2. \/ Doomed' /\ toSend' = "DISCONNECT"
      \/ /\ toSend' \notin {"REPLY", "UNIMPLEMENTED"}
         /\ \/ Stage' = Stage /\ h.msg = "IGNORE"
            \/ Stage = 3 /\ Stage' = 4 /\ h.msg = "KEXINIT"
            \/ Stage = 4 /\ Stage' = 5 /\ h.msg = "ECDH_INIT"
            \/ Stage = 8 /\ Stage' = 9 /\ h.msg = "NEWKEYS"
            \/ Stage = 9 /\ Stage' = 10 /\ h.msg = "SERVICE_REQUEST"
            \/ Stage = 11 /\ Stage' = 12 /\ h.msg = "USERAUTH_REQUEST"
      \/ Stage = 13 /\ Stage' = 13 /\ h.msg # "IGNORE" /\ ~Doomed'
  BY ReadLeads
<1>3. Conversation(opc, Stage, toRelay, toOperator)
  BY <1>1 DEF TalkInv
<1>4. h = toRelay[1] /\ 1 \in 1..Len(toRelay)
  BY <1>0, <1>1, ItemsTail
<1> HIDE DEF h
\* in a handshake, nothing comes that the loop would answer
<1>5. opc \in Handshaking /\ Stage = 13 => h.msg = "IGNORE"
  BY <1>3, <1>4 DEF Conversation, ComeOnce, MayCome
<1>6. CASE Doomed'
  BY <1>1, <1>2, <1>6, TalkDoomed
<1>7. CASE ~Doomed'
  <2>1. \/ Stage = Stage' /\ h.msg = "IGNORE"
        \/ Stage = 3 /\ Stage' = 4 /\ h.msg = "KEXINIT"
        \/ Stage = 4 /\ Stage' = 5 /\ h.msg = "ECDH_INIT"
        \/ Stage = 8 /\ Stage' = 9 /\ h.msg = "NEWKEYS"
        \/ Stage = 9 /\ Stage' = 10 /\ h.msg = "SERVICE_REQUEST"
        \/ Stage = 11 /\ Stage' = 12 /\ h.msg = "USERAUTH_REQUEST"
        \/ Stage = 13 /\ Stage' = 13
    BY <1>2, <1>7
  <2>2. Conversation(opc, Stage', Tail(toRelay), toOperator)
    <3>1. CASE opc \in {"away", "left"}
      BY <3>1 DEF Conversation, Handshaking
    <3>2. CASE opc \notin {"away", "left"}
      BY <1>0, <1>1, <1>3, <2>1, <3>2, ConversationRead DEF h
    <3> QED
      BY <3>1, <3>2
  <2>3. opc \in Handshaking => toSend' \notin {"REPLY", "UNIMPLEMENTED"}
    BY <1>2, <1>5, <1>7
  <2>4. NothingUnknown'
    BY <1>1, <2>3 DEF TalkInv, NothingUnknown
  <2> QED
    BY <1>1, <2>2, <2>4 DEF TalkInv
<1> QED
  BY <1>6, <1>7

-----------------------------------------------------------------------------
LEMMA TalkOperatorTalks ==
    ASSUME WireInv, TalkInv, OperatorTalks
    PROVE  TalkInv'
<1>1. PICK m \in {"IGNORE", "REQUEST", "UNKNOWN", "KEXINIT"} :
         /\ OperatorSends(<<m>>) /\ opc' = IF m = "KEXINIT" THEN "rekeying" ELSE opc
         /\ opc = "connected" \/ (m = "IGNORE" /\ opc \in {"want_kexinit", "want_reply", "want_accept"})
         /\ unknowns' = IF m \in {"UNKNOWN", "KEXINIT"} THEN Append(unknowns, osend) ELSE unknowns
  BY DEF OperatorTalks
<1>2. /\ UNCHANGED <<rpc, toSend, toOperator>> /\ toRelay \in Seq(PacketSet)
      /\ opc \in OperatorPlaces
  BY DEF OperatorTalks, relayVars, WireInv, WireTypes
<1>3. PICK p \in PacketSet : p.msg = m /\ toRelay' = Append(toRelay, p)
  BY <1>1, OperatorAppends DEF Messages
<1>4. Stage' = Stage /\ Doomed' = Doomed /\ Stage \in 0..13
  BY <1>2, StageIs DEF Stage, Doomed, WireInv
<1>5. opc' = opc \/ (opc = "connected" /\ opc' = "rekeying")
  BY <1>1
<1>6. \/ p.msg = "IGNORE"
      \/ opc = "connected" /\ p.msg \in Requests
  BY <1>1, <1>3 DEF Requests
<1>7. ~Doomed => Conversation(opc', Stage, toRelay', toOperator)
  BY <1>2, <1>3, <1>4, <1>5, <1>6, ConversationTalked DEF TalkInv
<1>8. NothingUnknown'
  <2>1. opc' \in Handshaking => opc' = opc /\ unknowns' = unknowns
    BY <1>1 DEF Handshaking
  <2> QED
    BY <1>2, <2>1 DEF TalkInv, NothingUnknown
<1> QED
  BY <1>2, <1>4, <1>7, <1>8 DEF TalkInv

\* Whatever the operator answers, it stands where it stood or goes on.
LEMMA AnswerLeads ==
    ASSUME NEW place \in OperatorPlaces \ {"away", "left"}, NEW msg, NEW answer,
           answer = OperatorAnswer(place, msg) \/ answer = <<"left", <<>>>>
    PROVE  \/ answer[1] = "left" /\ answer[2] = <<>>
           \/ place = "want_auth" /\ msg = "SUCCESS" /\ answer[1] = "connected" /\ answer[2] = <<>>
           \/ /\ place \in {"connected", "rekeying"} /\ answer[1] = place /\ answer[2] = <<>>
              /\ msg \in {"DATA", "REPLY", "UNIMPLEMENTED"}
           \/ answer[1] \in Handshaking
<1>1. CASE answer = <<"left", <<>>>>
  BY <1>1
<1>2. CASE answer = OperatorAnswer(place, msg)
  BY <1>2 DEF OperatorAnswer, OperatorPlaces, Handshaking
<1> QED
  BY <1>1, <1>2

\* Nothing is written on a connection by who says nothing.
LEMMA OperatorSilent ==
    ASSUME WireInv, OperatorSends(<<>>)
    PROVE  toRelay' = toRelay
<1>1. [i \in 1..Len(<<>>) |-> Packet(<<>>[i], okeyed, (osend + i - 1) % Modulus, 0, Empty)] = <<>>
  OBVIOUS
<1>2. toRelay' = toRelay \o <<>> /\ toRelay \in Seq(PacketSet)
  BY <1>1 DEF OperatorSends, WireInv, WireTypes
<1> QED
  BY <1>2

LEMMA TalkOperatorReads ==
    ASSUME WireInv, TalkInv, OperatorReads
    PROVE  TalkInv'
<1> DEFINE msg == Head(toOperator).msg
<1>1. /\ opc \in OperatorPlaces \ {"away", "left"}
      /\ toOperator # <<>> /\ toOperator' = Tail(toOperator) /\ UNCHANGED relayVars
      /\ toOperator \in Seq(PacketSet) /\ toRelay \in Seq(PacketSet)
      /\ unknowns' = IF msg = "UNIMPLEMENTED" /\ unknowns # <<>> THEN Tail(unknowns) ELSE unknowns
  BY DEF OperatorReads, WireInv, WireTypes
<1>2. PICK answer : /\ opc' = answer[1] /\ OperatorSends(answer[2])
                    /\ answer = OperatorAnswer(opc, msg) \/ answer = <<"left", <<>>>>
  BY DEF OperatorReads
<1> HIDE DEF msg
<1>4. Stage' = Stage /\ Doomed' = Doomed /\ Stage \in 0..13 /\ toSend' = toSend
  BY <1>1, StageIs DEF relayVars, Stage, Doomed, WireInv
<1>3. \/ opc' = "left" /\ answer[2] = <<>>
      \/ opc = "want_auth" /\ msg = "SUCCESS" /\ opc' = "connected" /\ answer[2] = <<>>
      \/ opc \in {"connected", "rekeying"} /\ opc' = opc /\ answer[2] = <<>>
      \/ opc' \in Handshaking
  BY <1>1, <1>2, AnswerLeads
<1>5. CASE opc' = "left"
  BY <1>5 DEF TalkInv, NothingUnknown, Conversation, Handshaking
<1>6. CASE opc = "want_auth" /\ msg = "SUCCESS" /\ opc' = "connected" /\ answer[2] = <<>>
  <2>1. toRelay' = toRelay
    BY <1>2, <1>6, OperatorSilent
  <2>2. NothingUnknown'
    BY <1>6 DEF NothingUnknown, Handshaking
  <2>3. ~Doomed => Conversation("connected", Stage, toRelay, Tail(toOperator))
    BY <1>1, <1>4, <1>6, ConversationAdmits DEF TalkInv, msg
  <2> QED
    BY <1>1, <1>4, <1>6, <2>1, <2>2, <2>3 DEF TalkInv
<1>7. CASE opc \in {"connected", "rekeying"} /\ opc' = opc /\ answer[2] = <<>>
  <2>1. toRelay' = toRelay
    BY <1>2, <1>7, OperatorSilent
  <2>2. NothingUnknown' /\ opc \notin Handshaking
    BY <1>7 DEF NothingUnknown, Handshaking
  <2>3. ~Doomed => Conversation(opc, Stage, toRelay, toOperator')
    BY <1>7, <2>2 DEF TalkInv, Conversation
  <2> QED
    BY <1>4, <1>7, <2>1, <2>2, <2>3 DEF TalkInv
<1>8. CASE opc' \in Handshaking
  <2>0. opc' \notin {"left", "connected", "rekeying"}
    BY <1>8 DEF Handshaking
  <2>1. \/ opc = "want_version" /\ msg = "VERSION" /\ answer = <<"want_kexinit", <<"KEXINIT">>>>
        \/ opc = "want_kexinit" /\ msg = "KEXINIT" /\ answer = <<"want_reply", <<"ECDH_INIT">>>>
        \/ opc = "want_reply" /\ msg = "ECDH_REPLY" /\ answer = <<"want_newkeys", <<"NEWKEYS">>>>
        \/ opc = "want_newkeys" /\ msg = "NEWKEYS"
             /\ answer = <<"want_accept", <<"SERVICE_REQUEST">>>>
        \/ opc = "want_accept" /\ msg = "SERVICE_ACCEPT"
             /\ answer = <<"want_auth", <<"USERAUTH_REQUEST">>>>
        \/ opc = "want_auth" /\ msg \in {"PK_OK", "FAILURE"}
             /\ answer = <<"want_auth", <<"USERAUTH_REQUEST">>>>
    BY <1>1, <1>2, <2>0, AnswerInHandshake
  <2>2. PICK m \in Messages : answer[2] = <<m>> /\
          \/ opc = "want_version" /\ msg = "VERSION" /\ opc' = "want_kexinit" /\ m = "KEXINIT"
          \/ opc = "want_kexinit" /\ msg = "KEXINIT" /\ opc' = "want_reply" /\ m = "ECDH_INIT"
          \/ opc = "want_reply" /\ msg = "ECDH_REPLY" /\ opc' = "want_newkeys" /\ m = "NEWKEYS"
          \/ opc = "want_newkeys" /\ msg = "NEWKEYS" /\ opc' = "want_accept" /\ m = "SERVICE_REQUEST"
          \/ opc = "want_accept" /\ msg = "SERVICE_ACCEPT" /\ opc' = "want_auth"
               /\ m = "USERAUTH_REQUEST"
          \/ opc = "want_auth" /\ msg \in {"PK_OK", "FAILURE"} /\ opc' = "want_auth"
               /\ m = "USERAUTH_REQUEST"
    BY <1>2, <2>1 DEF Messages
  <2>3. PICK p \in PacketSet : p.msg = m /\ toRelay' = Append(toRelay, p)
    BY <1>2, <2>2, OperatorAppends
  <2>4. ~Doomed => Conversation(opc', Stage, Append(toRelay, p), Tail(toOperator))
    <3> SUFFICES ASSUME ~Doomed PROVE Conversation(opc', Stage, Append(toRelay, p), Tail(toOperator))
      OBVIOUS
    <3>1. Conversation(opc, Stage, toRelay, toOperator) /\ opc \in OperatorPlaces
      BY <1>1 DEF TalkInv
    <3> QED
      BY <1>1, <1>4, <2>2, <2>3, <3>1, ConversationAnswered DEF msg
  <2>5. NothingUnknown'
    <3>1. opc \in Handshaking /\ msg # "UNIMPLEMENTED"
      BY <2>2 DEF Handshaking
    <3>2. ~Has(toOperator, "UNIMPLEMENTED") => ~Has(toOperator', "UNIMPLEMENTED")
      BY <1>1, NoneInTail
    <3> QED
      BY <1>1, <1>4, <3>1, <3>2 DEF TalkInv, NothingUnknown
  <2> QED
    BY <1>1, <1>4, <2>3, <2>4, <2>5 DEF TalkInv
<1> QED
  BY <1>3, <1>5, <1>6, <1>7, <1>8

LEMMA TalkStep ==
    ASSUME WireInv, HostInv, KeyShown, TalkInv, [Next]_vars
    PROVE  TalkInv'
<1>0. WireTypes'
  BY WireStep DEF WireInv
<1>1. CASE HostKeySteps \/ OperatorLeaves \/ UNCHANGED vars \/ \E t \in Threads : BeginSend(t)
  BY <1>1, StillTalk DEF HostKeySteps, OperatorLeaves, vars, operatorVars, relayVars, wireVars,
     BeginSend, Encrypted
<1>2. ASSUME NEW r \in Relays, CrashRelay(r)
      PROVE  TalkInv'
  <2>1. UNCHANGED <<opc, toOperator, toRelay, unknowns>>
    BY <1>2 DEF CrashRelay, operatorVars, wireVars
  <2>2. CASE rpc' = "closed" /\ toSend' = None
    BY <2>1, <2>2, TalkDoomed DEF Doomed, None
  <2>3. CASE UNCHANGED <<rpc, toSend>>
    BY <2>1, <2>3, StillTalk
  <2> QED
    BY <1>2, <2>2, <2>3 DEF CrashRelay, Goes
<1>3. ASSUME NEW r \in Relays, Connect(r)
      PROVE  TalkInv'
  <2>1. /\ opc' = "want_version" /\ rpc' = "greeting" /\ toSend' = None /\ unknowns' = <<>>
        /\ toOperator' = <<>> /\ toRelay' = <<Packet("VERSION", FALSE, 0, 0, Empty)>>
    BY <1>3 DEF Connect
  <2>2. Stage' = 0
    BY <2>1, StagesOfPlaces DEF Stage
  <2>3. NothingUnknown'
    BY <2>1 DEF NothingUnknown, Has, None
  <2>4. Len(toRelay') = 1 /\ toRelay'[1].msg = "VERSION" /\ Len(toOperator') = 0
    BY <2>1 DEF Packet
  <2>5. ComeOnce("want_version", 0, toRelay')
    BY <2>4 DEF ComeOnce, MayCome, Reached
  <2> QED
    BY <2>1, <2>2, <2>3, <2>4, <2>5 DEF TalkInv, Conversation, Handshaking
<1>4. CASE \E t \in Threads : EndSend(t)
  BY <1>0, <1>4, TalkEndSend
<1>5. CASE Greet \/ ReadVersion \/ RelayReads \/ Verdict \/ SetSendCipher \/ RelaySeesEnd
  BY <1>0, <1>5, TalkGreet, TalkReads, TalkMoves
<1>6. CASE OperatorReads \/ OperatorTalks
  BY <1>6, TalkOperatorReads, TalkOperatorTalks
<1> QED
  BY <1>1, <1>2, <1>3, <1>4, <1>5, <1>6 DEF Next, MainSteps, Threads

-----------------------------------------------------------------------------
(* Runs.  Items that are one behind the other in a queue take a stream from  *)
(* one place to another.                                                    *)

\* The items of q take a stream from place a to place b: item i takes it from
\* c[i - 1] to c[i].  R says what an item covers.
Numbers(c, q, R, a, b) ==
    /\ c \in [0..Len(q) -> Nat] /\ c[0] = a /\ c[Len(q)] = b
    /\ \A i \in 1..Len(q) : <<q[i], c[i - 1], c[i]>> \in R
    /\ \A i, j \in 0..Len(q) : i <= j => c[i] <= c[j]

Runs(q, R, a, b) == \E c : Numbers(c, q, R, a, b)

LEMMA RunsEmpty ==
    ASSUME NEW R, NEW a \in Nat, NEW b
    PROVE  Runs(<<>>, R, a, b) <=> a = b
<1>1. ASSUME Runs(<<>>, R, a, b) PROVE a = b
  BY <1>1 DEF Runs, Numbers
<1>2. ASSUME a = b PROVE Numbers([i \in 0..0 |-> a], <<>>, R, a, b)
  BY <1>2 DEF Numbers
<1> QED
  BY <1>1, <1>2 DEF Runs

LEMMA RunsGrow ==
    ASSUME NEW S, NEW q \in Seq(S), NEW R, NEW a, NEW b, Runs(q, R, a, b)
    PROVE  a \in Nat /\ b \in Nat /\ a <= b
<1>1. PICK c : Numbers(c, q, R, a, b)
  BY DEF Runs
<1>2. Len(q) \in Nat /\ 0 \in 0..Len(q) /\ Len(q) \in 0..Len(q)
  OBVIOUS
<1> QED
  BY <1>1, <1>2 DEF Numbers

LEMMA RunsAppend ==
    ASSUME NEW S, NEW q \in Seq(S), NEW R, NEW a, NEW b, Runs(q, R, a, b),
           NEW x \in S, NEW n \in Nat, <<x, b, n>> \in R, b <= n
    PROVE  Runs(Append(q, x), R, a, n)
<1>1. PICK c : Numbers(c, q, R, a, b)
  BY DEF Runs
<1> DEFINE l == Len(q)
           r == Append(q, x)
           d == [i \in 0..l + 1 |-> IF i <= l THEN c[i] ELSE n]
<1>2. /\ l \in Nat /\ Len(r) = l + 1 /\ r[l + 1] = x
      /\ \A i \in 1..l : r[i] = q[i]
  OBVIOUS
<1>3. /\ c \in [0..l -> Nat] /\ c[0] = a /\ c[l] = b
      /\ \A i \in 1..l : <<q[i], c[i - 1], c[i]>> \in R
      /\ \A i, j \in 0..l : i <= j => c[i] <= c[j]
  BY <1>1 DEF Numbers
<1> HIDE DEF l, r
<1>4. /\ \A i \in 0..l : i \in 0..l + 1 /\ d[i] = c[i]
      /\ d[l + 1] = n
  BY <1>2
<1>5. d \in [0..l + 1 -> Nat]
  BY <1>2, <1>3
<1> HIDE DEF d
<1>6. ASSUME NEW i \in 1..l + 1
      PROVE  <<r[i], d[i - 1], d[i]>> \in R
  <2>1. CASE i = l + 1
    <3>1. i - 1 = l /\ l \in 0..l
      BY <1>2, <2>1
    <3> QED
      BY <1>2, <1>3, <1>4, <2>1, <3>1
  <2>2. CASE i # l + 1
    <3>1. i \in 1..l /\ i - 1 \in 0..l /\ i \in 0..l
      BY <1>2, <2>2
    <3> QED
      BY <1>2, <1>3, <1>4, <3>1
  <2> QED
    BY <2>1, <2>2
<1>7. ASSUME NEW i \in 0..l + 1, NEW j \in 0..l + 1, i <= j
      PROVE  d[i] <= d[j]
  <2>1. CASE j # l + 1
    <3>1. i \in 0..l /\ j \in 0..l
      BY <1>2, <1>7, <2>1
    <3> QED
      BY <1>3, <1>4, <1>7, <3>1
  <2>2. CASE j = l + 1 /\ i # l + 1
    <3>1. i \in 0..l /\ l \in 0..l /\ i <= l
      BY <1>2, <2>2
    <3>2. c[i] <= b /\ d[i] = c[i] /\ c[i] \in Nat /\ b \in Nat
      BY <1>3, <1>4, <3>1
    <3> QED
      BY <1>4, <2>2, <3>2
  <2>3. CASE j = l + 1 /\ i = l + 1
    BY <1>4, <2>3
  <2> QED
    BY <2>1, <2>2, <2>3
<1>8. d[0] = a
  BY <1>2, <1>3, <1>4
<1>9. Numbers(d, r, R, a, n)
  BY <1>2, <1>4, <1>5, <1>6, <1>7, <1>8 DEF Numbers
<1> QED
  BY <1>9 DEF Runs, r

LEMMA RunsTail ==
    ASSUME NEW S, NEW q \in Seq(S), q # <<>>, NEW R, NEW a, NEW b, Runs(q, R, a, b)
    PROVE  \E n \in Nat : <<Head(q), a, n>> \in R /\ a <= n /\ Runs(Tail(q), R, n, b)
<1>1. PICK c : Numbers(c, q, R, a, b)
  BY DEF Runs
<1> DEFINE l == Len(q)
           t == Tail(q)
           d == [i \in 0..l - 1 |-> c[i + 1]]
<1>2. /\ l \in Nat \ {0} /\ Head(q) = q[1] /\ Len(t) = l - 1
      /\ \A i \in 1..l - 1 : t[i] = q[i + 1]
  OBVIOUS
<1>3. /\ c \in [0..l -> Nat] /\ c[0] = a /\ c[l] = b
      /\ \A i \in 1..l : <<q[i], c[i - 1], c[i]>> \in R
      /\ \A i, j \in 0..l : i <= j => c[i] <= c[j]
  BY <1>1 DEF Numbers
<1> HIDE DEF l, t
<1>4. /\ \A i \in 0..l - 1 : i + 1 \in 0..l /\ i + 1 \in 1..l
      /\ \A i \in 1..l - 1 : i - 1 \in 0..l - 1 /\ i \in 0..l - 1 /\ i - 1 + 1 = i
                              /\ i + 1 - 1 = i
      /\ l - 1 + 1 = l /\ l - 1 \in 0..l - 1 /\ 0 \in 0..l - 1 /\ 1 \in 1..l /\ 1 \in 0..l
      /\ 0 \in 0..l /\ 1 - 1 = 0 /\ 0 + 1 = 1
  BY <1>2
<1>5. d \in [0..l - 1 -> Nat] /\ d[l - 1] = b /\ d[0] = c[1]
      /\ \A i \in 0..l - 1 : d[i] = c[i + 1]
  BY <1>3, <1>4
<1> HIDE DEF d
<1>6. ASSUME NEW i \in 1..l - 1
      PROVE  <<t[i], d[i - 1], d[i]>> \in R
  <2>1. d[i - 1] = c[i] /\ d[i] = c[i + 1] /\ t[i] = q[i + 1]
    BY <1>2, <1>4, <1>5
  <2>2. <<q[i + 1], c[i], c[i + 1]>> \in R
    <3>1. i + 1 \in 1..l /\ i + 1 - 1 = i
      BY <1>4
    <3>2. <<q[i + 1], c[i + 1 - 1], c[i + 1]>> \in R
      BY <1>3, <3>1
    <3> QED
      BY <3>1, <3>2
  <2> QED
    BY <2>1, <2>2
<1>7. ASSUME NEW i \in 0..l - 1, NEW j \in 0..l - 1, i <= j
      PROVE  d[i] <= d[j]
  <2>1. i + 1 \in 0..l /\ j + 1 \in 0..l /\ i + 1 <= j + 1
    BY <1>4, <1>7
  <2> QED
    BY <1>3, <1>5, <2>1
<1>8. Numbers(d, t, R, c[1], b)
  BY <1>2, <1>5, <1>6, <1>7 DEF Numbers
<1>9. <<q[1], a, c[1]>> \in R /\ a <= c[1] /\ c[1] \in Nat
  <2>1. <<q[1], c[1 - 1], c[1]>> \in R /\ 0 <= 1
    BY <1>3, <1>4
  <2> QED
    BY <1>3, <1>4, <2>1
<1> QED
  BY <1>2, <1>8, <1>9 DEF Runs, t

LEMMA RunsOne ==
    ASSUME NEW R, NEW x, NEW a \in Nat, NEW b
    PROVE  Runs(<<x>>, R, a, b) <=> b \in Nat /\ <<x, a, b>> \in R /\ a <= b
<1>1. <<x>> \in Seq({x}) /\ <<>> \in Seq({x}) /\ <<x>> = Append(<<>>, x)
      /\ <<x>> # <<>> /\ Head(<<x>>) = x /\ Tail(<<x>>) = <<>> /\ x \in {x}
  OBVIOUS
<1>2. ASSUME Runs(<<x>>, R, a, b)
      PROVE  b \in Nat /\ <<x, a, b>> \in R /\ a <= b
  <2>1. PICK n \in Nat : <<x, a, n>> \in R /\ a <= n /\ Runs(<<>>, R, n, b)
    BY <1>1, <1>2, RunsTail
  <2> QED
    BY <2>1, RunsEmpty
<1>3. ASSUME b \in Nat, <<x, a, b>> \in R, a <= b
      PROVE  Runs(<<x>>, R, a, b)
  <2>1. Runs(<<>>, R, a, a)
    BY RunsEmpty
  <2> QED
    BY <1>1, <1>3, <2>1, RunsAppend
<1> QED
  BY <1>2, <1>3

PutIn(q, k, x) == SubSeq(q, 1, k) \o <<x>> \o SubSeq(q, k + 1, Len(q))

\* What is put into a sequence lies between its items.
LEMMA InPlace ==
    ASSUME NEW S, NEW q \in Seq(S), NEW x \in S, NEW k \in 0..Len(q)
    PROVE  /\ PutIn(q, k, x) \in Seq(S) /\ Len(PutIn(q, k, x)) = Len(q) + 1
           /\ \A i \in 1..Len(q) + 1 :
                 PutIn(q, k, x)[i] = IF i <= k THEN q[i] ELSE IF i = k + 1 THEN x ELSE q[i - 1]
<1> DEFINE l == Len(q)
           u == SubSeq(q, 1, k)
           v == SubSeq(q, k + 1, l)
           t == u \o <<x>> \o v
<1>1. l \in Nat /\ k \in Nat /\ k <= l
  OBVIOUS
<1>2. /\ u \in Seq(S) /\ Len(u) = k /\ \A i \in 1..k : u[i] = q[i]
      /\ v \in Seq(S) /\ Len(v) = l - k /\ \A i \in 1..l - k : v[i] = q[k + i]
  <2>1. \A i \in 1..l : q[i] \in S
    OBVIOUS
  <2>2. /\ u \in Seq(S) /\ Len(u) = IF 1 <= k THEN k - 1 + 1 ELSE 0
        /\ \A i \in 1..k - 1 + 1 : u[i] = q[1 + i - 1]
    <3>1. \A i \in 1..k : q[i] \in S
      BY <1>1, <2>1
    <3> QED
      BY <1>1, <3>1, SubSeqProperties
  <2>3. /\ v \in Seq(S) /\ Len(v) = IF k + 1 <= l THEN l - (k + 1) + 1 ELSE 0
        /\ \A i \in 1..l - (k + 1) + 1 : v[i] = q[k + 1 + i - 1]
    <3>1. \A i \in k + 1..l : q[i] \in S
      BY <1>1, <2>1
    <3> QED
      BY <1>1, <3>1, SubSeqProperties
  <2> HIDE DEF u, v, l
  <2>4. Len(u) = k /\ Len(v) = l - k
    BY <1>1, <2>2, <2>3
  <2>5. \A i \in 1..k : i \in 1..k - 1 + 1 /\ 1 + i - 1 = i
    BY <1>1
  <2>6. \A i \in 1..l - k : i \in 1..l - (k + 1) + 1 /\ k + 1 + i - 1 = k + i
    BY <1>1
  <2> QED
    BY <2>2, <2>3, <2>4, <2>5, <2>6
<1>3. /\ t \in Seq(S) /\ Len(t) = l + 1
      /\ \A i \in 1..l + 1 : t[i] = IF i <= k THEN q[i] ELSE IF i = k + 1 THEN x ELSE q[i - 1]
  <2> HIDE DEF u, v, l
  <2> DEFINE w == u \o <<x>>
  <2>1. /\ w \in Seq(S) /\ Len(w) = k + 1
        /\ \A i \in 1..k + 1 : w[i] = IF i <= k THEN q[i] ELSE x
    <3>1. <<x>> \in Seq(S) /\ Len(<<x>>) = 1 /\ <<x>>[1] = x
      OBVIOUS
    <3>2. /\ w \in Seq(S) /\ Len(w) = k + 1
          /\ \A i \in 1..k + 1 : w[i] = IF i <= k THEN u[i] ELSE <<x>>[i - k]
      BY <1>2, <3>1, ConcatProperties
    <3>3. \A i \in 1..k + 1 : IF i <= k THEN i \in 1..k ELSE i - k = 1
      BY <1>1
    <3> QED
      BY <1>2, <3>1, <3>2, <3>3
  <2> HIDE DEF w
  <2>2. /\ w \o v \in Seq(S) /\ Len(w \o v) = k + 1 + (l - k)
        /\ \A i \in 1..k + 1 + (l - k) :
              (w \o v)[i] = IF i <= k + 1 THEN w[i] ELSE v[i - (k + 1)]
    <3>1. /\ w \o v \in Seq(S) /\ Len(w \o v) = Len(w) + Len(v)
          /\ \A i \in 1..Len(w) + Len(v) :
                (w \o v)[i] = IF i <= Len(w) THEN w[i] ELSE v[i - Len(w)]
      <4>1. w \in Seq(S) /\ v \in Seq(S)
        BY <1>2, <2>1
      <4> HIDE DEF t
      <4> QED
        BY <4>1, ConcatProperties
    <3> HIDE DEF t
    <3>2. Len(w) = k + 1 /\ Len(v) = l - k
      BY <1>2, <2>1
    <3> QED
      BY <3>1, <3>2
  <2>3. t = w \o v
    BY DEF w
  <2> HIDE DEF t
  <2>4. k + 1 + (l - k) = l + 1
    BY <1>1
  <2>5. \A i \in 1..l + 1 :
            IF i <= k + 1 THEN i \in 1..k + 1 /\ (~(i <= k) => i = k + 1)
            ELSE i - (k + 1) \in 1..l - k /\ k + (i - (k + 1)) = i - 1 /\ ~(i <= k) /\ i # k + 1
    BY <1>1
  <2>6. ASSUME NEW i \in 1..l + 1
        PROVE  t[i] = IF i <= k THEN q[i] ELSE IF i = k + 1 THEN x ELSE q[i - 1]
    <3>1. CASE i <= k + 1
      BY <2>1, <2>2, <2>3, <2>4, <2>5, <3>1
    <3>2. CASE ~(i <= k + 1)
      BY <1>2, <2>2, <2>3, <2>4, <2>5, <3>2
    <3> QED
      BY <3>1, <3>2
  <2> QED
    BY <2>2, <2>3, <2>4, <2>6
<1>4. PutIn(q, k, x) = t
  BY DEF PutIn, t, u, v, l
<1> HIDE DEF t
<1> QED
  BY <1>3, <1>4 DEF l

\* An item that covers nothing may be put anywhere.
LEMMA RunsInsert ==
    ASSUME NEW S, NEW q \in Seq(S), NEW R, NEW a, NEW b, Runs(q, R, a, b),
           NEW x \in S, \A n \in Nat : <<x, n, n>> \in R, NEW k \in 0..Len(q)
    PROVE  Runs(PutIn(q, k, x), R, a, b)
<1>1. PICK c : Numbers(c, q, R, a, b)
  BY DEF Runs
<1> DEFINE l == Len(q)
           r == PutIn(q, k, x)
           d == [i \in 0..l + 1 |-> IF i <= k THEN c[i] ELSE c[i - 1]]
<1>2. l \in Nat /\ k \in Nat /\ k <= l
  OBVIOUS
<1>3. /\ r \in Seq(S) /\ Len(r) = l + 1
      /\ \A i \in 1..l + 1 : r[i] = IF i <= k THEN q[i] ELSE IF i = k + 1 THEN x ELSE q[i - 1]
  <2> HIDE DEF d, r, l
  <2>1. /\ PutIn(q, k, x) \in Seq(S) /\ Len(PutIn(q, k, x)) = Len(q) + 1
        /\ \A i \in 1..Len(q) + 1 :
              PutIn(q, k, x)[i] = IF i <= k THEN q[i] ELSE IF i = k + 1 THEN x ELSE q[i - 1]
    BY InPlace
  <2> QED
    BY <2>1 DEF r, l
<1>4. /\ c \in [0..l -> Nat] /\ c[0] = a /\ c[l] = b
      /\ \A i \in 1..l : <<q[i], c[i - 1], c[i]>> \in R
      /\ \A i, j \in 0..l : i <= j => c[i] <= c[j]
  BY <1>1 DEF Numbers
<1> HIDE DEF l, r
<1>5. \A i \in 0..l + 1 : IF i <= k THEN i \in 0..l ELSE i - 1 \in 0..l
  BY <1>2
<1>6. d \in [0..l + 1 -> Nat]
  BY <1>4, <1>5
<1>7. /\ \A i \in 0..l + 1 : d[i] = IF i <= k THEN c[i] ELSE c[i - 1]
      /\ d[0] = a /\ d[l + 1] = b
  BY <1>2, <1>4
<1> HIDE DEF d
<1>8. ASSUME NEW i \in 1..l + 1
      PROVE  <<r[i], d[i - 1], d[i]>> \in R
  <2>1. CASE i <= k
    <3>1. i \in 1..l /\ i \in 0..l + 1 /\ i - 1 \in 0..l + 1 /\ i - 1 <= k
      BY <1>2, <2>1
    <3> QED
      BY <1>3, <1>4, <1>7, <2>1, <3>1
  <2>2. CASE i = k + 1
    <3>1. i \in 0..l + 1 /\ i - 1 \in 0..l + 1 /\ i - 1 <= k /\ ~(i <= k) /\ i - 1 \in 0..l
      BY <1>2, <2>2
    <3>2. d[i - 1] = c[i - 1] /\ d[i] = c[i - 1] /\ c[i - 1] \in Nat /\ r[i] = x
      BY <1>3, <1>4, <1>7, <2>2, <3>1
    <3> QED
      BY <3>2
  <2>3. CASE i > k + 1
    <3>1. /\ i - 1 \in 1..l /\ i \in 0..l + 1 /\ i - 1 \in 0..l + 1 /\ ~(i - 1 <= k)
          /\ ~(i <= k) /\ i # k + 1
      BY <1>2, <2>3
    <3>2. d[i - 1] = c[i - 1 - 1] /\ d[i] = c[i - 1] /\ r[i] = q[i - 1]
      BY <1>3, <1>7, <3>1
    <3> QED
      BY <1>4, <3>1, <3>2
  <2> QED
    BY <1>2, <2>1, <2>2, <2>3
<1>9. ASSUME NEW i \in 0..l + 1, NEW j \in 0..l + 1, i <= j
      PROVE  d[i] <= d[j]
  <2>1. CASE j <= k
    <3>1. i \in 0..l /\ j \in 0..l /\ i <= k
      BY <1>2, <1>9, <2>1
    <3> QED
      BY <1>4, <1>7, <1>9, <2>1, <3>1
  <2>2. CASE ~(j <= k) /\ i <= k
    <3>1. i \in 0..l /\ j - 1 \in 0..l /\ i <= j - 1
      BY <1>2, <1>9, <2>2
    <3> QED
      BY <1>4, <1>7, <2>2, <3>1
  <2>3. CASE ~(j <= k) /\ ~(i <= k)
    <3>1. i - 1 \in 0..l /\ j - 1 \in 0..l /\ i - 1 <= j - 1
      BY <1>2, <1>9, <2>3
    <3> QED
      BY <1>4, <1>7, <2>3, <3>1
  <2> QED
    BY <1>2, <2>1, <2>2, <2>3
<1>10. Numbers(d, r, R, a, b)
  BY <1>3, <1>6, <1>7, <1>8, <1>9 DEF Numbers
<1> QED
  BY <1>10 DEF Runs, r, l

\* What an item covers may be named by another relation, from another place on.
LEMMA RunsMap ==
    ASSUME NEW S, NEW q \in Seq(S), NEW R, NEW T, NEW a, NEW b, Runs(q, R, a, b),
           NEW d \in Nat, d <= a,
           \A x \in S, n \in Nat, m \in Nat :
              d <= n /\ n <= m /\ <<x, n, m>> \in R => <<x, n - d, m - d>> \in T
    PROVE  Runs(q, T, a - d, b - d)
<1>1. PICK c : Numbers(c, q, R, a, b)
  BY DEF Runs
<1> DEFINE l == Len(q)
           e == [i \in 0..l |-> c[i] - d]
<1>2. /\ l \in Nat /\ 0 \in 0..l /\ l \in 0..l
      /\ \A i \in 1..l : i \in 0..l /\ i - 1 \in 0..l /\ i - 1 <= i /\ q[i] \in S
  OBVIOUS
<1>3. /\ c \in [0..l -> Nat] /\ c[0] = a /\ c[l] = b
      /\ \A i \in 1..l : <<q[i], c[i - 1], c[i]>> \in R
      /\ \A i, j \in 0..l : i <= j => c[i] <= c[j]
  BY <1>1 DEF Numbers
<1> HIDE DEF l
<1>4. \A i \in 0..l : c[i] \in Nat /\ d <= c[i]
  <2>1. \A i \in 0..l : 0 <= i
    BY <1>2
  <2> QED
    BY <1>2, <1>3, <2>1
<1>5. e \in [0..l -> Nat] /\ e[0] = a - d /\ e[l] = b - d
      /\ \A i \in 0..l : e[i] = c[i] - d
  BY <1>2, <1>3, <1>4
<1> HIDE DEF e
<1>6. \A i \in 1..l : <<q[i], e[i - 1], e[i]>> \in T
  <2> SUFFICES ASSUME NEW i \in 1..l PROVE <<q[i], e[i - 1], e[i]>> \in T
    OBVIOUS
  <2>1. /\ <<q[i], c[i - 1], c[i]>> \in R /\ c[i - 1] <= c[i] /\ d <= c[i - 1]
        /\ c[i - 1] \in Nat /\ c[i] \in Nat /\ q[i] \in S
    BY <1>2, <1>3, <1>4
  <2>2. <<q[i], c[i - 1] - d, c[i] - d>> \in T
    BY <2>1
  <2> QED
    BY <1>2, <1>5, <2>2
<1>7. \A i, j \in 0..l : i <= j => e[i] <= e[j]
  BY <1>3, <1>4, <1>5
<1>8. Numbers(e, q, T, a - d, b - d)
  BY <1>5, <1>6, <1>7 DEF Numbers, l
<1> QED
  BY <1>8 DEF Runs

\* Items that cover nothing are a run that goes nowhere.
LEMMA RunsIdle ==
    ASSUME NEW S, NEW q \in Seq(S), NEW R, NEW a \in Nat,
           \A i \in 1..Len(q) : <<q[i], a, a>> \in R
    PROVE  Runs(q, R, a, a)
<1>1. Numbers([i \in 0..Len(q) |-> a], q, R, a, a)
  <2>1. /\ Len(q) \in Nat /\ 0 \in 0..Len(q) /\ Len(q) \in 0..Len(q)
        /\ \A i \in 1..Len(q) : i \in 0..Len(q) /\ i - 1 \in 0..Len(q)
    OBVIOUS
  <2> QED
    BY <2>1 DEF Numbers
<1> QED
  BY <1>1 DEF Runs

\* a set of numbers has a least one
LEMMA LeastIs ==
    ASSUME NEW M \in SUBSET Nat, M # {}
    PROVE  \E x \in M : \A y \in M : x <= y
<1> DEFINE R == {ss \in Nat \X Nat : ss[1] < ss[2]}
<1>1. IsWellFoundedOn(R, Nat)
  BY NatLessThanWellFounded DEF OpToRel
<1> HIDE DEF R
<1>2. PICK x \in M : \A y \in M : ~ (<<y, x>> \in R)
  BY <1>1, WFMin
<1>3. ASSUME NEW y \in M PROVE x <= y
  <2>1. <<y, x>> \in Nat \X Nat /\ <<y, x>>[1] = y /\ <<y, x>>[2] = x
    OBVIOUS
  <2>2. ~ (y < x)
    BY <1>2, <2>1 DEF R
  <2> QED
    BY <2>2
<1> QED
  BY <1>3

\* what x covers does not pass place l
Respects(x, R, l) == \A n, m \in Nat : <<x, n, m>> \in R /\ l <= m => l <= n

\* A run that comes to a place from before it holds an item that passes it.
LEMMA RunsBeyond ==
    ASSUME NEW S, NEW q \in Seq(S), NEW R, NEW a, NEW b, Runs(q, R, a, b),
           NEW l \in Int, l <= b,
           \A i \in 1..Len(q) : Respects(q[i], R, l)
    PROVE  l <= a
<1>1. PICK c : Numbers(c, q, R, a, b)
  BY DEF Runs
<1> DEFINE h == Len(q)
           M == {i \in 0..h : l <= c[i]}
<1>2. /\ h \in Nat /\ 0 \in 0..h /\ h \in 0..h
      /\ c \in [0..h -> Nat] /\ c[0] = a /\ c[h] = b
      /\ \A i \in 1..h : <<q[i], c[i - 1], c[i]>> \in R
  BY <1>1 DEF Numbers
<1> HIDE DEF h
<1>3. h \in M /\ M \in SUBSET Nat
  BY <1>2
<1>4. PICK k \in M : \A i \in M : k <= i
  BY <1>3, LeastIs
<1>5. k \in 0..h /\ l <= c[k]
  BY <1>4
<1>6. ASSUME k # 0
      PROVE  FALSE
  <2>1. k \in 1..h /\ k - 1 \in 0..h /\ ~(k <= k - 1)
    BY <1>2, <1>5, <1>6
  <2>2. <<q[k], c[k - 1], c[k]>> \in R /\ c[k - 1] \in Nat /\ c[k] \in Nat
    BY <1>2, <1>5, <2>1
  <2>3. l <= c[k - 1]
    BY <1>5, <2>1, <2>2 DEF h, Respects
  <2>4. k - 1 \in M
    BY <2>1, <2>3
  <2> QED
    BY <1>4, <2>1, <2>4
<1> QED
  BY <1>2, <1>5, <1>6

-----------------------------------------------------------------------------
(* What the relay is asked and does not know *)

\* An UNIMPLEMENTED answers the next of the messages that the operator knows to
\* be unknown, and names it;
Answering(u) ==
    {t \in PacketSet \X Nat \X Nat :
        IF t[1].msg = "UNIMPLEMENTED"
        THEN t[3] = t[2] + 1 /\ t[3] \in 1..Len(u) /\ u[t[3]] = t[1].names
        ELSE t[3] = t[2]}

\* and of these messages, those on the way to the relay have their numbers.
Asking(u) ==
    {t \in PacketSet \X Nat \X Nat :
        IF t[1].msg \in {"UNKNOWN", "KEXINIT"}
        THEN t[3] = t[2] + 1 /\ t[3] \in 1..Len(u) /\ u[t[3]] = t[1].seq
        ELSE t[3] = t[2]}

\* what the answer names that is to be sent next
OwedName == IF sending["main"] # NoPacket THEN sending["main"].names
            ELSE (recvSeq + Modulus - 1) % Modulus

\* The messages that the operator waits to be told of are those answered, the
\* one that is being answered, and those on their way, in this order.
AskedFrom(a) ==
    \E b \in 0..Len(unknowns) :
        /\ IF toSend = "UNIMPLEMENTED" THEN b = a + 1 /\ unknowns[b] = OwedName ELSE b = a
        /\ Runs(toRelay, Asking(unknowns), b, Len(unknowns))

UnknownsInOrder == opc \in {"connected", "rekeying"} =>
    \E a \in 0..Len(unknowns) :
        /\ Runs(toOperator, Answering(unknowns), 0, a)
        /\ ~Doomed => AskedFrom(a)

NamesInv == unknowns \in Seq(Seqs) /\ UnknownsInOrder /\ ~misnamed

LEMMA AnswerCovers ==
    ASSUME NEW u, NEW p \in PacketSet, NEW n \in Nat, NEW m \in Nat
    PROVE  /\ <<p, n, m>> \in Answering(u) <=>
                IF p.msg = "UNIMPLEMENTED" THEN m = n + 1 /\ m \in 1..Len(u) /\ u[m] = p.names
                ELSE m = n
           /\ <<p, n, m>> \in Asking(u) <=>
                IF p.msg \in {"UNKNOWN", "KEXINIT"} THEN m = n + 1 /\ m \in 1..Len(u) /\ u[m] = p.seq
                ELSE m = n
  BY DEF Answering, Asking

\* A message that the operator knows to be unknown is put behind the others.
LEMMA UnknownAdded ==
    ASSUME NEW u \in Seq(Seqs), NEW k \in Seqs, NEW q \in Seq(PacketSet), NEW a, NEW b
    PROVE  /\ Runs(q, Answering(u), a, b) => Runs(q, Answering(Append(u, k)), a, b)
           /\ Runs(q, Asking(u), a, b) => Runs(q, Asking(Append(u, k)), a, b)
<1> DEFINE v == Append(u, k)
<1>1. /\ Len(u) \in Nat /\ Len(v) = Len(u) + 1
      /\ \A i \in 1..Len(u) : v[i] = u[i] /\ i \in 1..Len(v)
  OBVIOUS
<1> HIDE DEF v
<1>2. ASSUME NEW x \in PacketSet, NEW n \in Nat, NEW m \in Nat
      PROVE  /\ <<x, n, m>> \in Answering(u) => <<x, n - 0, m - 0>> \in Answering(v)
             /\ <<x, n, m>> \in Asking(u) => <<x, n - 0, m - 0>> \in Asking(v)
  <2>1. n - 0 = n /\ m - 0 = m
    OBVIOUS
  <2>2. /\ <<x, n, m>> \in Answering(u) <=>
             IF x.msg = "UNIMPLEMENTED" THEN m = n + 1 /\ m \in 1..Len(u) /\ u[m] = x.names
             ELSE m = n
        /\ <<x, n, m>> \in Asking(u) <=>
             IF x.msg \in {"UNKNOWN", "KEXINIT"} THEN m = n + 1 /\ m \in 1..Len(u) /\ u[m] = x.seq
             ELSE m = n
    BY AnswerCovers
  <2>3. /\ <<x, n, m>> \in Answering(v) <=>
             IF x.msg = "UNIMPLEMENTED" THEN m = n + 1 /\ m \in 1..Len(v) /\ v[m] = x.names
             ELSE m = n
        /\ <<x, n, m>> \in Asking(v) <=>
             IF x.msg \in {"UNKNOWN", "KEXINIT"} THEN m = n + 1 /\ m \in 1..Len(v) /\ v[m] = x.seq
             ELSE m = n
    BY AnswerCovers
  <2> QED
    BY <1>1, <2>1, <2>2, <2>3
<1>3. ASSUME Runs(q, Answering(u), a, b) PROVE Runs(q, Answering(v), a, b)
  <2>1. a \in Nat /\ b \in Nat /\ 0 \in Nat /\ 0 <= a
    BY <1>3, RunsGrow
  <2>2. Runs(q, Answering(v), a - 0, b - 0)
    BY <1>2, <1>3, <2>1, RunsMap
  <2> QED
    BY <2>1, <2>2
<1>4. ASSUME Runs(q, Asking(u), a, b) PROVE Runs(q, Asking(v), a, b)
  <2>1. a \in Nat /\ b \in Nat /\ 0 \in Nat /\ 0 <= a
    BY <1>4, RunsGrow
  <2>2. Runs(q, Asking(v), a - 0, b - 0)
    BY <1>2, <1>4, <2>1, RunsMap
  <2> QED
    BY <2>1, <2>2
<1> QED
  BY <1>3, <1>4 DEF v

\* The first of them is told, and the others are one further.
LEMMA UnknownTold ==
    ASSUME NEW u \in Seq(Seqs), u # <<>>, NEW q \in Seq(PacketSet), NEW a \in Nat, NEW b, 1 <= a
    PROVE  /\ Runs(q, Answering(u), a, b) => Runs(q, Answering(Tail(u)), a - 1, b - 1)
           /\ Runs(q, Asking(u), a, b) => Runs(q, Asking(Tail(u)), a - 1, b - 1)
<1> DEFINE v == Tail(u)
<1>1. /\ Len(u) \in Nat \ {0} /\ Len(v) = Len(u) - 1
      /\ \A i \in 1..Len(v) : v[i] = u[i + 1]
  OBVIOUS
<1> HIDE DEF v
<1>2. ASSUME NEW x \in PacketSet, NEW n \in Nat, NEW m \in Nat, 1 <= n, n <= m
      PROVE  /\ <<x, n, m>> \in Answering(u) => <<x, n - 1, m - 1>> \in Answering(v)
             /\ <<x, n, m>> \in Asking(u) => <<x, n - 1, m - 1>> \in Asking(v)
  <2>1. n - 1 \in Nat /\ m - 1 \in Nat /\ (m - 1) + 1 = m
    BY <1>2
  <2>2. m = n + 1 /\ m \in 1..Len(u) => /\ m - 1 = (n - 1) + 1 /\ m - 1 \in 1..Len(v)
                                       /\ v[m - 1] = u[m]
    BY <1>1, <1>2, <2>1
  <2>3. m = n => m - 1 = n - 1
    OBVIOUS
  <2>4. /\ <<x, n, m>> \in Answering(u) <=>
             IF x.msg = "UNIMPLEMENTED" THEN m = n + 1 /\ m \in 1..Len(u) /\ u[m] = x.names
             ELSE m = n
        /\ <<x, n, m>> \in Asking(u) <=>
             IF x.msg \in {"UNKNOWN", "KEXINIT"} THEN m = n + 1 /\ m \in 1..Len(u) /\ u[m] = x.seq
             ELSE m = n
    BY AnswerCovers
  <2>5. /\ <<x, n - 1, m - 1>> \in Answering(v) <=>
             IF x.msg = "UNIMPLEMENTED" THEN m - 1 = (n - 1) + 1 /\ m - 1 \in 1..Len(v) /\ v[m - 1] = x.names
             ELSE m - 1 = n - 1
        /\ <<x, n - 1, m - 1>> \in Asking(v) <=>
             IF x.msg \in {"UNKNOWN", "KEXINIT"}
             THEN m - 1 = (n - 1) + 1 /\ m - 1 \in 1..Len(v) /\ v[m - 1] = x.seq
             ELSE m - 1 = n - 1
    <3> DEFINE k == n - 1
               l == m - 1
    <3>1. k \in Nat /\ l \in Nat
      BY <2>1
    <3> HIDE DEF k, l
    <3>2. /\ <<x, k, l>> \in Answering(v) <=>
                IF x.msg = "UNIMPLEMENTED" THEN l = k + 1 /\ l \in 1..Len(v) /\ v[l] = x.names
                ELSE l = k
          /\ <<x, k, l>> \in Asking(v) <=>
                IF x.msg \in {"UNKNOWN", "KEXINIT"} THEN l = k + 1 /\ l \in 1..Len(v) /\ v[l] = x.seq
                ELSE l = k
      BY <3>1, AnswerCovers
    <3> QED
      BY <3>2 DEF k, l
  <2> QED
    BY <2>2, <2>3, <2>4, <2>5
<1>3. 1 \in Nat
  OBVIOUS
<1>4. ASSUME Runs(q, Answering(u), a, b) PROVE Runs(q, Answering(v), a - 1, b - 1)
  BY <1>2, <1>3, <1>4, RunsMap
<1>5. ASSUME Runs(q, Asking(u), a, b) PROVE Runs(q, Asking(v), a - 1, b - 1)
  BY <1>2, <1>3, <1>5, RunsMap
<1> QED
  BY <1>4, <1>5 DEF v

\* A packet that tells of none is put behind a queue.
LEMMA OtherAppended ==
    ASSUME NEW u, NEW q \in Seq(PacketSet), NEW p \in PacketSet, NEW a, NEW b
    PROVE  /\ Runs(q, Answering(u), a, b) /\ p.msg # "UNIMPLEMENTED"
                => Runs(Append(q, p), Answering(u), a, b)
           /\ Runs(q, Asking(u), a, b) /\ p.msg \notin {"UNKNOWN", "KEXINIT"}
                => Runs(Append(q, p), Asking(u), a, b)
<1>1. ASSUME Runs(q, Answering(u), a, b), p.msg # "UNIMPLEMENTED"
      PROVE  Runs(Append(q, p), Answering(u), a, b)
  <2>1. b \in Nat /\ b <= b
    BY <1>1, RunsGrow
  <2>2. <<p, b, b>> \in Answering(u)
    BY <1>1, <2>1, AnswerCovers
  <2> QED
    BY <1>1, <2>1, <2>2, RunsAppend
<1>2. ASSUME Runs(q, Asking(u), a, b), p.msg \notin {"UNKNOWN", "KEXINIT"}
      PROVE  Runs(Append(q, p), Asking(u), a, b)
  <2>1. b \in Nat /\ b <= b
    BY <1>2, RunsGrow
  <2>2. <<p, b, b>> \in Asking(u)
    BY <1>2, <2>1, AnswerCovers
  <2> QED
    BY <1>2, <2>1, <2>2, RunsAppend
<1> QED
  BY <1>1, <1>2

\* An answer, or a question, is put behind a queue, or taken off it.
LEMMA NamingAppended ==
    ASSUME NEW u \in Seq(Seqs), NEW q \in Seq(PacketSet), NEW p \in PacketSet,
           NEW a, NEW b, b + 1 \in 1..Len(u)
    PROVE  /\ Runs(q, Answering(u), a, b) /\ p.msg = "UNIMPLEMENTED" /\ u[b + 1] = p.names
                => Runs(Append(q, p), Answering(u), a, b + 1)
           /\ Runs(q, Asking(u), a, b) /\ p.msg \in {"UNKNOWN", "KEXINIT"} /\ u[b + 1] = p.seq
                => Runs(Append(q, p), Asking(u), a, b + 1)
<1>1. ASSUME Runs(q, Answering(u), a, b), p.msg = "UNIMPLEMENTED", u[b + 1] = p.names
      PROVE  Runs(Append(q, p), Answering(u), a, b + 1)
  <2>1. b \in Nat /\ b + 1 \in Nat /\ b <= b + 1
    <3>1. b \in Nat
      BY <1>1, RunsGrow
    <3> QED
      BY <3>1
  <2>2. <<p, b, b + 1>> \in Answering(u)
    BY <1>1, <2>1 DEF Answering
  <2> QED
    BY <1>1, <2>1, <2>2, RunsAppend
<1>2. ASSUME Runs(q, Asking(u), a, b), p.msg \in {"UNKNOWN", "KEXINIT"}, u[b + 1] = p.seq
      PROVE  Runs(Append(q, p), Asking(u), a, b + 1)
  <2>1. b \in Nat /\ b + 1 \in Nat /\ b <= b + 1
    <3>1. b \in Nat
      BY <1>2, RunsGrow
    <3> QED
      BY <3>1
  <2>2. <<p, b, b + 1>> \in Asking(u)
    BY <1>2, <2>1 DEF Asking
  <2> QED
    BY <1>2, <2>1, <2>2, RunsAppend
<1> QED
  BY <1>1, <1>2

LEMMA NamingTaken ==
    ASSUME NEW u \in Seq(Seqs), NEW q \in Seq(PacketSet), q # <<>>, NEW a \in Nat, NEW b
    PROVE  /\ Runs(q, Answering(u), a, b) =>
                IF Head(q).msg = "UNIMPLEMENTED"
                THEN a + 1 \in 1..Len(u) /\ u[a + 1] = Head(q).names /\ Runs(Tail(q), Answering(u), a + 1, b)
                ELSE Runs(Tail(q), Answering(u), a, b)
           /\ Runs(q, Asking(u), a, b) =>
                IF Head(q).msg \in {"UNKNOWN", "KEXINIT"}
                THEN a + 1 \in 1..Len(u) /\ u[a + 1] = Head(q).seq /\ Runs(Tail(q), Asking(u), a + 1, b)
                ELSE Runs(Tail(q), Asking(u), a, b)
<1>0. Head(q) \in PacketSet
  OBVIOUS
<1>1. ASSUME Runs(q, Answering(u), a, b)
      PROVE  IF Head(q).msg = "UNIMPLEMENTED"
             THEN a + 1 \in 1..Len(u) /\ u[a + 1] = Head(q).names /\ Runs(Tail(q), Answering(u), a + 1, b)
             ELSE Runs(Tail(q), Answering(u), a, b)
  <2>1. PICK n \in Nat : <<Head(q), a, n>> \in Answering(u) /\ Runs(Tail(q), Answering(u), n, b)
    BY <1>1, RunsTail
  <2>2. IF Head(q).msg = "UNIMPLEMENTED" THEN n = a + 1 /\ n \in 1..Len(u) /\ u[n] = Head(q).names
        ELSE n = a
    BY <1>0, <2>1, AnswerCovers
  <2> QED
    BY <2>1, <2>2
<1>2. ASSUME Runs(q, Asking(u), a, b)
      PROVE  IF Head(q).msg \in {"UNKNOWN", "KEXINIT"}
             THEN a + 1 \in 1..Len(u) /\ u[a + 1] = Head(q).seq /\ Runs(Tail(q), Asking(u), a + 1, b)
             ELSE Runs(Tail(q), Asking(u), a, b)
  <2>1. PICK n \in Nat : <<Head(q), a, n>> \in Asking(u) /\ Runs(Tail(q), Asking(u), n, b)
    BY <1>2, RunsTail
  <2>2. IF Head(q).msg \in {"UNKNOWN", "KEXINIT"} THEN n = a + 1 /\ n \in 1..Len(u) /\ u[n] = Head(q).seq
        ELSE n = a
    BY <1>0, <2>1, AnswerCovers
  <2> QED
    BY <2>1, <2>2
<1> QED
  BY <1>1, <1>2

\* The number of the packet that was read last.
LEMMA NumberBefore == \A n \in Seqs : (Next1(n) + Modulus - 1) % Modulus = n
<1> SUFFICES ASSUME NEW n \in Seqs PROVE (Next1(n) + Modulus - 1) % Modulus = n
  OBVIOUS
<1>0. Modulus \in Nat /\ Modulus > 1 /\ n \in Nat /\ n <= Modulus - 1
  BY TransportAssumption DEF Seqs
<1>1. CASE n = Modulus - 1
  <2>1. Next1(n) = 0
    BY <1>0, <1>1 DEF Next1
  <2>2. (0 + Modulus - 1) % Modulus = n
    BY <1>0, <1>1
  <2> QED
    BY <2>1, <2>2
<1>2. CASE n # Modulus - 1
  <2>1. Next1(n) = n + 1
    BY <1>0, <1>2 DEF Next1
  <2>2. n + 1 + Modulus - 1 = n + Modulus
    BY <1>0
  <2>3. (n + Modulus) % Modulus = n
    BY <1>0
  <2> QED
    BY <2>1, <2>2, <2>3
<1> QED
  BY <1>1, <1>2

-----------------------------------------------------------------------------
\* What the operator has been told and waits for does not change;
LEMMA NamesStay ==
    ASSUME NamesInv, UNCHANGED <<toOperator, unknowns, misnamed>>,
           opc' \in {opc, "left"},
           Doomed' \/ UNCHANGED <<rpc, toSend, toRelay, OwedName>>
    PROVE  NamesInv'
<1>1. unknowns' \in Seq(Seqs) /\ ~misnamed'
  BY DEF NamesInv
<1>2. UnknownsInOrder'
  <2> SUFFICES ASSUME opc' \in {"connected", "rekeying"}
               PROVE  \E a \in 0..Len(unknowns) :
                         /\ Runs(toOperator, Answering(unknowns), 0, a)
                         /\ ~Doomed' => AskedFrom(a)'
    BY DEF UnknownsInOrder
  <2>1. PICK a \in 0..Len(unknowns) : /\ Runs(toOperator, Answering(unknowns), 0, a)
                                      /\ ~Doomed => AskedFrom(a)
    BY DEF NamesInv, UnknownsInOrder
  <2>2. ~Doomed' => ~Doomed /\ UNCHANGED <<toSend, toRelay, OwedName>>
    BY DEF Doomed
  <2>3. ~Doomed' => AskedFrom(a)'
    BY <2>1, <2>2 DEF AskedFrom
  <2> QED
    BY <2>1, <2>3
<1> QED
  BY <1>1, <1>2 DEF NamesInv

\* nor does a step of the handshake matter.
LEMMA NamesInHandshake ==
    ASSUME NamesInv, TalkInv, UNCHANGED <<opc, unknowns, misnamed>>, ~Doomed, Stage # 13
    PROVE  NamesInv'
<1>1. opc \notin {"connected", "rekeying"}
  BY DEF TalkInv, Conversation
<1> QED
  BY <1>1 DEF NamesInv, UnknownsInOrder

LEMMA NamesMoves ==
    ASSUME WireInv, TalkInv, NamesInv, Greet \/ ReadVersion \/ Verdict \/ SetSendCipher \/ RelaySeesEnd
    PROVE  NamesInv'
<1>1. CASE RelaySeesEnd
  BY <1>1, NamesStay DEF RelaySeesEnd, Goes, Doomed, operatorVars, historyVars, wireVars
<1>2. CASE Greet \/ ReadVersion \/ Verdict \/ SetSendCipher
  <2>1. /\ rpc \in {"greeting", "want_version", "approving", "switching"}
        /\ UNCHANGED <<opc, unknowns, misnamed>>
    BY <1>2 DEF Greet, ReadVersion, Verdict, SetSendCipher, operatorVars, historyVars
  <2>2. ~Doomed /\ Stage # 13
    BY <2>1, StagesOfPlaces DEF WireInv, WireTypes, Doomed, Stage, None
  <2> QED
    BY <2>1, <2>2, NamesInHandshake
<1> QED
  BY <1>1, <1>2

LEMMA NamesBeginSend ==
    ASSUME WireInv, NamesInv, NEW t \in Threads, BeginSend(t)
    PROVE  NamesInv'
<1>1. /\ UNCHANGED <<opc, toOperator, unknowns, misnamed, rpc, toSend, toRelay, recvSeq>>
      /\ sending[t] = NoPacket /\ sending \in [Threads -> PacketSet \cup {NoPacket}]
      /\ sending' = [sending EXCEPT ![t] =
            Packet(IF t = "main" THEN toSend ELSE "DATA", sendKeyed, sendSeq,
                 IF (IF t = "main" THEN toSend ELSE "DATA") = "UNIMPLEMENTED"
                 THEN (recvSeq + Modulus - 1) % Modulus ELSE 0,
                 IF (IF t = "main" THEN toSend ELSE "DATA") = "ECDH_REPLY" THEN hostSeed[served] ELSE Empty)]
  BY DEF BeginSend, Encrypted, operatorVars, historyVars, wireVars, WireInv, WireTypes
<1>2. "main" \in Threads
  BY DEF Threads
<1>3. CASE t # "main"
  <2>1. sending'["main"] = sending["main"]
    BY <1>1, <1>2, <1>3
  <2> QED
    BY <1>1, <2>1, NamesStay DEF OwedName
<1>4. CASE t = "main" /\ toSend = "UNIMPLEMENTED"
  <2>1. sending'["main"].names = (recvSeq + Modulus - 1) % Modulus
    BY <1>1, <1>2, <1>4 DEF Packet
  <2>2. OwedName' = OwedName
    BY <1>1, <1>4, <2>1 DEF OwedName
  <2> QED
    BY <1>1, <2>2, NamesStay
<1>5. CASE toSend # "UNIMPLEMENTED"
  <2>1. Doomed' = Doomed
    BY <1>1 DEF Doomed
  <2>2. \A a \in 0..Len(unknowns) : AskedFrom(a) => AskedFrom(a)'
    BY <1>1, <1>5 DEF AskedFrom
  <2>3. UnknownsInOrder'
    BY <1>1, <2>1, <2>2 DEF NamesInv, UnknownsInOrder
  <2> QED
    BY <1>1, <2>3 DEF NamesInv
<1> QED
  BY <1>3, <1>4, <1>5

LEMMA NamesEndSend ==
    ASSUME WireInv, WireTypes', TalkInv, NamesInv, NEW t \in Threads, EndSend(t)
    PROVE  NamesInv'
<1> DEFINE p == sending[t]
           u == unknowns
<1>1. /\ p \in PacketSet /\ p.msg = IF t = "main" THEN toSend ELSE "DATA"
      /\ t = "main" => rpc = "sending" /\ toSend \in RelaySends /\ p.names = OwedName
      /\ toOperator \in Seq(PacketSet) /\ toRelay \in Seq(PacketSet)
  BY DEF EndSend, WireInv, OneSender, WireTypes, None, OwedName
<1>2. /\ UNCHANGED <<opc, toRelay, unknowns, misnamed, recvSeq>>
      /\ IF rpc = "closed" THEN UNCHANGED toOperator ELSE toOperator' = Append(toOperator, p)
      /\ IF t = "main" THEN AfterSend(toSend) ELSE UNCHANGED <<rpc, toSend>>
      /\ sending' = [sending EXCEPT ![t] = NoPacket]
  BY DEF EndSend, operatorVars, historyVars
<1>3. u \in Seq(Seqs) /\ ~misnamed
  BY DEF NamesInv
<1> HIDE DEF p, u
<1> SUFFICES ASSUME opc \in {"connected", "rekeying"}
             PROVE  \E a \in 0..Len(u) : /\ Runs(toOperator', Answering(u), 0, a)
                                         /\ ~Doomed' => AskedFrom(a)'
  BY <1>2, <1>3 DEF NamesInv, UnknownsInOrder, u
<1>4. PICK a \in 0..Len(u) : /\ Runs(toOperator, Answering(u), 0, a)
                             /\ ~Doomed => AskedFrom(a)
  BY DEF NamesInv, UnknownsInOrder, u
<1>5. ASSUME p.msg # "UNIMPLEMENTED"
      PROVE  Runs(toOperator', Answering(u), 0, a)
  BY <1>1, <1>2, <1>4, <1>5, OtherAppended
<1>6. CASE t # "main"
  <2>1. Doomed' = Doomed /\ OwedName' = OwedName
    <3>1. "main" \in Threads /\ sending \in [Threads -> PacketSet \cup {NoPacket}]
      BY DEF Threads, WireInv, WireTypes
    <3>2. sending'["main"] = sending["main"]
      BY <1>2, <1>6, <3>1
    <3> QED
      BY <1>2, <1>6, <3>2 DEF Doomed, OwedName
  <2>2. AskedFrom(a) => AskedFrom(a)'
    BY <1>2, <1>6, <2>1 DEF AskedFrom
  <2> QED
    BY <1>1, <1>4, <1>5, <1>6, <2>1, <2>2
<1>7. CASE t = "main"
  <2>1. rpc = "sending" /\ toSend \in RelaySends /\ p.msg = toSend /\ AfterSend(toSend)
        /\ toOperator' = Append(toOperator, p)
    BY <1>1, <1>2, <1>7
  <2>2. CASE toSend = "UNIMPLEMENTED"
    <3>1. ~Doomed /\ toSend' = None
      BY <2>1, <2>2 DEF Doomed, AfterSend, Goes
    <3>2. /\ a + 1 \in 0..Len(u) /\ u[a + 1] = OwedName
          /\ Runs(toRelay, Asking(u), a + 1, Len(u))
      BY <1>4, <2>2, <3>1 DEF AskedFrom, u
    <3>3. Len(u) \in Nat /\ a \in Nat /\ a + 1 \in 1..Len(u)
      BY <1>3, <3>2
    <3>4. Runs(toOperator', Answering(u), 0, a + 1)
      BY <1>1, <1>3, <1>4, <1>7, <2>1, <2>2, <3>2, <3>3, NamingAppended
    <3>5. AskedFrom(a + 1)'
      BY <1>2, <3>1, <3>2 DEF AskedFrom, u, None
    <3> QED
      BY <3>2, <3>4, <3>5
  <2>3. CASE toSend # "UNIMPLEMENTED"
    <3>1. ~Doomed' => ~Doomed
      BY <2>1 DEF Doomed, AfterSend, Goes
    <3>2. toSend' # "UNIMPLEMENTED"
      BY <2>1, <2>3 DEF AfterSend, RelaySends, Goes, Sends, None
    <3>3. AskedFrom(a) => AskedFrom(a)'
      BY <1>2, <2>3, <3>2 DEF AskedFrom
    <3> QED
      BY <1>4, <1>5, <2>1, <2>3, <3>1, <3>3
  <2> QED
    BY <2>2, <2>3
<1> QED
  BY <1>6, <1>7

LEMMA NamesReads ==
    ASSUME WireInv, WireTypes', TalkInv, NamesInv, RelayReads
    PROVE  NamesInv'
<1> DEFINE h == Head(toRelay)
           u == unknowns
<1>1. /\ toRelay # <<>> /\ toRelay' = Tail(toRelay)
      /\ UNCHANGED <<opc, toOperator, unknowns, sending>>
      /\ toSend = None /\ ~Doomed
  BY ReadLeads
<1>2. \/ Doomed' /\ toSend' = "DISCONNECT"
      \/ /\ toSend' \notin {"REPLY", "UNIMPLEMENTED"}
         /\ h.msg \in {"IGNORE", "ECDH_INIT", "NEWKEYS", "SERVICE_REQUEST", "USERAUTH_REQUEST"}
              \/ Stage = 3
      \/ /\ h.msg # "IGNORE" /\ rpc = "loop"
         /\ toSend' = IF h.msg = "REQUEST" THEN "REPLY" ELSE "UNIMPLEMENTED"
  BY ReadLeads
<1>3. misnamed' = misnamed
  BY DEF RelayReads
<1>4. CASE Doomed'
  BY <1>1, <1>3, <1>4, NamesStay
<1>5. CASE ~Doomed' /\ opc \notin {"connected", "rekeying"}
  BY <1>1, <1>3, <1>5 DEF NamesInv, UnknownsInOrder
<1>6. CASE ~Doomed' /\ opc \in {"connected", "rekeying"}
  <2>1. u \in Seq(Seqs) /\ ~misnamed /\ toRelay \in Seq(PacketSet)
    BY DEF NamesInv, WireInv, WireTypes
  <2>2. Stage = 13 /\ h.msg \in Requests
    <3>1. Conversation(opc, Stage, toRelay, toOperator)
      BY <1>1 DEF TalkInv
    <3>2. 1 \in 1..Len(toRelay) /\ h = toRelay[1]
      BY <1>1, <2>1, ItemsTail
    <3> HIDE DEF h
    <3> QED
      BY <1>6, <3>1, <3>2 DEF Conversation
  <2>3. \/ toSend' \notin {"REPLY", "UNIMPLEMENTED"} /\ h.msg = "IGNORE"
        \/ /\ h.msg # "IGNORE" /\ rpc = "loop"
           /\ toSend' = IF h.msg = "REQUEST" THEN "REPLY" ELSE "UNIMPLEMENTED"
    BY <1>2, <1>6, <2>2 DEF Requests, Doomed
  <2>4. PICK a \in 0..Len(u) : Runs(toOperator, Answering(u), 0, a) /\ AskedFrom(a)
    BY <1>1, <1>6 DEF NamesInv, UnknownsInOrder
  <2>5. Runs(toRelay, Asking(u), a, Len(u)) /\ a \in Nat
    BY <1>1, <2>4 DEF AskedFrom, None
  <2> HIDE DEF h, u
  <2>6. AskedFrom(a)'
    <3>1. CASE h.msg \in {"UNKNOWN", "KEXINIT"}
      <4>1. a + 1 \in 1..Len(u) /\ u[a + 1] = h.seq /\ Runs(Tail(toRelay), Asking(u), a + 1, Len(u))
        BY <1>1, <2>1, <2>5, <3>1, NamingTaken DEF h
      <4>2. rpc = "loop" /\ toSend' = "UNIMPLEMENTED"
        BY <2>3, <3>1
      <4>3. OwedName' = h.seq
        <5>1. sending["main"] = NoPacket
          BY <4>2 DEF WireInv, OneSender, Threads
        <5>2. h.seq = recvSeq /\ recvSeq \in Seqs
          <6>1. Follows(toRelay, recvSeq, recvKeyed)
            BY <1>1 DEF WireInv, ToRelayInv
          <6>2. h = toRelay[1]
            BY <1>1, <2>1, ItemsTail DEF h
          <6> QED
            BY <1>1, <3>1, <6>1, <6>2 DEF Follows, WireInv, WireTypes
        <5>3. recvSeq' = Next1(recvSeq)
          <6>1. ReadsWell(h, recvKeyed, recvSeq)
            <7>1. Follows(toRelay, recvSeq, recvKeyed)
              BY <1>1 DEF WireInv, ToRelayInv
            <7>2. h = toRelay[1]
              BY <1>1, <2>1, ItemsTail DEF h
            <7> QED
              BY <1>1, <5>2, <7>1, <7>2 DEF Follows, ReadsWell
          <6> QED
            BY <6>1 DEF RelayReads, h
        <5>4. OwedName' = (Next1(recvSeq) + Modulus - 1) % Modulus
          BY <1>1, <5>1, <5>3 DEF OwedName
        <5> QED
          BY <5>2, <5>4, NumberBefore
      <4>4. a + 1 \in 0..Len(u)
        BY <2>5, <4>1
      <4> QED
        BY <1>1, <4>1, <4>2, <4>3, <4>4 DEF AskedFrom, u
    <3>2. CASE h.msg \notin {"UNKNOWN", "KEXINIT"}
      <4>1. Runs(Tail(toRelay), Asking(u), a, Len(u))
        BY <1>1, <2>1, <2>5, <3>2, NamingTaken DEF h
      <4>2. toSend' # "UNIMPLEMENTED"
        BY <2>2, <2>3, <3>2 DEF Requests
      <4> QED
        BY <1>1, <2>4, <4>1, <4>2 DEF AskedFrom, u
    <3> QED
      BY <3>1, <3>2
  <2> QED
    BY <1>1, <1>3, <2>1, <2>4, <2>6 DEF NamesInv, UnknownsInOrder, u
<1> QED
  BY <1>4, <1>5, <1>6

LEMMA NamesOperatorTalks ==
    ASSUME WireInv, TalkInv, NamesInv, OperatorTalks
    PROVE  NamesInv'
<1> DEFINE u == unknowns
<1>1. PICK m \in {"IGNORE", "REQUEST", "UNKNOWN", "KEXINIT"} :
         /\ OperatorSends(<<m>>) /\ opc' = IF m = "KEXINIT" THEN "rekeying" ELSE opc
         /\ opc = "connected" \/ (m = "IGNORE" /\ opc \in {"want_kexinit", "want_reply", "want_accept"})
         /\ unknowns' = IF m \in {"UNKNOWN", "KEXINIT"} THEN Append(unknowns, osend) ELSE unknowns
  BY DEF OperatorTalks
<1>2. /\ UNCHANGED <<rpc, toSend, toOperator, sending, recvSeq, misnamed>>
      /\ toRelay \in Seq(PacketSet) /\ toOperator \in Seq(PacketSet) /\ osend \in Seqs
  BY DEF OperatorTalks, relayVars, historyVars, WireInv, WireTypes
<1>3. PICK p \in PacketSet : p.msg = m /\ p.seq = osend /\ toRelay' = Append(toRelay, p)
  BY <1>1, OperatorAppends DEF Messages
<1>4. u \in Seq(Seqs) /\ ~misnamed
  BY DEF NamesInv
<1>5. Doomed' = Doomed /\ OwedName' = OwedName
  BY <1>2 DEF Doomed, OwedName
<1>6. CASE opc # "connected"
  BY <1>1, <1>2, <1>6 DEF NamesInv, UnknownsInOrder
<1>7. CASE opc = "connected"
  <2>1. PICK a \in 0..Len(u) : /\ Runs(toOperator, Answering(u), 0, a)
                               /\ ~Doomed => AskedFrom(a)
    BY <1>7 DEF NamesInv, UnknownsInOrder
  <2>2. ~Doomed => \E b \in 0..Len(u) :
            /\ IF toSend = "UNIMPLEMENTED" THEN b = a + 1 /\ u[b] = OwedName ELSE b = a
            /\ Runs(toRelay, Asking(u), b, Len(u))
    BY <2>1 DEF AskedFrom
  <2>3. CASE m \notin {"UNKNOWN", "KEXINIT"}
    <3>1. unknowns' = u
      BY <1>1, <2>3
    <3>2. \A b : Runs(toRelay, Asking(u), b, Len(u)) => Runs(toRelay', Asking(u), b, Len(u))
      BY <1>2, <1>3, <2>3, OtherAppended
    <3> HIDE DEF u
    <3>3. ~Doomed => AskedFrom(a)'
      BY <1>2, <1>5, <2>2, <3>1, <3>2 DEF AskedFrom
    <3> QED
      BY <1>2, <1>4, <1>5, <2>1, <3>1, <3>3 DEF NamesInv, UnknownsInOrder
  <2>4. CASE m \in {"UNKNOWN", "KEXINIT"}
    <3> DEFINE v == Append(u, osend)
               l == Len(u)
    <3>1. unknowns' = v
      BY <1>1, <2>4
    <3>2. /\ l \in Nat /\ Len(v) = l + 1 /\ v[l + 1] = osend /\ v \in Seq(Seqs)
          /\ \A i \in 1..l : v[i] = u[i]
      BY <1>2, <1>4
    <3>3. Runs(toOperator, Answering(v), 0, a)
      BY <1>2, <1>4, <2>1, UnknownAdded
    <3>4. \A b : Runs(toRelay, Asking(u), b, l) => Runs(toRelay', Asking(v), b, l + 1)
      <4> SUFFICES ASSUME NEW b, Runs(toRelay, Asking(u), b, l)
                   PROVE  Runs(toRelay', Asking(v), b, l + 1)
        OBVIOUS
      <4>1. Runs(toRelay, Asking(v), b, l)
        BY <1>2, <1>4, UnknownAdded
      <4> HIDE DEF v, l
      <4>2. l + 1 \in 1..Len(v)
        BY <3>2
      <4> QED
        BY <1>2, <1>3, <2>4, <3>2, <4>1, <4>2, NamingAppended
    <3> HIDE DEF u, v, l
    <3>5. ASSUME ~Doomed PROVE AskedFrom(a)'
      <4>1. PICK b \in 0..l :
              /\ IF toSend = "UNIMPLEMENTED" THEN b = a + 1 /\ u[b] = OwedName ELSE b = a
              /\ Runs(toRelay, Asking(u), b, l)
        BY <2>2, <3>5 DEF l
      <4>2. b \in 0..Len(v) /\ Runs(toRelay', Asking(v), b, Len(v))
        BY <3>2, <3>4, <4>1
      <4>3. toSend = "UNIMPLEMENTED" => b \in 1..l
        <5>1. a \in Nat
          BY <2>1
        <5> QED
          BY <3>2, <4>1, <5>1
      <4>4. IF toSend = "UNIMPLEMENTED" THEN b = a + 1 /\ v[b] = OwedName ELSE b = a
        BY <3>2, <4>1, <4>3
      <4> QED
        BY <1>2, <1>5, <3>1, <4>2, <4>4 DEF AskedFrom
    <3>6. a \in 0..Len(v)
      BY <2>1, <3>2 DEF l
    <3> QED
      BY <1>2, <1>4, <1>5, <3>1, <3>2, <3>3, <3>5, <3>6 DEF NamesInv, UnknownsInOrder
  <2> QED
    BY <2>3, <2>4
<1> QED
  BY <1>6, <1>7

LEMMA NamesOperatorReads ==
    ASSUME WireInv, WireInv', TalkInv, NamesInv, OperatorReads
    PROVE  NamesInv'
<1> DEFINE h == Head(toOperator)
           u == unknowns
<1>1. /\ opc \in OperatorPlaces \ {"away", "left"}
      /\ toOperator # <<>> /\ toOperator' = Tail(toOperator) /\ UNCHANGED relayVars
      /\ toOperator \in Seq(PacketSet) /\ toRelay \in Seq(PacketSet) /\ toOperator' \in Seq(PacketSet)
      /\ unknowns' = IF h.msg = "UNIMPLEMENTED" /\ u # <<>> THEN Tail(u) ELSE u
      /\ misnamed' = (misnamed \/ (ReadsWell(h, orkeyed, orecv) /\ h.msg = "UNIMPLEMENTED"
                                        /\ (u = <<>> \/ h.names # Head(u))))
  BY DEF OperatorReads, WireInv, WireTypes
<1>2. PICK answer : /\ opc' = answer[1] /\ OperatorSends(answer[2])
                    /\ answer = OperatorAnswer(opc, h.msg) \/ answer = <<"left", <<>>>>
  BY DEF OperatorReads
<1>3. \/ opc' = "left" /\ answer[2] = <<>>
      \/ opc = "want_auth" /\ h.msg = "SUCCESS" /\ opc' = "connected" /\ answer[2] = <<>>
      \/ opc \in {"connected", "rekeying"} /\ opc' = opc /\ answer[2] = <<>>
      \/ opc' \in Handshaking
  BY <1>1, <1>2, AnswerLeads
<1>4. Doomed' = Doomed /\ OwedName' = OwedName /\ toSend' = toSend
  BY <1>1 DEF relayVars, Doomed, OwedName
<1>5. u \in Seq(Seqs) /\ ~misnamed
  BY DEF NamesInv
<1> HIDE DEF h, u
\* an UNIMPLEMENTED names the first of the messages it can be about
<1>6. ASSUME h.msg = "UNIMPLEMENTED"
      PROVE  /\ opc \in {"connected", "rekeying"} /\ u # <<>> /\ h.names = Head(u)
             /\ Len(u) \in Nat \ {0} /\ Len(Tail(u)) = Len(u) - 1
             /\ \A a \in 0..Len(u) : Runs(toOperator, Answering(u), 0, a) =>
                   Runs(toOperator', Answering(u), 1, a)
  <2>1. opc \notin Handshaking
    <3>1. Has(toOperator, "UNIMPLEMENTED")
      BY <1>1, <1>6, ItemsTail DEF Has, h
    <3> QED
      BY <3>1 DEF TalkInv, NothingUnknown
  <2>2. opc \in {"connected", "rekeying"}
    BY <1>1, <2>1 DEF Handshaking, OperatorPlaces
  <2>3. \A a : Runs(toOperator, Answering(u), 0, a) =>
              0 + 1 \in 1..Len(u) /\ u[0 + 1] = h.names /\ Runs(toOperator', Answering(u), 0 + 1, a)
    BY <1>1, <1>5, <1>6, NamingTaken DEF h
  <2>4. PICK a \in 0..Len(u) : Runs(toOperator, Answering(u), 0, a)
    BY <2>2 DEF NamesInv, UnknownsInOrder, u
  <2>5. 0 + 1 = 1
    OBVIOUS
  <2>6. 1 \in 1..Len(u) /\ u[1] = h.names
    BY <2>3, <2>4, <2>5
  <2>7. u # <<>> /\ Head(u) = u[1] /\ Len(u) \in Nat \ {0} /\ Len(Tail(u)) = Len(u) - 1
    BY <1>5, <2>6
  <2> QED
    BY <2>2, <2>3, <2>5, <2>6, <2>7
<1>7. ~misnamed'
  BY <1>1, <1>5, <1>6
<1>8. unknowns' \in Seq(Seqs)
  BY <1>1, <1>5
<1>9. UnknownsInOrder'
  <2>1. CASE opc' \notin {"connected", "rekeying"}
    BY <2>1 DEF UnknownsInOrder
  <2>2. CASE opc = "want_auth" /\ h.msg = "SUCCESS" /\ opc' = "connected" /\ answer[2] = <<>>
    <3>1. toRelay' = toRelay
      BY <1>2, <2>2, OperatorSilent
    <3>2. u = <<>> /\ unknowns' = <<>> /\ toSend # "UNIMPLEMENTED" /\ ~Has(toOperator, "UNIMPLEMENTED")
      BY <1>1, <2>2 DEF TalkInv, NothingUnknown, Handshaking, u
    <3>3. Runs(toOperator', Answering(<<>>), 0, 0)
      <4>1. ~Has(toOperator', "UNIMPLEMENTED")
        BY <1>1, <3>2, NoneInTail
      <4>2. \A i \in 1..Len(toOperator') : <<toOperator'[i], 0, 0>> \in Answering(<<>>)
        <5>1. \A i \in 1..Len(toOperator') :
                 toOperator'[i] \in PacketSet /\ toOperator'[i].msg # "UNIMPLEMENTED"
          BY <1>1, <4>1 DEF Has
        <5> QED
          BY <5>1, AnswerCovers
      <4> QED
        BY <1>1, <4>2, RunsIdle
    <3>4. ~Doomed => Runs(toRelay, Asking(<<>>), 0, 0)
      <4> SUFFICES ASSUME ~Doomed PROVE Runs(toRelay, Asking(<<>>), 0, 0)
        OBVIOUS
      <4>1. Conversation("want_auth", Stage, toRelay, toOperator) /\ Stage \in 0..13
        BY <2>2, StageIs DEF TalkInv, WireInv
      <4>2. \A i \in 1..Len(toRelay) : toRelay[i].msg = "IGNORE"
        BY <1>1, <2>2, <4>1, ConversationAdmits DEF h
      <4>3. \A i \in 1..Len(toRelay) : <<toRelay[i], 0, 0>> \in Asking(<<>>)
        <5>1. \A i \in 1..Len(toRelay) : toRelay[i] \in PacketSet
          BY <1>1
        <5> QED
          BY <4>2, <5>1, AnswerCovers
      <4> QED
        BY <1>1, <4>3, RunsIdle
    <3>5. ~Doomed => AskedFrom(0)'
      BY <1>4, <3>1, <3>2, <3>4 DEF AskedFrom
    <3> QED
      BY <1>4, <3>2, <3>3, <3>5 DEF UnknownsInOrder
  <2>3. CASE opc \in {"connected", "rekeying"} /\ opc' = opc /\ answer[2] = <<>>
    <3>1. toRelay' = toRelay
      BY <1>2, <2>3, OperatorSilent
    <3>2. PICK a \in 0..Len(u) : /\ Runs(toOperator, Answering(u), 0, a)
                                 /\ ~Doomed => AskedFrom(a)
      BY <2>3 DEF NamesInv, UnknownsInOrder, u
    <3>3. CASE h.msg # "UNIMPLEMENTED"
      <4>1. unknowns' = u
        BY <1>1, <3>3
      <4>2. Runs(toOperator', Answering(u), 0, a)
        BY <1>1, <1>5, <3>2, <3>3, NamingTaken DEF h
      <4>3. AskedFrom(a) => AskedFrom(a)'
        BY <1>4, <3>1, <4>1 DEF AskedFrom, u
      <4> QED
        BY <1>4, <3>2, <4>1, <4>2, <4>3 DEF UnknownsInOrder
    <3>4. CASE h.msg = "UNIMPLEMENTED"
      <4> DEFINE v == Tail(u)
                 l == Len(u)
      <4>1. unknowns' = v
        BY <1>1, <1>6, <3>4
      <4>2. /\ l \in Nat \ {0} /\ Len(v) = l - 1 /\ \A i \in 1..l - 1 : v[i] = u[i + 1]
            /\ Runs(toOperator', Answering(u), 1, a)
        <5>1. \A i \in 1..Len(u) - 1 : Tail(u)[i] = u[i + 1]
          BY <1>5, <1>6, <3>4
        <5> QED
          BY <1>6, <3>2, <3>4, <5>1
      <4>3. a \in Nat /\ 1 <= a /\ a - 1 \in 0..Len(v)
        <5>1. 1 <= a /\ a \in Nat
          BY <1>1, <4>2, RunsGrow
        <5> QED
          BY <3>2, <4>2, <5>1
      <4>4. Runs(toOperator', Answering(v), 0, a - 1)
        <5>1. Runs(toOperator', Answering(v), 1 - 1, a - 1)
          <6>1. 1 \in Nat /\ 1 <= 1 /\ u # <<>>
            BY <1>6, <3>4
          <6> QED
            BY <1>1, <1>5, <4>2, <6>1, UnknownTold
        <5> QED
          BY <5>1
      <4>5. ASSUME ~Doomed PROVE AskedFrom(a - 1)'
        <5>1. PICK b \in 0..l :
              /\ IF toSend = "UNIMPLEMENTED" THEN b = a + 1 /\ u[b] = OwedName ELSE b = a
              /\ Runs(toRelay, Asking(u), b, l)
          BY <3>2, <4>5 DEF AskedFrom, u
        <5>2. b \in Nat /\ 1 <= b /\ b - 1 \in 0..Len(v)
          BY <4>2, <4>3, <5>1
        <5>3. Runs(toRelay, Asking(v), b - 1, Len(v))
          <6>1. u # <<>>
            BY <1>6, <3>4
          <6> HIDE DEF l
          <6>2. Runs(toRelay, Asking(v), b - 1, l - 1)
            BY <1>1, <1>5, <5>1, <5>2, <6>1, UnknownTold
          <6> QED
            BY <4>2, <6>2
        <5> HIDE DEF v, l
        <5>4. IF toSend = "UNIMPLEMENTED" THEN b - 1 = (a - 1) + 1 /\ v[b - 1] = OwedName ELSE b - 1 = a - 1
          <6>1. CASE toSend = "UNIMPLEMENTED"
            <7>1. b = a + 1 /\ u[b] = OwedName /\ b - 1 = (a - 1) + 1 /\ b - 1 \in 1..l - 1 /\ (b - 1) + 1 = b
              BY <4>2, <4>3, <5>1, <6>1
            <7>2. v[b - 1] = u[b]
              BY <4>2, <7>1
            <7> QED
              BY <6>1, <7>1, <7>2
          <6>2. CASE toSend # "UNIMPLEMENTED"
            BY <5>1, <6>2
          <6> QED
            BY <6>1, <6>2
        <5> QED
          BY <1>4, <3>1, <4>1, <5>2, <5>3, <5>4 DEF AskedFrom
      <4> HIDE DEF v, l
      <4> QED
        BY <1>4, <4>1, <4>3, <4>4, <4>5 DEF UnknownsInOrder
    <3> QED
      BY <3>3, <3>4
  <2> QED
    BY <1>3, <2>1, <2>2, <2>3 DEF Handshaking
<1> QED
  BY <1>7, <1>8, <1>9 DEF NamesInv

-----------------------------------------------------------------------------
LEMMA NamesStep ==
    ASSUME WireInv, HostInv, KeyShown, TalkInv, NamesInv, [Next]_vars
    PROVE  NamesInv'
<1>0. WireInv' /\ WireTypes'
  BY WireStep DEF WireInv
<1>1. CASE HostKeySteps \/ OperatorLeaves \/ UNCHANGED vars
  <2>1. UNCHANGED <<toOperator, toRelay, unknowns, misnamed, rpc, toSend, sending, recvSeq>>
        /\ opc' \in {opc, "left"}
    BY <1>1 DEF HostKeySteps, OperatorLeaves, vars, operatorVars, relayVars, wireVars, historyVars
  <2>2. OwedName' = OwedName
    BY <2>1 DEF OwedName
  <2> QED
    BY <2>1, <2>2, NamesStay
<1>2. ASSUME NEW r \in Relays, CrashRelay(r)
      PROVE  NamesInv'
  <2>1. UNCHANGED <<opc, toOperator, toRelay, unknowns, misnamed, recvSeq>>
    BY <1>2 DEF CrashRelay, operatorVars, wireVars, historyVars
  <2>2. CASE rpc' = "closed"
    BY <2>1, <2>2, NamesStay DEF Doomed
  <2>3. CASE UNCHANGED <<rpc, toSend, sending>>
    BY <2>1, <2>3, NamesStay DEF OwedName
  <2> QED
    BY <1>2, <2>2, <2>3 DEF CrashRelay, Goes
<1>3. ASSUME NEW r \in Relays, Connect(r)
      PROVE  NamesInv'
  BY <1>3 DEF Connect, NamesInv, UnknownsInOrder, historyVars
<1>4. CASE \E t \in Threads : BeginSend(t) \/ EndSend(t)
  BY <1>0, <1>4, NamesBeginSend, NamesEndSend
<1>5. CASE Greet \/ ReadVersion \/ RelayReads \/ Verdict \/ SetSendCipher \/ RelaySeesEnd
  BY <1>0, <1>5, NamesReads, NamesMoves
<1>6. CASE OperatorReads \/ OperatorTalks
  BY <1>0, <1>6, NamesOperatorReads, NamesOperatorTalks
<1> QED
  BY <1>1, <1>2, <1>3, <1>4, <1>5, <1>6 DEF Next, MainSteps, Threads

\* An UNIMPLEMENTED names the packet it answers: whatever came in behind that
\* packet while readers of reverse clients held send_lock, the relay counts the
\* packets it has read, and reads none before it has answered (relay.py:757-758).
THEOREM AnswersNameTheirPacket == FairSpec => []UnimplementedNamesPacket
<1>1. Init => TalkInv /\ NamesInv
  BY DEF Init, TalkInv, NamesInv, NothingUnknown, UnknownsInOrder, Doomed, Handshaking
<1>2. HostInv /\ WireInv /\ KeyShown /\ TalkInv /\ NamesInv /\ [Next]_vars => TalkInv' /\ NamesInv'
  BY TalkStep, NamesStep
<1>3. NamesInv => UnimplementedNamesPacket
  BY DEF NamesInv, UnimplementedNamesPacket
<1> QED
  BY <1>1, <1>2, <1>3, Invariance, PTL DEF FairSpec, Spec

-----------------------------------------------------------------------------
(* Frames.  Every piece of a frame has its place in the stream of pieces,   *)
(* and each queue between the writers and read_frame is a run of the        *)
(* stream: it begins where the one before it ends.                          *)


\* A piece takes the stream of pieces one place further, and a control frame
\* leaves it where it is;
PieceCovers ==
    {t \in (Pieces \cup Others) \X Nat \X Nat :
        \/ t[1] \in Others /\ t[3] = t[2]
        \/ t[1] \in Pieces /\ t[3] = 2 * t[1][1] - 2 + t[1][2] /\ t[2] + 1 = t[3]}

\* a WebSocket frame takes it as far as the pieces that it holds.
ItemCovers ==
    {t \in Items \X Nat \X Nat :
        LET n == t[1][2] IN
        CASE t[1][1] = "whole" -> t[2] = 2 * n - 2 /\ t[3] = 2 * n
          [] t[1][1] = "first" -> t[2] = 2 * n - 2 /\ t[3] = 2 * n - 1
          [] t[1][1] = "rest" -> t[2] = 2 * n - 1 /\ t[3] = 2 * n
          [] OTHER -> t[3] = t[2]}

LEMMA PieceCovered ==
    ASSUME NEW n \in Frames, NEW k \in {1, 2}, NEW a, NEW b
    PROVE  <<<<n, k>>, a, b>> \in PieceCovers <=> a \in Nat /\ b = 2 * n - 2 + k /\ a + 1 = b
<1>1. n \in Nat \ {0} /\ <<n, k>> \in Pieces /\ <<n, k>>[1] = n /\ <<n, k>>[2] = k
  BY LinkAssumption DEF Frames, Pieces
<1>2. <<n, k>> \notin Others
  BY <1>1 DEF Pong, CloseFrame, Result, Others
<1> QED
  BY <1>1, <1>2 DEF PieceCovers

LEMMA HalfCovered ==
    ASSUME NEW n \in Frames, NEW a, NEW b
    PROVE  /\ <<<<n, 1>>, a, b>> \in PieceCovers <=> a \in Nat /\ b = 2 * n - 1 /\ a + 1 = b
           /\ <<<<n, 2>>, a, b>> \in PieceCovers <=> a \in Nat /\ b = 2 * n /\ a + 1 = b
<1>1. n \in Nat
  BY LinkAssumption DEF Frames
<1>2. 2 * n - 2 + 1 = 2 * n - 1 /\ 2 * n - 2 + 2 = 2 * n
  BY <1>1
<1>3. <<<<n, 1>>, a, b>> \in PieceCovers <=> a \in Nat /\ b = 2 * n - 2 + 1 /\ a + 1 = b
  BY PieceCovered
<1>4. <<<<n, 2>>, a, b>> \in PieceCovers <=> a \in Nat /\ b = 2 * n - 2 + 2 /\ a + 1 = b
  BY PieceCovered
<1> QED
  BY <1>2, <1>3, <1>4

LEMMA ControlCovered ==
    ASSUME NEW p \in Others, NEW a, NEW b
    PROVE  <<p, a, b>> \in PieceCovers <=> a \in Nat /\ b = a
<1>1. p \notin Pieces
  BY LinkAssumption DEF Pong, CloseFrame, Result, Others, Pieces, Frames
<1> QED
  BY <1>1 DEF PieceCovers

LEMMA FrameCovered ==
    ASSUME NEW n \in Frames, NEW a, NEW b
    PROVE  /\ <<<<"whole", n>>, a, b>> \in ItemCovers <=> a \in Nat /\ a = 2 * n - 2 /\ b = 2 * n
           /\ <<<<"first", n>>, a, b>> \in ItemCovers <=> a \in Nat /\ a = 2 * n - 2 /\ b = 2 * n - 1
           /\ <<<<"rest", n>>, a, b>> \in ItemCovers <=> a \in Nat /\ a = 2 * n - 1 /\ b = 2 * n
<1>1. n \in Nat \ {0}
  BY LinkAssumption DEF Frames
<1>2. <<"whole", n>> \in Items /\ <<"first", n>> \in Items /\ <<"rest", n>> \in Items
  BY DEF Items
<1>3. /\ <<"whole", n>>[1] = "whole" /\ <<"first", n>>[1] = "first" /\ <<"rest", n>>[1] = "rest"
      /\ <<"whole", n>>[2] = n /\ <<"first", n>>[2] = n /\ <<"rest", n>>[2] = n
  OBVIOUS
<1> QED
  BY <1>1, <1>2, <1>3 DEF ItemCovers

LEMMA OtherCovered ==
    ASSUME NEW x \in OtherItems, NEW a, NEW b
    PROVE  <<x, a, b>> \in ItemCovers <=> a \in Nat /\ a = b
<1>1. x \in Items /\ x[1] \notin {"whole", "first", "rest"}
  BY DEF Items, OtherItems
<1> QED
  BY <1>1 DEF ItemCovers

\* the pieces of the frames that were begun, but for those a writer has yet to write
Written == 2 * begun - (IF lock = NoWriter THEN 0 ELSE left[lock])

\* One writer at a time is in a frame, the last that was begun; before the upgrade
\* nothing is; and a socket is closed after the stream.
SendInv ==
    /\ \A w \in Writers : left[w] > 0 <=> lock = w
    /\ lock # NoWriter => current[lock] = begun /\ begun > 0
    /\ readerAt \in {"marked", "said"} => closed
    /\ socket = "closed" => closed
    /\ upgrade # "open" => wire = <<>> /\ begun = 0 /\ readerAt = "reading"

\* a control frame on the way has been counted
ControlsCounted == \A i \in 1..Len(wire) : wire[i] \in {Pong, CloseFrame} => controls > 0

-----------------------------------------------------------------------------
(* What is received *)

\* read_frame has read the stream to place a
ReadTo(a) ==
    \/ header = 0 /\ a = 2 * Len(got)
    \/ header = Len(got) + 1 /\ a = 2 * Len(got) + 1

\* what has arrived reaches from there to place p
ArrivedTo(p) ==
    \E a, b, c \in Nat :
        /\ ReadTo(a)
        /\ Runs(buffer, PieceCovers, a, b)
        /\ Runs(parts, PieceCovers, b, c)
        /\ Runs(inbox, ItemCovers, c, p)

\* and what is on its way from place p to place f
ComingTo(p, f) ==
    \E e \in Nat : Runs(coming, PieceCovers, p, e) /\ Runs(wire, PieceCovers, e, f)

\* all of it, or all but what was not written of the last frame when the socket
\* was closed
Reaches(f) ==
    /\ 2 * begun - 2 <= f /\ f <= Written
    /\ socket = "open" => f = Written

\* a broken stream of which all is read that arrived in order
Stranded == astray /\ inbox = <<>> /\ buffer = <<>>

\* What has arrived and what is on its way are the pieces that were written, in
\* order; between WebSocket frames it is whole frames.
ArrivesInOrder ==
    Stranded \/ \E n \in 0..begun :
        /\ ArrivedTo(2 * n)
        /\ astray \/ \E f \in Nat :
             ComingTo(2 * n, f) /\ Reaches(f)

ComingShape == coming = <<>> \/ \E n \in Frames : coming = <<<<n, 1>>>>

LinkInv ==
    /\ LinkTypeOK
    /\ SendInv
    /\ ControlsCounted
    /\ ComingShape
    /\ ArrivesInOrder

-----------------------------------------------------------------------------
(* What is sent keeps its order *)

USE DEF linkVars, sendVars, closeVars, recvVars, netVars

LEMMA NoWriterIsNone == NoWriter \notin Writers
  BY LinkAssumption DEF NoWriter

LEMMA SeqTyped ==
    ASSUME NEW S, NEW q \in Seq(S), NEW x \in S
    PROVE  <<>> \in Seq(S) /\ Append(q, x) \in Seq(S)
  OBVIOUS

LEMMA SeqTwo ==
    ASSUME NEW S, NEW q \in Seq(S), NEW x \in S, NEW y \in S
    PROVE  q \o <<x, y>> = Append(Append(q, x), y) /\ q \o <<x, y>> \in Seq(S)
  OBVIOUS

LEMMA TypeInit == LinkInit => LinkTypeOK
<1> SUFFICES ASSUME LinkInit PROVE LinkTypeOK
  OBVIOUS
<1>1. /\ wire \in Seq(Pieces \cup Others) /\ coming \in Seq(Pieces)
      /\ inbox \in Seq(Items) /\ parts \in Seq(Pieces) /\ buffer \in Seq(Pieces)
      /\ got \in Seq(0..MaxFrames)
  BY DEF LinkInit
<1>2. /\ 0 \in 0..2 /\ 0 \in 0..MaxFrames /\ 0 \in 0..MaxControl /\ 0 \in Nat
  BY LinkAssumption
<1>3. left \in [Writers -> 0..2] /\ current \in [Writers -> 0..MaxFrames]
  BY <1>2 DEF LinkInit
<1> QED
  BY <1>1, <1>2, <1>3 DEF LinkInit, LinkTypeOK

LEMMA TypeUpgrading == LinkTypeOK /\ Upgrading => LinkTypeOK'
<1> SUFFICES ASSUME LinkTypeOK, Upgrading PROVE LinkTypeOK'
  OBVIOUS
<1>1. wire' \in Seq(Pieces \cup Others)
  <2>1. wire \in Seq(Pieces \cup Others) /\ <<>> \in Seq(Pieces \cup Others)
    BY DEF LinkTypeOK
  <2>2. wire' \in {wire, <<>>}
    BY DEF Upgrading, RelayAccepts, RelayRefuses, ClientOpens, ClientGivesUp, ReadsHeader
  <2> QED
    BY <2>1, <2>2
<1>2. /\ UNCHANGED <<sender, result, sendVars, closeVars, recvVars, coming, astray>>
      /\ upgrade' \in {"answered", "refused", "open", "failed"}
  BY DEF Upgrading, RelayAccepts, RelayRefuses, ClientOpens, ClientGivesUp
<1> QED
  BY <1>1, <1>2 DEF LinkTypeOK

LEMMA TypeBegin ==
    ASSUME LinkTypeOK, NEW w \in Writers, Begin(w)
    PROVE  LinkTypeOK'
<1>1. begun' \in 0..MaxFrames /\ lock' = w
  BY LinkAssumption DEF LinkTypeOK, Begin, Begins
<1>2. left' \in [Writers -> 0..2] /\ current' \in [Writers -> 0..MaxFrames]
  BY <1>1 DEF LinkTypeOK, Begin, Begins
<1> QED
  BY <1>1, <1>2 DEF LinkTypeOK, Begin, Begins

LEMMA TypeWritePiece ==
    ASSUME LinkTypeOK, SendInv, NEW w \in Writers, WritePiece(w)
    PROVE  LinkTypeOK'
<1>1. lock = w /\ current[w] = begun /\ begun \in Frames /\ left[w] \in {1, 2}
  BY NoWriterIsNone, LinkAssumption DEF LinkTypeOK, SendInv, WritePiece, Frames
<1>2. left' \in [Writers -> 0..2]
  <2>1. left[w] - 1 \in 0..2 /\ 0 \in 0..2
    BY <1>1
  <2> QED
    BY <2>1 DEF LinkTypeOK, WritePiece
<1>3. wire' \in Seq(Pieces \cup Others)
  <2>1. <<current[w], 3 - left[w]>> \in Pieces
    BY <1>1 DEF Pieces
  <2>2. wire \in Seq(Pieces \cup Others)
        /\ <<current[w], 3 - left[w]>> \in Pieces \cup Others
    BY <2>1 DEF LinkTypeOK
  <2>3. Append(wire, <<current[w], 3 - left[w]>>) \in Seq(Pieces \cup Others)
    BY <2>2, SeqTyped
  <2>4. wire' = wire \/ wire' = Append(wire, <<current[w], 3 - left[w]>>)
    BY DEF WritePiece
  <2> QED
    BY <2>2, <2>3, <2>4
<1>4. lock' \in Writers \cup {NoWriter}
  BY DEF LinkTypeOK, WritePiece
<1> QED
  BY <1>2, <1>3, <1>4 DEF LinkTypeOK, WritePiece

LEMMA TypeClosing ==
    ASSUME LinkTypeOK, WriteResult \/ WritePong \/ CloseReceived \/ Closing
    PROVE  LinkTypeOK'
<1>0. CASE WriteResult
  BY <1>0, SeqTyped DEF LinkTypeOK, WriteResult, Others
<1>1. CASE WritePong
  BY <1>1, SeqTyped DEF LinkTypeOK, WritePong, Others
<1>2. CASE CloseReceived
  BY <1>2 DEF LinkTypeOK, CloseReceived
<1>3. CASE MarkClosed
  BY <1>3 DEF LinkTypeOK, MarkClosed
<1>4. CASE SayClose
  BY <1>4, SeqTyped DEF LinkTypeOK, SayClose, Others
<1>5. CASE CloseSocket
  BY <1>5 DEF LinkTypeOK, CloseSocket
<1> QED
  BY <1>0, <1>1, <1>2, <1>3, <1>4, <1>5 DEF Closing

LEMMA TypeArrive ==
    ASSUME LinkTypeOK, Arrive
    PROVE  LinkTypeOK'
<1> DEFINE p == Head(wire)
<1>1. p \in Pieces \cup Others /\ Tail(wire) \in Seq(Pieces \cup Others)
  BY DEF LinkTypeOK, Arrive
<1>2. p[1] > 0 => p \in Pieces /\ p[1] \in Frames
  BY <1>1 DEF Pieces, Pong, CloseFrame, Result, Others
<1> HIDE DEF p
<1>3. astray' \in BOOLEAN
  BY DEF Arrive
<1>4. coming' \in Seq(Pieces)
  BY <1>2 DEF Arrive, p
<1>5. inbox' \in Seq(Items)
  <2>1. \/ inbox' = inbox
        \/ inbox' = Append(inbox, ItemOf(p))
        \/ p[1] > 0 /\ inbox' = Append(inbox, <<"whole", p[1]>>)
        \/ p[1] > 0 /\ inbox' = inbox \o <<<<"first", p[1]>>, <<"rest", p[1]>>>>
    BY DEF Arrive, p
  <2>2. /\ ItemOf(p) \in Items
        /\ p[1] > 0 => /\ <<"whole", p[1]>> \in Items /\ <<"first", p[1]>> \in Items
                       /\ <<"rest", p[1]>> \in Items
    BY <1>2 DEF Items, OtherItems, ItemOf
  <2>3. inbox \in Seq(Items)
    BY DEF LinkTypeOK
  <2>4. \A x \in Items : Append(inbox, x) \in Seq(Items)
    BY <2>3, SeqTyped
  <2>5. p[1] > 0 => inbox \o <<<<"first", p[1]>>, <<"rest", p[1]>>>> \in Seq(Items)
    BY <2>2, <2>3, SeqTwo
  <2> QED
    BY <2>1, <2>2, <2>3, <2>4, <2>5
<1> QED
  BY <1>1, <1>3, <1>4, <1>5 DEF LinkTypeOK, Arrive, p

LEMMA TypeProxyPings ==
    ASSUME LinkTypeOK, ProxyPings
    PROVE  LinkTypeOK'
<1>1. PICK i \in 0..Len(inbox) :
         inbox' = SubSeq(inbox, 1, i) \o <<<<"ping", 0>>>> \o SubSeq(inbox, i + 1, Len(inbox))
  BY DEF ProxyPings
<1>2. SubSeq(inbox, 1, i) \in Seq(Items) /\ SubSeq(inbox, i + 1, Len(inbox)) \in Seq(Items)
      /\ <<<<"ping", 0>>>> \in Seq(Items)
  BY DEF LinkTypeOK, Items, OtherItems
<1>3. inbox' \in Seq(Items)
  BY <1>1, <1>2
<1>4. pings' \in 0..MaxControl
  BY LinkAssumption DEF ProxyPings, LinkTypeOK
<1> QED
  BY <1>3, <1>4 DEF LinkTypeOK, ProxyPings

LEMMA HeadOfInbox ==
    ASSUME inbox \in Seq(Items), inbox # <<>>
    PROVE  \/ \E n \in Frames, op \in {"whole", "first", "rest"} : Head(inbox) = <<op, n>>
           \/ Head(inbox) \in OtherItems
<1>1. Head(inbox) \in Items
  OBVIOUS
<1> QED
  BY <1>1 DEF Items

LEMMA TypeReadMessage ==
    ASSUME LinkTypeOK, ReadMessage
    PROVE  LinkTypeOK'
<1>1. inbox' \in Seq(Items) /\ inbox \in Seq(Items) /\ inbox # <<>>
  BY DEF LinkTypeOK, ReadMessage
<1>2. parts' \in Seq(Pieces) /\ buffer' \in Seq(Pieces) /\ rclosed' \in BOOLEAN
  <2>1. ASSUME NEW n \in Frames, NEW op \in {"whole", "first", "rest"}, Head(inbox) = <<op, n>>
        PROVE  parts' \in Seq(Pieces) /\ buffer' \in Seq(Pieces) /\ rclosed' \in BOOLEAN
    <3>0. <<n, 1>> \in Pieces /\ <<n, 2>> \in Pieces
      BY DEF Pieces
    <3>1. /\ <<>> \in Seq(Pieces) /\ parts \in Seq(Pieces) /\ buffer \in Seq(Pieces)
          /\ Append(parts, <<n, 1>>) \in Seq(Pieces) /\ Append(parts, <<n, 2>>) \in Seq(Pieces)
          /\ parts \o <<<<n, 1>>, <<n, 2>>>> \in Seq(Pieces)
      <4>1. parts \in Seq(Pieces) /\ buffer \in Seq(Pieces)
        BY DEF LinkTypeOK
      <4> QED
        BY <3>0, <4>1, SeqTyped, SeqTwo
    <3> DEFINE hd == Head(inbox)
    <3>5. hd[1] = op /\ hd[2] = n /\ rclosed \in BOOLEAN
      BY <2>1 DEF LinkTypeOK
    <3> HIDE DEF hd
    <3>2. CASE op = "whole"
      <4>1. parts' = <<>> /\ buffer' = parts \o <<<<n, 1>>, <<n, 2>>>> /\ UNCHANGED rclosed
        BY <3>5, <3>2 DEF ReadMessage, hd
      <4> QED
        BY <3>1, <3>5, <4>1
    <3>3. CASE op = "first"
      <4>1. parts' = Append(parts, <<n, 1>>) /\ UNCHANGED <<buffer, rclosed>>
        BY <3>5, <3>3 DEF ReadMessage, hd
      <4> QED
        BY <3>1, <3>5, <4>1
    <3>4. CASE op = "rest"
      <4>1. parts' = <<>> /\ buffer' = Append(parts, <<n, 2>>) /\ UNCHANGED rclosed
        BY <3>5, <3>4 DEF ReadMessage, hd
      <4> QED
        BY <3>1, <3>5, <4>1
    <3> QED
      BY <3>2, <3>3, <3>4
  <2>2. ASSUME Head(inbox) \in OtherItems
        PROVE  parts' \in Seq(Pieces) /\ buffer' \in Seq(Pieces) /\ rclosed' \in BOOLEAN
    <3>1. Head(inbox)[1] \in {"pong", "close", "ping", "result"}
      BY <2>2 DEF OtherItems
    <3>2. UNCHANGED <<parts, buffer>> /\ (rclosed' \in BOOLEAN \/ rclosed' = rclosed)
      BY <3>1 DEF ReadMessage, OnControl
    <3> QED
      BY <3>2 DEF LinkTypeOK
  <2> QED
    BY <1>1, <2>1, <2>2, HeadOfInbox
<1>3. result' \in {"none", "due", "sent", "read"}
  BY DEF LinkTypeOK, ReadMessage
<1> QED
  BY <1>1, <1>2, <1>3 DEF LinkTypeOK, ReadMessage

LEMMA TypeReadFrame ==
    ASSUME LinkTypeOK, ReadFrame
    PROVE  LinkTypeOK'
<1>1. Head(buffer) \in Pieces /\ Tail(buffer) \in Seq(Pieces)
  BY DEF LinkTypeOK, ReadFrame
<1>2. Head(buffer)[1] \in Frames
  BY <1>1 DEF Pieces
<1>3. header' \in 0..MaxFrames
  BY <1>2, LinkAssumption DEF Frames, ReadFrame, LinkTypeOK
<1>4. got' \in Seq(0..MaxFrames)
  <2>1. header \in 0..MaxFrames /\ 0 \in 0..MaxFrames
    BY LinkAssumption DEF LinkTypeOK
  <2>2. got' = got \/ got' = Append(got, header) \/ got' = Append(got, 0)
    BY DEF ReadFrame
  <2>3. got \in Seq(0..MaxFrames)
    BY DEF LinkTypeOK
  <2> QED
    BY <2>1, <2>2, <2>3, SeqTyped
<1> QED
  BY <1>1, <1>3, <1>4 DEF LinkTypeOK, ReadFrame

LEMMA TypeEnds ==
    ASSUME LinkTypeOK, SeeEnd \/ ReadAstray \/ UNCHANGED linkVars
    PROVE  LinkTypeOK'
<1>1. CASE SeeEnd
  BY <1>1 DEF LinkTypeOK, SeeEnd
<1>2. CASE ReadAstray
  <2>1. 0 \in 0..MaxFrames
    BY LinkAssumption
  <2>2. got' \in Seq(0..MaxFrames) /\ receiver' \in {"reading", "ended"}
    <3>1. got \in Seq(0..MaxFrames) /\ receiver \in {"reading", "ended"}
      BY DEF LinkTypeOK
    <3>2. Append(got, 0) \in Seq(0..MaxFrames)
      BY <2>1, <3>1, SeqTyped
    <3> QED
      BY <1>2, <3>1, <3>2 DEF ReadAstray
  <2> QED
    BY <1>2, <2>2 DEF LinkTypeOK, ReadAstray
<1>3. CASE UNCHANGED linkVars
  BY <1>3 DEF LinkTypeOK
<1> QED
  BY <1>1, <1>2, <1>3

LEMMA TypeStep == LinkTypeOK /\ SendInv /\ [LinkNext]_linkVars => LinkTypeOK'
  BY TypeUpgrading, TypeBegin, TypeWritePiece, TypeClosing, TypeArrive, TypeProxyPings,
     TypeReadMessage, TypeReadFrame, TypeEnds DEF LinkNext, Receiving

-----------------------------------------------------------------------------
LEMMA SendInit == LinkInit => SendInv
  BY NoWriterIsNone DEF LinkInit, SendInv

LEMMA SendBegin ==
    ASSUME LinkTypeOK, SendInv, NEW w \in Writers, Begin(w)
    PROVE  SendInv'
<1>1. /\ lock = NoWriter /\ lock' = w /\ upgrade = "open" /\ begun' = begun + 1 /\ begun \in Nat
      /\ \A v \in Writers : left'[v] = IF v = w THEN 2 ELSE left[v]
      /\ current'[w] = begun'
      /\ UNCHANGED <<upgrade, closed, readerAt, socket, wire>>
  BY DEF LinkTypeOK, Begin, Begins, MaySend
<1> QED
  BY <1>1, NoWriterIsNone DEF SendInv

LEMMA SendWritePiece ==
    ASSUME LinkTypeOK, SendInv, NEW w \in Writers, WritePiece(w)
    PROVE  SendInv'
<1>1. left[w] \in {1, 2} /\ lock = w /\ begun > 0
  BY NoWriterIsNone DEF LinkTypeOK, SendInv, WritePiece
<1>2. \E k \in 0..1 :
         /\ \A v \in Writers : left'[v] = IF v = w THEN k ELSE left[v]
         /\ lock' = IF k = 0 THEN NoWriter ELSE w
  <2>1. left[w] - 1 \in 0..1 /\ 0 \in 0..1
    BY <1>1
  <2> QED
    BY <1>1, <2>1 DEF LinkTypeOK, WritePiece
<1>3. UNCHANGED <<upgrade, begun, current, closed, readerAt, socket>>
  BY DEF WritePiece
<1>4. upgrade = "open"
  BY <1>1 DEF SendInv
<1> QED
  BY <1>1, <1>2, <1>3, <1>4, NoWriterIsNone DEF SendInv

LEMMA SendStep == LinkTypeOK /\ SendInv /\ [LinkNext]_linkVars => SendInv'
<1> SUFFICES ASSUME LinkTypeOK, SendInv, [LinkNext]_linkVars
             PROVE  SendInv'
  OBVIOUS
<1>1. ASSUME NEW w \in Writers, Begin(w) \/ WritePiece(w)
      PROVE  SendInv'
  BY <1>1, SendBegin, SendWritePiece
<1>2. CASE Upgrading
  BY <1>2 DEF SendInv, Upgrading, RelayAccepts, RelayRefuses, ClientOpens, ClientGivesUp, ReadsHeader
<1>3. CASE Arrive
  <2>1. wire # <<>> /\ UNCHANGED <<upgrade, lock, left, current, begun, readerAt, closed, socket>>
    BY <1>3 DEF Arrive
  <2> QED
    BY <2>1 DEF SendInv
<1>4. CASE WriteResult \/ WritePong
  BY <1>4 DEF SendInv, WriteResult, WritePong, MaySend, ReaderRuns
<1>5. CASE CloseReceived
  BY <1>5 DEF SendInv, CloseReceived, ReaderRuns
<1>6. CASE MarkClosed
  BY <1>6 DEF SendInv, MarkClosed, ReaderRuns
<1>7. CASE SayClose
  BY <1>7 DEF SendInv, SayClose
<1>8. CASE CloseSocket
  BY <1>8 DEF SendInv, CloseSocket
<1>9. CASE ProxyPings \/ ReadMessage \/ ReadFrame \/ SeeEnd \/ ReadAstray \/ UNCHANGED linkVars
  <2>1. UNCHANGED <<upgrade, lock, left, current, begun, readerAt, closed, socket, wire>>
    BY <1>9 DEF ProxyPings, ReadMessage, ReadFrame, SeeEnd, ReadAstray
  <2> QED
    BY <2>1 DEF SendInv
<1> QED
  BY <1>1, <1>2, <1>3, <1>4, <1>5, <1>6, <1>7, <1>8, <1>9 DEF LinkNext, Receiving, Closing

LEMMA ControlsStep ==
    LinkTypeOK /\ SendInv /\ ControlsCounted /\ [LinkNext]_linkVars => ControlsCounted'
<1> SUFFICES ASSUME LinkTypeOK, SendInv, ControlsCounted, [LinkNext]_linkVars
             PROVE  ControlsCounted'
  OBVIOUS
<1> DEFINE WP == Pieces \cup Others
<1>0. wire \in Seq(WP) /\ controls \in Nat
  BY DEF LinkTypeOK
<1>1. ASSUME NEW w \in Writers, WritePiece(w)
      PROVE  ControlsCounted'
  <2>1. <<current[w], 3 - left[w]>> \notin {Pong, CloseFrame}
    <3>1. lock = w /\ current[w] > 0 /\ current[w] \in Nat
      BY <1>1, NoWriterIsNone, LinkAssumption DEF WritePiece, SendInv, LinkTypeOK
    <3> QED
      BY <3>1 DEF Pong, CloseFrame
  <2>2. CASE wire' = wire
    BY <1>1, <2>2 DEF WritePiece, ControlsCounted
  <2>3. CASE wire' = Append(wire, <<current[w], 3 - left[w]>>)
    <3> HIDE DEF WP
    <3>1. /\ Len(wire') = Len(wire) + 1 /\ wire'[Len(wire) + 1] = <<current[w], 3 - left[w]>>
          /\ \A i \in 1..Len(wire) : wire'[i] = wire[i]
          /\ Len(wire) \in Nat
      BY <1>0, <2>3
    <3>2. \A i \in 1..Len(wire) + 1 : i \in 1..Len(wire) \/ i = Len(wire) + 1
      BY <3>1
    <3>3. controls' = controls
      BY <1>1 DEF WritePiece
    <3> QED
      BY <2>1, <3>1, <3>2, <3>3 DEF ControlsCounted
  <2> QED
    BY <1>1, <2>2, <2>3 DEF WritePiece
<1>2. CASE WritePong \/ SayClose
  BY <1>0, <1>2 DEF WritePong, SayClose, ControlsCounted
<1>2a. CASE WriteResult
  <2>1. Result \notin {Pong, CloseFrame} /\ wire' = Append(wire, Result) /\ controls' = controls
    BY <1>2a DEF WriteResult, Result, Pong, CloseFrame
  <2> HIDE DEF WP
  <2>2. /\ Len(wire') = Len(wire) + 1 /\ wire'[Len(wire) + 1] = Result
        /\ \A i \in 1..Len(wire) : wire'[i] = wire[i]
        /\ Len(wire) \in Nat
    BY <1>0, <2>1
  <2>3. \A i \in 1..Len(wire) + 1 : i \in 1..Len(wire) \/ i = Len(wire) + 1
    BY <2>2
  <2> QED
    BY <2>1, <2>2, <2>3 DEF ControlsCounted
<1>3. CASE Arrive
  <2>1. wire # <<>> /\ wire' = Tail(wire) /\ controls' = controls
    BY <1>3 DEF Arrive
  <2> HIDE DEF WP
  <2>2. /\ Len(wire') = Len(wire) - 1 /\ Len(wire) \in Nat
        /\ \A i \in 1..Len(wire) - 1 : wire'[i] = wire[i + 1] /\ i + 1 \in 1..Len(wire)
    BY <1>0, <2>1
  <2> QED
    BY <2>1, <2>2 DEF ControlsCounted
<1>4. CASE Upgrading
  <2>1. wire' = wire /\ controls' = controls
    BY <1>4 DEF SendInv, Upgrading, RelayAccepts, RelayRefuses, ClientOpens, ClientGivesUp,
                ReadsHeader
  <2> QED
    BY <2>1 DEF ControlsCounted
<1>5. ASSUME \/ \E w \in Writers : Begin(w)
             \/ CloseReceived \/ MarkClosed \/ CloseSocket \/ ProxyPings \/ ReadMessage
             \/ ReadFrame \/ SeeEnd \/ ReadAstray \/ UNCHANGED linkVars
      PROVE  ControlsCounted'
  <2>1. wire' = wire /\ controls' = controls
    BY <1>5 DEF Begin, Begins, CloseReceived, MarkClosed, CloseSocket, ProxyPings, ReadMessage,
                ReadFrame, SeeEnd, ReadAstray
  <2> QED
    BY <2>1 DEF ControlsCounted
<1> QED
  BY <1>1, <1>2, <1>2a, <1>3, <1>4, <1>5 DEF LinkNext, Receiving, Closing

LEMMA ShapeStep == LinkTypeOK /\ ComingShape /\ [LinkNext]_linkVars => ComingShape'
<1> SUFFICES ASSUME LinkTypeOK, ComingShape, [LinkNext]_linkVars
             PROVE  ComingShape'
  OBVIOUS
<1>1. CASE Arrive
  <2>1. Head(wire) \in Pieces \cup Others
    BY <1>1 DEF LinkTypeOK, Arrive
  <2>2. coming' = <<>> \/ (coming' = <<Head(wire)>> /\ Head(wire)[1] > 0 /\ Head(wire)[2] = 1)
    BY <1>1 DEF Arrive
  <2>3. Head(wire)[1] > 0 /\ Head(wire)[2] = 1 => \E n \in Frames : Head(wire) = <<n, 1>>
    BY <2>1 DEF Pieces, Pong, CloseFrame, Result, Others
  <2> QED
    BY <2>2, <2>3 DEF ComingShape
<1>2. ASSUME ~Arrive
      PROVE  ComingShape'
  <2>1. coming' = coming
    BY <1>2 DEF LinkNext, Receiving, Closing, Upgrading, RelayAccepts, RelayRefuses, ClientOpens,
         ClientGivesUp, Begin, Begins, WritePiece, WriteResult, WritePong, CloseReceived, MarkClosed, SayClose,
         CloseSocket, ProxyPings, ReadMessage, ReadFrame, SeeEnd, ReadAstray
  <2> QED
    BY <2>1 DEF ComingShape
<1> QED
  BY <1>1, <1>2

-----------------------------------------------------------------------------
(* What arrives keeps its order *)

LEMMA OrderInit == LinkInit => ArrivesInOrder
<1> SUFFICES ASSUME LinkInit PROVE ArrivesInOrder
  OBVIOUS
<1>1. ReadTo(0) /\ begun = 0 /\ Written = 0
  BY DEF LinkInit, ReadTo, Written
<1>2. \A R : Runs(<<>>, R, 0, 0)
  BY RunsEmpty
<1>3. ArrivedTo(0) /\ ComingTo(0, 0)
  BY <1>1, <1>2 DEF ArrivedTo, ComingTo, LinkInit
<1>4. 0 \in 0..begun /\ 2 * 0 = 0 /\ Reaches(0)
  BY <1>1 DEF Reaches
<1> QED
  BY <1>1, <1>3, <1>4 DEF ArrivesInOrder

\* What the sending end does keeps the order, if it takes what is on the wire to
\* what is written.
LEMMA OrderSent ==
    ASSUME LinkTypeOK, ArrivesInOrder,
           UNCHANGED <<got, header, buffer, parts, inbox, coming, astray>>,
           begun' \in Nat, begun <= begun',
           \A e, f \in Nat :
              Runs(wire, PieceCovers, e, f) /\ Reaches(f)
              => \E g \in Nat :
                    /\ Runs(wire', PieceCovers, e, g)
                    /\ Reaches(g)'
    PROVE  ArrivesInOrder'
<1>1. CASE Stranded
  BY <1>1 DEF Stranded, ArrivesInOrder
<1>2. CASE ~Stranded
  <2>1. PICK n \in 0..begun :
          /\ ArrivedTo(2 * n)
          /\ astray \/ \E f \in Nat :
               ComingTo(2 * n, f) /\ Reaches(f)
    BY <1>2 DEF ArrivesInOrder
  <2>2. n \in 0..begun'
    BY DEF LinkTypeOK
  <2>3. ArrivedTo(2 * n)'
    <3>1. \A a : ReadTo(a)' <=> ReadTo(a)
      BY DEF ReadTo
    <3> QED
      BY <2>1, <3>1 DEF ArrivedTo
  <2>4. ASSUME ~astray
        PROVE  \E g \in Nat : ComingTo(2 * n, g)' /\ Reaches(g)'
    <3>1. PICK f \in Nat :
            ComingTo(2 * n, f) /\ Reaches(f)
      BY <2>1, <2>4
    <3>2. PICK e \in Nat : Runs(coming, PieceCovers, 2 * n, e) /\ Runs(wire, PieceCovers, e, f)
      BY <3>1 DEF ComingTo
    <3>3. PICK g \in Nat :
            /\ Runs(wire', PieceCovers, e, g)
            /\ Reaches(g)'
      BY <3>1, <3>2
    <3> QED
      BY <3>2, <3>3 DEF ComingTo
  <2> QED
    BY <2>2, <2>3, <2>4 DEF ArrivesInOrder
<1> QED
  BY <1>1, <1>2

LEMMA OrderUpgrading ==
    ASSUME LinkTypeOK, SendInv, ArrivesInOrder, Upgrading
    PROVE  ArrivesInOrder'
<1>1. wire' = wire /\ UNCHANGED <<sendVars, closeVars, recvVars, coming, astray>>
  BY DEF SendInv, Upgrading, RelayAccepts, RelayRefuses, ClientOpens, ClientGivesUp, ReadsHeader
<1>2. begun \in Nat /\ \A f : Reaches(f)' <=> Reaches(f)
  BY <1>1 DEF Written, Reaches, LinkTypeOK
<1> QED
  BY <1>1, <1>2, OrderSent

LEMMA OrderBegin ==
    ASSUME LinkTypeOK, SendInv, ArrivesInOrder, NEW w \in Writers, Begin(w)
    PROVE  ArrivesInOrder'
<1>1. /\ lock = NoWriter /\ lock' = w /\ begun' = begun + 1 /\ left'[w] = 2 /\ begun \in Nat
      /\ UNCHANGED <<closeVars, recvVars, netVars>>
  BY DEF LinkTypeOK, Begin, Begins
<1>2. Written' = Written /\ Written = 2 * begun
  BY <1>1, NoWriterIsNone DEF Written
<1>3. socket = "open"
  BY DEF LinkTypeOK, SendInv, Begin, Begins
<1>4. ASSUME NEW f \in Nat, Reaches(f) PROVE Reaches(f)'
  BY <1>1, <1>2, <1>3, <1>4 DEF Reaches
<1> QED
  BY <1>1, <1>4, OrderSent

LEMMA OrderWritePiece ==
    ASSUME LinkTypeOK, SendInv, ArrivesInOrder, NEW w \in Writers, WritePiece(w)
    PROVE  ArrivesInOrder'
<1>1. /\ left[w] \in {1, 2} /\ lock = w /\ begun \in Frames /\ current[w] = begun
      /\ w # NoWriter /\ begun' = begun /\ begun \in Nat
      /\ UNCHANGED <<closeVars, recvVars, coming, astray>>
  BY NoWriterIsNone, LinkAssumption DEF LinkTypeOK, SendInv, WritePiece, Frames
<1>2. Written = 2 * begun - left[w] /\ Written \in Nat
  BY <1>1 DEF Written, Frames
<1>3. ASSUME socket = "open"
      PROVE  wire' = Append(wire, <<begun, 3 - left[w]>>) /\ Written' = Written + 1
  <2>1. left'[w] = left[w] - 1 /\ lock' = IF left[w] - 1 = 0 THEN NoWriter ELSE w
    BY <1>1, <1>3 DEF LinkTypeOK, WritePiece
  <2>2. wire' = Append(wire, <<begun, 3 - left[w]>>)
    BY <1>1, <1>3 DEF WritePiece
  <2>3. Written' = 2 * begun - (left[w] - 1)
    BY <1>1, <2>1 DEF Written
  <2> QED
    BY <1>1, <1>2, <2>2, <2>3
<1>4. ASSUME socket # "open"
      PROVE  wire' = wire /\ Written' = 2 * begun
  <2>1. lock' = NoWriter /\ wire' = wire
    BY <1>1, <1>4 DEF LinkTypeOK, WritePiece
  <2> QED
    BY <1>1, <2>1 DEF Written
<1>5. ASSUME NEW e \in Nat, NEW f \in Nat, Runs(wire, PieceCovers, e, f), Reaches(f)
      PROVE  \E g \in Nat :
                /\ Runs(wire', PieceCovers, e, g)
                /\ Reaches(g)'
  <2>1. CASE socket = "open"
    <3>1. <<<<begun, 3 - left[w]>>, f, f + 1>> \in PieceCovers
      <4>1. 3 - left[w] \in {1, 2} /\ f + 1 = 2 * begun - 2 + (3 - left[w])
        BY <1>1, <1>2, <1>5, <2>1 DEF Reaches
      <4> QED
        BY <1>1, <4>1, PieceCovered
    <3>2. /\ wire \in Seq(Pieces \cup Others)
          /\ <<begun, 3 - left[w]>> \in Pieces \cup Others
      BY <1>1 DEF LinkTypeOK, Pieces
    <3>3. Runs(Append(wire, <<begun, 3 - left[w]>>), PieceCovers, e, f + 1)
      BY <1>5, <3>1, <3>2, RunsAppend
    <3>4. f = Written /\ f + 1 \in Nat
      BY <1>5, <2>1 DEF Reaches
    <3>5. Reaches(f + 1)'
      <4>1. f + 1 = Written'
        BY <1>3, <2>1, <3>4
      <4>2. 2 * begun - 2 <= f
        BY <1>5 DEF Reaches
      <4>3. 2 * begun - 2 <= f + 1 /\ f + 1 <= f + 1
        BY <1>1, <3>4, <4>2
      <4> QED
        BY <1>1, <4>1, <4>3 DEF Reaches
    <3>6. wire' = Append(wire, <<begun, 3 - left[w]>>)
      BY <1>3, <2>1
    <3> QED
      BY <3>3, <3>4, <3>5, <3>6
  <2>2. CASE socket # "open"
    <3>1. Reaches(f)'
      BY <1>1, <1>2, <1>4, <1>5, <2>2 DEF Reaches
    <3> QED
      BY <1>4, <1>5, <2>2, <3>1
  <2> QED
    BY <2>1, <2>2
<1> QED
  BY <1>1, <1>5, OrderSent

LEMMA OrderControl ==
    ASSUME LinkTypeOK, ArrivesInOrder, WriteResult \/ WritePong \/ SayClose
    PROVE  ArrivesInOrder'
<1>1. PICK p \in Others : wire' = Append(wire, p)
  BY DEF WriteResult, WritePong, SayClose, Others
<1>2. UNCHANGED <<sendVars, socket, recvVars, coming, astray>> /\ begun \in Nat
  BY DEF LinkTypeOK, WriteResult, WritePong, SayClose
<1>3. \A f : Reaches(f)' <=> Reaches(f)
  BY <1>2 DEF Written, Reaches
<1>4. wire \in Seq(Pieces \cup Others)
  BY DEF LinkTypeOK
<1>5. ASSUME NEW e \in Nat, NEW f \in Nat, Runs(wire, PieceCovers, e, f)
      PROVE  Runs(wire', PieceCovers, e, f)
  <2>1. <<p, f, f>> \in PieceCovers
    BY ControlCovered
  <2> QED
    BY <1>1, <1>4, <1>5, <2>1, RunsAppend
<1> QED
  BY <1>2, <1>3, <1>5, OrderSent

LEMMA OrderClosing ==
    ASSUME LinkTypeOK, ArrivesInOrder,
           CloseReceived \/ MarkClosed \/ CloseSocket \/ SeeEnd \/ UNCHANGED linkVars
    PROVE  ArrivesInOrder'
<1>1. UNCHANGED <<sendVars, got, header, buffer, parts, inbox, coming, astray, wire>>
      /\ begun \in Nat /\ (socket' = socket \/ socket' = "closed")
  BY DEF LinkTypeOK, CloseReceived, MarkClosed, CloseSocket, SeeEnd
<1>2. ASSUME NEW f \in Nat, Reaches(f) PROVE Reaches(f)'
  BY <1>1, <1>2 DEF Written, Reaches
<1> QED
  BY <1>1, <1>2, OrderSent

LEMMA OrderProxyPings ==
    ASSUME LinkTypeOK, ArrivesInOrder, ProxyPings
    PROVE  ArrivesInOrder'
<1>1. PICK i \in 0..Len(inbox) :
         inbox' = SubSeq(inbox, 1, i) \o <<<<"ping", 0>>>> \o SubSeq(inbox, i + 1, Len(inbox))
  BY DEF ProxyPings
<1>2. ~astray /\ UNCHANGED <<sendVars, closeVars, parts, buffer, header, got, netVars>>
  BY DEF ProxyPings
<1>3. /\ \A f : Reaches(f)' <=> Reaches(f)
      /\ \A a : ReadTo(a)' <=> ReadTo(a)
      /\ \A a, b : ComingTo(a, b)' <=> ComingTo(a, b)
  BY <1>2 DEF Written, Reaches, ReadTo, ComingTo
<1>4. PICK n \in 0..begun :
        /\ ArrivedTo(2 * n)
        /\ \E f \in Nat :
             ComingTo(2 * n, f) /\ Reaches(f)
  BY <1>2 DEF ArrivesInOrder, Stranded
<1>5. PICK a \in Nat, b \in Nat, c \in Nat :
        /\ ReadTo(a)
        /\ Runs(buffer, PieceCovers, a, b)
        /\ Runs(parts, PieceCovers, b, c)
        /\ Runs(inbox, ItemCovers, c, 2 * n)
  BY <1>4 DEF ArrivedTo
<1>6. Runs(inbox', ItemCovers, c, 2 * n)
  <2>1. inbox \in Seq(Items) /\ <<"ping", 0>> \in Items
    BY DEF LinkTypeOK, Items, OtherItems
  <2>2. \A m \in Nat : <<<<"ping", 0>>, m, m>> \in ItemCovers
    BY OtherCovered DEF OtherItems
  <2>3. Runs(PutIn(inbox, i, <<"ping", 0>>), ItemCovers, c, 2 * n)
    BY <1>5, <2>1, <2>2, RunsInsert
  <2> QED
    BY <1>1, <2>3 DEF PutIn
<1>7. ArrivedTo(2 * n)'
  BY <1>2, <1>3, <1>5, <1>6 DEF ArrivedTo
<1> QED
  BY <1>2, <1>3, <1>4, <1>7 DEF ArrivesInOrder

LEMMA OrderArrive ==
    ASSUME LinkTypeOK, ComingShape, ArrivesInOrder, Arrive
    PROVE  ArrivesInOrder'
<1> DEFINE p == Head(wire)
           WP == Pieces \cup Others
           torn == coming # <<>> /\ p # <<coming[1][1], 2>>
<1>1. /\ ~astray /\ wire # <<>> /\ wire' = Tail(wire) /\ wire \in Seq(WP) /\ p \in WP
      /\ inbox \in Seq(Items)
      /\ UNCHANGED <<sendVars, closeVars, parts, buffer, header, got>>
  BY DEF LinkTypeOK, Arrive
<1>2. /\ \A g : Reaches(g)' <=> Reaches(g)
      /\ \A a : ReadTo(a)' <=> ReadTo(a)
      /\ begun \in Nat
  BY <1>1 DEF Written, Reaches, ReadTo, LinkTypeOK
<1>3. PICK n \in 0..begun :
        /\ ArrivedTo(2 * n)
        /\ \E f \in Nat :
             ComingTo(2 * n, f) /\ Reaches(f)
  BY <1>1 DEF ArrivesInOrder, Stranded
<1>4. PICK f \in Nat : ComingTo(2 * n, f) /\ Reaches(f)
  BY <1>3
<1>5. PICK e \in Nat : Runs(coming, PieceCovers, 2 * n, e) /\ Runs(wire, PieceCovers, e, f)
  BY <1>4 DEF ComingTo
<1>6. PICK m \in Nat :
        <<p, e, m>> \in PieceCovers /\ e <= m /\ Runs(wire', PieceCovers, m, f)
  BY <1>1, <1>5, RunsTail
<1>7. PICK a \in Nat, b \in Nat, c \in Nat :
        /\ ReadTo(a)
        /\ Runs(buffer, PieceCovers, a, b)
        /\ Runs(parts, PieceCovers, b, c)
        /\ Runs(inbox, ItemCovers, c, 2 * n)
  BY <1>3 DEF ArrivedTo
<1>8. n \in Nat /\ 2 * n \in Nat
  BY <1>2
<1>9. ASSUME NEW k \in 0..begun, Runs(inbox', ItemCovers, c, 2 * k),
             Runs(coming', PieceCovers, 2 * k, m)
      PROVE  ArrivesInOrder'
  <2>1. ArrivedTo(2 * k)'
    BY <1>1, <1>2, <1>7, <1>9 DEF ArrivedTo
  <2>2. ComingTo(2 * k, f)'
    BY <1>6, <1>9 DEF ComingTo
  <2> QED
    BY <1>1, <1>2, <1>4, <2>1, <2>2 DEF ArrivesInOrder
<1>10. CASE torn
  <2>1. astray' = TRUE /\ inbox' = inbox
    BY <1>10 DEF Arrive
  <2>2. ArrivedTo(2 * n)'
    BY <1>1, <1>2, <1>7, <2>1 DEF ArrivedTo
  <2> QED
    BY <1>1, <2>1, <2>2 DEF ArrivesInOrder
<1>11. CASE coming = <<>>
  <2>1. e = 2 * n
    BY <1>5, <1>8, <1>11, RunsEmpty
  <2>2. CASE p \in Others
    <3>1. m = 2 * n
      BY <1>6, <2>1, <2>2, ControlCovered
    <3>2. p[1] = 0 /\ ItemOf(p) \in OtherItems
      BY <2>2 DEF Others, Pong, CloseFrame, Result, ItemOf, OtherItems
    <3> HIDE DEF p
    <3>3. coming' = <<>> /\ inbox' = Append(inbox, ItemOf(p))
      BY <1>11, <3>2 DEF Arrive, p
    <3>4. PICK x \in OtherItems : inbox' = Append(inbox, x)
      BY <3>2, <3>3
    <3>5. x \in Items /\ <<x, 2 * n, 2 * n>> \in ItemCovers
      BY <1>8, OtherCovered DEF Items
    <3>6. Runs(Append(inbox, x), ItemCovers, c, 2 * n)
      BY <1>1, <1>7, <1>8, <3>5, RunsAppend
    <3>7. Runs(coming', PieceCovers, 2 * n, m)
      BY <1>8, <3>1, <3>3, RunsEmpty
    <3> QED
      BY <1>9, <3>4, <3>6, <3>7
  <2>3. ASSUME NEW i \in Frames, p = <<i, 1>>
        PROVE  ArrivesInOrder'
    <3>1. m = 2 * n + 1
      <4>1. <<<<i, 1>>, 2 * n, m>> \in PieceCovers
        BY <1>6, <2>1, <2>3
      <4> QED
        BY <4>1, HalfCovered
    <3>2. i > 0 /\ p[1] = i /\ p[2] = 1 /\ p \notin Others
      BY <2>3 DEF Frames, Pong, CloseFrame, Result, Others
    <3>3. coming' = <<p>> /\ inbox' = inbox
      BY <1>11, <3>2 DEF Arrive
    <3>4. Runs(coming', PieceCovers, 2 * n, m)
      BY <1>6, <1>8, <2>1, <3>1, <3>3, RunsOne
    <3> QED
      BY <1>7, <1>9, <3>3, <3>4
  <2>4. ASSUME NEW i \in Frames, p = <<i, 2>>
        PROVE  FALSE
    <3>1. <<<<i, 2>>, 2 * n, m>> \in PieceCovers
      BY <1>6, <2>1, <2>4
    <3>2. m = 2 * i /\ 2 * n + 1 = m
      BY <3>1, HalfCovered
    <3> QED
      BY <1>8, <3>2 DEF Frames
  <2> QED
    BY <1>1, <2>2, <2>3, <2>4 DEF Pieces
<1>12. CASE coming # <<>> /\ ~torn
  <2>1. PICK i \in Frames : coming = <<<<i, 1>>>>
    BY <1>12 DEF ComingShape
  <2>2. p = <<i, 2>> /\ i > 0 /\ i \in Nat
    BY <1>12, <2>1 DEF Frames
  <2>3. e = 2 * i - 1 /\ 2 * n + 1 = e
    <3>1. <<<<i, 1>>, 2 * n, e>> \in PieceCovers
      BY <1>5, <1>8, <2>1, RunsOne
    <3>2. e = 2 * i - 1 /\ 2 * n + 1 = e
      BY <3>1, HalfCovered
    <3> QED
      BY <2>2, <3>2
  <2>4. m = 2 * i
    <3>1. <<<<i, 2>>, e, m>> \in PieceCovers
      BY <1>6, <2>2
    <3> QED
      BY <3>1, HalfCovered
  <2>5. i = n + 1 /\ 2 * i - 2 = 2 * n
    BY <1>8, <2>2, <2>3
  <2>6. i \in 0..begun
    <3>1. m <= f
      <4>1. wire' \in Seq(WP)
        BY <1>1
      <4> HIDE DEF WP
      <4> QED
        BY <1>6, <4>1, RunsGrow
    <3>2. Written <= 2 * begun /\ Written \in Int
      <4>1. lock # NoWriter => left[lock] \in 0..2
        BY DEF LinkTypeOK
      <4> QED
        BY <1>2, <4>1 DEF Written
    <3> QED
      BY <1>2, <1>4, <2>2, <2>4, <3>1, <3>2 DEF Reaches
  <2>7. coming' = <<>>
    <3>1. p[2] # 1
      BY <2>2
    <3> HIDE DEF p
    <3> QED
      BY <3>1 DEF Arrive, p
  <2>8. Runs(coming', PieceCovers, 2 * i, m)
    BY <2>2, <2>4, <2>7, RunsEmpty
  <2>9. \/ inbox' = Append(inbox, <<"whole", i>>)
        \/ inbox' = inbox \o <<<<"first", i>>, <<"rest", i>>>>
    <3>1. p[1] = i /\ p[2] = 2 /\ p \notin Others /\ p[2] # 1
      BY <2>2 DEF Pong, CloseFrame, Result, Others
    <3>2. ~torn
      BY <1>12
    <3> HIDE DEF p, torn
    <3> QED
      BY <3>1, <3>2 DEF Arrive, p, torn
  <2>10. /\ <<"whole", i>> \in Items /\ <<"first", i>> \in Items /\ <<"rest", i>> \in Items
         /\ 2 * i \in Nat /\ 2 * i - 1 \in Nat /\ 2 * n <= 2 * i /\ 2 * n <= 2 * i - 1
         /\ 2 * i - 1 <= 2 * i
    BY <1>8, <2>2, <2>5 DEF Items
  <2>11. /\ <<<<"whole", i>>, 2 * n, 2 * i>> \in ItemCovers
         /\ <<<<"first", i>>, 2 * n, 2 * i - 1>> \in ItemCovers
         /\ <<<<"rest", i>>, 2 * i - 1, 2 * i>> \in ItemCovers
    <3>1. 2 * n \in Nat /\ 2 * n = 2 * i - 2 /\ 2 * i - 1 \in Nat
      BY <1>8, <2>5, <2>10
    <3> DEFINE u == 2 * n
               v == 2 * i
               w == 2 * i - 1
    <3>2. u \in Nat /\ w \in Nat /\ u = 2 * i - 2 /\ w = 2 * i - 1 /\ v = 2 * i
      BY <3>1
    <3> HIDE DEF u, v, w
    <3>3. <<<<"whole", i>>, u, v>> \in ItemCovers <=> u \in Nat /\ u = 2 * i - 2 /\ v = 2 * i
      BY FrameCovered
    <3>4. <<<<"first", i>>, u, w>> \in ItemCovers <=> u \in Nat /\ u = 2 * i - 2 /\ w = 2 * i - 1
      BY FrameCovered
    <3>5. <<<<"rest", i>>, w, v>> \in ItemCovers <=> w \in Nat /\ w = 2 * i - 1 /\ v = 2 * i
      BY FrameCovered
    <3> QED
      BY <3>2, <3>3, <3>4, <3>5 DEF u, v, w
  <2>12. Runs(inbox', ItemCovers, c, 2 * i)
    <3>1. CASE inbox' = Append(inbox, <<"whole", i>>)
      BY <1>1, <1>7, <2>10, <2>11, <3>1, RunsAppend
    <3>2. CASE inbox' = inbox \o <<<<"first", i>>, <<"rest", i>>>>
      <4>1. inbox' = Append(Append(inbox, <<"first", i>>), <<"rest", i>>)
            /\ Append(inbox, <<"first", i>>) \in Seq(Items)
        <5>1. Append(inbox, <<"first", i>>) \in Seq(Items)
          BY <1>1, <2>10, SeqTyped
        <5>2. inbox \o <<<<"first", i>>, <<"rest", i>>>>
              = Append(Append(inbox, <<"first", i>>), <<"rest", i>>)
          <6> DEFINE x == <<"first", i>>
                     y == <<"rest", i>>
          <6>1. inbox \in Seq(Items) /\ x \in Items /\ y \in Items
            BY <1>1, <2>10
          <6> HIDE DEF x, y
          <6>2. inbox \o <<x, y>> = Append(Append(inbox, x), y)
            BY <6>1, SeqTwo
          <6> QED
            BY <6>2 DEF x, y
        <5> QED
          BY <3>2, <5>1, <5>2
      <4>2. Runs(Append(inbox, <<"first", i>>), ItemCovers, c, 2 * i - 1)
        BY <1>1, <1>7, <2>10, <2>11, RunsAppend
      <4> QED
        BY <2>10, <2>11, <4>1, <4>2, RunsAppend
    <3> QED
      BY <2>9, <3>1, <3>2
  <2> QED
    BY <1>9, <2>6, <2>8, <2>12
<1> QED
  BY <1>10, <1>11, <1>12

\* What lies behind the wire stays, while the receiver reads.
LEMMA OrderReceived ==
    ASSUME LinkTypeOK, UNCHANGED <<sendVars, closeVars, netVars>>, NEW n \in 0..begun,
           astray \/ \E f \in Nat :
             ComingTo(2 * n, f) /\ Reaches(f),
           ArrivedTo(2 * n)'
    PROVE  ArrivesInOrder'
<1>1. /\ begun' = begun /\ astray' = astray
      /\ \A f : Reaches(f)' <=> Reaches(f)
      /\ \A a, b : ComingTo(a, b)' <=> ComingTo(a, b)
  BY DEF Written, Reaches, ComingTo
<1> QED
  BY <1>1 DEF ArrivesInOrder

LEMMA OrderReadMessage ==
    ASSUME LinkTypeOK, ArrivesInOrder, ReadMessage
    PROVE  ArrivesInOrder'
<1>1. /\ buffer = <<>> /\ inbox # <<>> /\ inbox' = Tail(inbox) /\ inbox \in Seq(Items)
      /\ parts \in Seq(Pieces) /\ UNCHANGED <<sendVars, closeVars, netVars, header, got>>
  BY DEF LinkTypeOK, ReadMessage
<1>2. PICK n \in 0..begun :
        /\ ArrivedTo(2 * n)
        /\ astray \/ \E f \in Nat :
             ComingTo(2 * n, f) /\ Reaches(f)
  BY <1>1 DEF ArrivesInOrder, Stranded
<1>3. PICK a \in Nat, b \in Nat, c \in Nat :
        /\ ReadTo(a)
        /\ Runs(buffer, PieceCovers, a, b)
        /\ Runs(parts, PieceCovers, b, c)
        /\ Runs(inbox, ItemCovers, c, 2 * n)
  BY <1>2 DEF ArrivedTo
<1>4. a = b
  BY <1>1, <1>3, RunsEmpty
<1>5. PICK m \in Nat :
        <<Head(inbox), c, m>> \in ItemCovers /\ c <= m /\ Runs(inbox', ItemCovers, m, 2 * n)
  BY <1>1, <1>3, RunsTail
<1>6. ASSUME NEW k \in Nat, Runs(buffer', PieceCovers, a, k), Runs(parts', PieceCovers, k, m)
      PROVE  ArrivesInOrder'
  <2>1. ReadTo(a)'
    BY <1>1, <1>3 DEF ReadTo
  <2>2. ArrivedTo(2 * n)'
    BY <1>5, <1>6, <2>1 DEF ArrivedTo
  <2> QED
    BY <1>1, <1>2, <2>2, OrderReceived
<1>7. ASSUME NEW i \in Frames, NEW op \in {"whole", "first", "rest"}, Head(inbox) = <<op, i>>
      PROVE  ArrivesInOrder'
  <2>1. /\ <<i, 1>> \in Pieces /\ <<i, 2>> \in Pieces /\ i \in Nat /\ i > 0
        /\ 2 * i \in Nat /\ 2 * i - 1 \in Nat /\ 2 * i - 2 \in Nat
    BY DEF Pieces, Frames
  <2>2. /\ <<<<i, 1>>, 2 * i - 2, 2 * i - 1>> \in PieceCovers
        /\ <<<<i, 2>>, 2 * i - 1, 2 * i>> \in PieceCovers
    <3>1. 2 * i - 1 + 1 = 2 * i /\ 2 * i - 2 + 1 = 2 * i - 1
      BY <2>1
    <3> DEFINE u == 2 * i - 2
               v == 2 * i - 1
               w == 2 * i
    <3>2. u \in Nat /\ v \in Nat /\ u + 1 = v /\ v + 1 = w /\ v = 2 * i - 1 /\ w = 2 * i
      BY <2>1, <3>1
    <3> HIDE DEF u, v, w
    <3>3. /\ <<<<i, 1>>, u, v>> \in PieceCovers <=> u \in Nat /\ v = 2 * i - 1 /\ u + 1 = v
          /\ <<<<i, 2>>, v, w>> \in PieceCovers <=> v \in Nat /\ w = 2 * i /\ v + 1 = w
      BY HalfCovered
    <3> QED
      BY <3>2, <3>3 DEF u, v, w
  <2>3. 2 * i - 2 <= 2 * i - 1 /\ 2 * i - 1 <= 2 * i
    BY <2>1
  <2>4. /\ op = "whole" => c = 2 * i - 2 /\ m = 2 * i
        /\ op = "first" => c = 2 * i - 2 /\ m = 2 * i - 1
        /\ op = "rest" => c = 2 * i - 1 /\ m = 2 * i
    <3>1. <<<<op, i>>, c, m>> \in ItemCovers
      BY <1>5, <1>7
    <3>2. CASE op = "whole"
      <4>1. <<<<"whole", i>>, c, m>> \in ItemCovers
        BY <3>1, <3>2
      <4>2. c = 2 * i - 2 /\ m = 2 * i
        BY <4>1, FrameCovered
      <4> QED
        BY <3>2, <4>2
    <3>3. CASE op = "first"
      <4>1. <<<<"first", i>>, c, m>> \in ItemCovers
        BY <3>1, <3>3
      <4>2. c = 2 * i - 2 /\ m = 2 * i - 1
        BY <4>1, FrameCovered
      <4> QED
        BY <3>3, <4>2
    <3>4. CASE op = "rest"
      <4>1. <<<<"rest", i>>, c, m>> \in ItemCovers
        BY <3>1, <3>4
      <4>2. c = 2 * i - 1 /\ m = 2 * i
        BY <4>1, FrameCovered
      <4> QED
        BY <3>4, <4>2
    <3> QED
      BY <3>2, <3>3, <3>4
  <2> DEFINE hd == Head(inbox)
  <2>5. hd[1] = op /\ hd[2] = i
    BY <1>7
  <2> HIDE DEF hd
  <2>6. CASE op = "whole"
    <3>1. buffer' = parts \o <<<<i, 1>>, <<i, 2>>>> /\ parts' = <<>>
      BY <2>5, <2>6 DEF ReadMessage, hd
    <3>2. /\ buffer' = Append(Append(parts, <<i, 1>>), <<i, 2>>)
          /\ Append(parts, <<i, 1>>) \in Seq(Pieces)
      <4>1. Append(parts, <<i, 1>>) \in Seq(Pieces)
        BY <1>1, <2>1, SeqTyped
      <4>2. parts \o <<<<i, 1>>, <<i, 2>>>> = Append(Append(parts, <<i, 1>>), <<i, 2>>)
        <5> DEFINE x == <<i, 1>>
                   y == <<i, 2>>
        <5>1. parts \in Seq(Pieces) /\ x \in Pieces /\ y \in Pieces
          BY <1>1, <2>1
        <5> HIDE DEF x, y
        <5>2. parts \o <<x, y>> = Append(Append(parts, x), y)
          BY <5>1, SeqTwo
        <5> QED
          BY <5>2 DEF x, y
      <4> QED
        BY <3>1, <4>1, <4>2
    <3>3. Runs(Append(parts, <<i, 1>>), PieceCovers, a, 2 * i - 1)
      BY <1>1, <1>3, <1>4, <2>1, <2>2, <2>3, <2>4, <2>6, RunsAppend
    <3>4. Runs(buffer', PieceCovers, a, 2 * i)
      BY <2>1, <2>2, <2>3, <3>2, <3>3, RunsAppend
    <3>5. Runs(parts', PieceCovers, 2 * i, m)
      BY <2>1, <2>4, <2>6, <3>1, RunsEmpty
    <3> QED
      BY <1>6, <2>1, <3>4, <3>5
  <2>7. CASE op = "first"
    <3>1. buffer' = buffer /\ parts' = Append(parts, <<i, 1>>)
      BY <2>5, <2>7 DEF ReadMessage, hd
    <3>2. Runs(parts', PieceCovers, a, m)
      BY <1>1, <1>3, <1>4, <2>1, <2>2, <2>3, <2>4, <2>7, <3>1, RunsAppend
    <3>3. Runs(buffer', PieceCovers, a, a)
      BY <1>1, <3>1, RunsEmpty
    <3> QED
      BY <1>6, <3>2, <3>3
  <2>8. CASE op = "rest"
    <3>1. buffer' = Append(parts, <<i, 2>>) /\ parts' = <<>>
      BY <2>5, <2>8 DEF ReadMessage, hd
    <3>2. Runs(buffer', PieceCovers, a, m)
      BY <1>1, <1>3, <1>4, <2>1, <2>2, <2>3, <2>4, <2>8, <3>1, RunsAppend
    <3>3. Runs(parts', PieceCovers, m, m)
      BY <3>1, RunsEmpty
    <3> QED
      BY <1>6, <3>2, <3>3
  <2> QED
    BY <2>6, <2>7, <2>8
<1>8. ASSUME Head(inbox) \in OtherItems
      PROVE  ArrivesInOrder'
  <2>1. c = m
    BY <1>5, <1>8, OtherCovered
  <2>2. Head(inbox)[1] \notin {"whole", "first", "rest"}
    BY <1>8 DEF OtherItems
  <2>3. UNCHANGED <<buffer, parts>>
    BY <2>2 DEF ReadMessage, OnControl
  <2> QED
    BY <1>3, <1>6, <2>1, <2>3
<1> QED
  BY <1>1, <1>7, <1>8, HeadOfInbox

\* What read_frame returns is the next frame, which was begun.
LEMMA NextPiece ==
    ASSUME LinkTypeOK, ArrivesInOrder, ReadFrame
    PROVE  /\ ArrivesInOrder'
           /\ \/ header = 0 /\ header' = Len(got) + 1 /\ got' = got
              \/ header' = 0 /\ got' = Append(got, Len(got) + 1) /\ Len(got) < begun
<1> DEFINE p == Head(buffer)
<1>1. /\ buffer # <<>> /\ buffer' = Tail(buffer) /\ buffer \in Seq(Pieces) /\ p \in Pieces
      /\ parts \in Seq(Pieces) /\ inbox \in Seq(Items) /\ Len(got) \in Nat
      /\ got \in Seq(0..MaxFrames) /\ begun \in Nat
      /\ UNCHANGED <<sendVars, closeVars, netVars, inbox, parts>>
  BY DEF LinkTypeOK, ReadFrame
<1>2. PICK n \in 0..begun :
        /\ ArrivedTo(2 * n)
        /\ astray \/ \E f \in Nat :
             ComingTo(2 * n, f) /\ Reaches(f)
  BY <1>1 DEF ArrivesInOrder, Stranded
<1>3. PICK a \in Nat, b \in Nat, c \in Nat :
        /\ ReadTo(a)
        /\ Runs(buffer, PieceCovers, a, b)
        /\ Runs(parts, PieceCovers, b, c)
        /\ Runs(inbox, ItemCovers, c, 2 * n)
  BY <1>2 DEF ArrivedTo
<1>4. PICK m \in Nat :
        <<p, a, m>> \in PieceCovers /\ a <= m /\ Runs(buffer', PieceCovers, m, b)
  BY <1>1, <1>3, RunsTail
<1>5. m <= 2 * n
  <2>1. m <= b
    <3>1. buffer' \in Seq(Pieces)
      BY <1>1
    <3> QED
      BY <1>4, <3>1, RunsGrow
  <2>2. b <= c
    BY <1>1, <1>3, RunsGrow
  <2>3. c <= 2 * n
    BY <1>1, <1>3, RunsGrow
  <2> QED
    BY <1>2, <2>1, <2>2, <2>3
<1>6. ASSUME ReadTo(m)'
      PROVE  ArrivesInOrder'
  <2>1. ArrivedTo(2 * n)'
    BY <1>1, <1>3, <1>4, <1>6 DEF ArrivedTo
  <2> QED
    BY <1>1, <1>2, <2>1, OrderReceived
<1>7. PICK i \in Frames, k \in {1, 2} : p = <<i, k>>
  BY <1>1 DEF Pieces
<1>8. i \in Nat /\ i > 0 /\ p[1] = i /\ p[2] = k
  BY <1>7 DEF Frames
<1>9. <<<<i, k>>, a, m>> \in PieceCovers
  BY <1>4, <1>7
<1>10. (k = 1 => m = 2 * i - 1) /\ (k = 2 => m = 2 * i) /\ a + 1 = m
  BY <1>9, HalfCovered
<1> DEFINE g == Len(got)
<1>11. g \in Nat
  BY <1>1
<1> HIDE DEF p, g
<1>12. CASE header = 0 /\ a = 2 * g
  <2>1. k = 1 /\ i = g + 1
    BY <1>7, <1>8, <1>10, <1>11, <1>12
  <2>2. header' = g + 1 /\ got' = got
    BY <1>8, <1>12, <2>1 DEF ReadFrame, p
  <2>3. ReadTo(m)'
    BY <1>10, <1>11, <1>12, <2>2 DEF ReadTo, g
  <2> QED
    BY <1>6, <1>12, <2>2, <2>3 DEF g
<1>13. CASE header = g + 1 /\ a = 2 * g + 1
  <2>1. k = 2 /\ i = g + 1 /\ header # 0
    BY <1>7, <1>8, <1>10, <1>11, <1>13
  <2>2. p = <<header, 2>>
    BY <1>7, <1>13, <2>1
  <2>3. header' = 0 /\ got' = Append(got, g + 1)
    BY <1>13, <2>1, <2>2 DEF ReadFrame, p
  <2>4. Len(got') = g + 1
    BY <1>1, <1>11, <2>3 DEF g
  <2>5. m = 2 * (g + 1)
    BY <1>10, <1>11, <1>13
  <2>6. ReadTo(m)'
    BY <2>3, <2>4, <2>5 DEF ReadTo
  <2>7. g < begun
    BY <1>1, <1>2, <1>5, <1>11, <2>5
  <2> QED
    BY <1>6, <2>3, <2>6, <2>7 DEF g
<1> QED
  BY <1>3, <1>12, <1>13 DEF ReadTo, g

LEMMA OrderReadAstray ==
    ASSUME ArrivesInOrder, ReadAstray
    PROVE  ArrivesInOrder'
  BY DEF ReadAstray, ArrivesInOrder, Stranded

LEMMA OrderStep ==
    LinkTypeOK /\ SendInv /\ ComingShape /\ ArrivesInOrder /\ [LinkNext]_linkVars
    => ArrivesInOrder'
  BY OrderUpgrading, OrderBegin, OrderWritePiece, OrderControl, OrderClosing, OrderProxyPings,
     OrderArrive, OrderReadMessage, NextPiece, OrderReadAstray DEF LinkNext, Receiving, Closing

-----------------------------------------------------------------------------
(* The CLOSE.  It is once on its way, and overtakes nothing.                *)

\* x is once in q, and behind it there is only T
EndsWith(q, x, T) ==
    \E i \in 1..Len(q) :
        /\ q[i] = x
        /\ \A j \in 1..i - 1 : q[j] # x
        /\ \A j \in i + 1..Len(q) : q[j] \in T

LEMMA SeqRestricted ==
    ASSUME NEW S, NEW q \in Seq(S), NEW T, \A i \in 1..Len(q) : q[i] \in T
    PROVE  q \in Seq(T)
  OBVIOUS

LEMMA EndsNow ==
    ASSUME NEW S, NEW x \in S, NEW q \in Seq(S \ {x}), NEW T
    PROVE  EndsWith(Append(q, x), x, T)
<1> DEFINE r == Append(q, x)
           l == Len(q)
<1>1. /\ l \in Nat /\ Len(r) = l + 1 /\ r[l + 1] = x
      /\ \A i \in 1..l : r[i] = q[i]
  BY ItemsAppend
<1>2. \A i \in 1..l : q[i] # x
  OBVIOUS
<1> HIDE DEF r, l
<1>3. l + 1 \in 1..Len(r) /\ l + 1 - 1 = l /\ \A j \in l + 1 + 1..Len(r) : FALSE
  BY <1>1
<1> QED
  BY <1>1, <1>2, <1>3 DEF EndsWith, r

LEMMA EndsAppend ==
    ASSUME NEW S, NEW q \in Seq(S), NEW x, NEW T, EndsWith(q, x, T), NEW y \in S, y \in T
    PROVE  EndsWith(Append(q, y), x, T)
<1> DEFINE r == Append(q, y)
           l == Len(q)
<1>1. /\ l \in Nat /\ Len(r) = l + 1 /\ r[l + 1] = y
      /\ \A i \in 1..l : r[i] = q[i]
  BY ItemsAppend
<1>2. PICK i \in 1..l :
        q[i] = x /\ (\A j \in 1..i - 1 : q[j] # x) /\ \A j \in i + 1..l : q[j] \in T
  BY DEF EndsWith
<1> HIDE DEF r, l
<1>3. i \in 1..Len(r) /\ r[i] = x /\ \A j \in 1..i - 1 : r[j] # x
  <2>1. i \in 1..Len(r) /\ \A j \in 1..i - 1 : j \in 1..l
    BY <1>1, <1>2
  <2> QED
    BY <1>1, <1>2, <2>1
<1>4. ASSUME NEW j \in i + 1..Len(r) PROVE r[j] \in T
  <2>1. j = l + 1 \/ (j \in i + 1..l /\ j \in 1..l)
    BY <1>1
  <2> QED
    BY <1>1, <1>2, <2>1
<1> QED
  BY <1>3, <1>4 DEF EndsWith, r

LEMMA EndsTail ==
    ASSUME NEW S, NEW q \in Seq(S), NEW x, NEW T, EndsWith(q, x, T), q # <<>>
    PROVE  \/ Head(q) = x /\ Tail(q) \in Seq(T)
           \/ Head(q) # x /\ EndsWith(Tail(q), x, T)
<1> DEFINE r == Tail(q)
           l == Len(q)
<1>1. /\ l \in Nat \ {0} /\ Len(r) = l - 1 /\ Head(q) = q[1]
      /\ \A i \in 1..Len(r) : r[i] = q[i + 1]
      /\ r \in Seq(S)
  BY ItemsTail
<1>2. PICK i \in 1..l :
        q[i] = x /\ (\A j \in 1..i - 1 : q[j] # x) /\ \A j \in i + 1..l : q[j] \in T
  BY DEF EndsWith
<1> HIDE DEF r, l
<1>3. CASE i = 1
  <2>1. \A j \in 1..Len(r) : r[j] \in T
    <3> SUFFICES ASSUME NEW j \in 1..Len(r) PROVE r[j] \in T
      OBVIOUS
    <3>1. j + 1 \in i + 1..l
      BY <1>1, <1>3
    <3> QED
      BY <1>1, <1>2, <3>1
  <2>2. r \in Seq(T)
    BY <1>1, <2>1, SeqRestricted
  <2> QED
    BY <1>1, <1>2, <1>3, <2>2 DEF r
<1>4. CASE i # 1
  <2>1. i - 1 \in 1..Len(r) /\ r[i - 1] = q[i - 1 + 1] /\ i - 1 + 1 = i
    BY <1>1, <1>4
  <2>2. ASSUME NEW j \in i - 1 + 1..Len(r) PROVE r[j] \in T
    <3>1. j \in 1..Len(r) /\ j + 1 \in i + 1..l
      BY <1>1
    <3> QED
      BY <1>1, <1>2, <3>1
  <2>3. ASSUME NEW j \in 1..i - 1 - 1 PROVE r[j] # x
    <3>1. j \in 1..Len(r) /\ j + 1 \in 1..i - 1
      BY <1>1
    <3> QED
      BY <1>1, <1>2, <3>1
  <2>4. 1 \in 1..i - 1
    BY <1>1, <1>4
  <2> QED
    BY <1>1, <1>2, <2>1, <2>2, <2>3, <2>4 DEF EndsWith, r
<1> QED
  BY <1>3, <1>4

LEMMA EndsInserted ==
    ASSUME NEW S, NEW q \in Seq(S), NEW x, NEW T, EndsWith(q, x, T), NEW y \in S, y \in T, y # x,
           NEW k \in 0..Len(q)
    PROVE  EndsWith(PutIn(q, k, y), x, T)
<1> DEFINE r == PutIn(q, k, y)
           l == Len(q)
<1>1. /\ l \in Nat /\ Len(r) = l + 1 /\ k \in 0..l
      /\ \A i \in 1..l + 1 : r[i] = IF i <= k THEN q[i] ELSE IF i = k + 1 THEN y ELSE q[i - 1]
  BY InPlace
<1>2. PICK i \in 1..l :
        q[i] = x /\ (\A j \in 1..i - 1 : q[j] # x) /\ \A j \in i + 1..l : q[j] \in T
  BY DEF EndsWith
<1> HIDE DEF r, l
<1>3. ASSUME NEW j \in 1..l + 1, (IF i <= k THEN i ELSE i + 1) < j
      PROVE  r[j] \in T
  <2>1. CASE j <= k
    <3>1. j \in i + 1..l
      BY <1>1, <1>3, <2>1
    <3> QED
      BY <1>1, <1>2, <2>1, <3>1
  <2>2. CASE j = k + 1
    <3>1. ~(j <= k)
      BY <1>1, <2>2
    <3> QED
      BY <1>1, <2>2, <3>1
  <2>3. CASE j > k + 1
    <3>1. ~(j <= k) /\ j # k + 1 /\ j - 1 \in i + 1..l
      BY <1>1, <1>3, <2>3
    <3> QED
      BY <1>1, <1>2, <3>1
  <2> QED
    BY <1>1, <2>1, <2>2, <2>3
<1>4. CASE i <= k
  <2>1. i \in 1..l + 1 /\ r[i] = x
    BY <1>1, <1>2, <1>4
  <2>2. \A j \in i + 1..l + 1 : j \in 1..l + 1 /\ i < j
    BY <1>1, <1>2
  <2>3. ASSUME NEW j \in 1..i - 1 PROVE r[j] # x
    <3>1. j \in 1..l + 1 /\ j <= k
      BY <1>1, <1>4
    <3> QED
      BY <1>1, <1>2, <3>1
  <2> QED
    BY <1>1, <1>3, <1>4, <2>1, <2>2, <2>3 DEF EndsWith, r
<1>5. CASE ~(i <= k)
  <2>1. i + 1 \in 1..l + 1 /\ ~(i + 1 <= k) /\ i + 1 # k + 1 /\ i + 1 - 1 = i
    BY <1>1, <1>5
  <2>2. r[i + 1] = x
    BY <1>1, <1>2, <2>1
  <2>3. \A j \in i + 1 + 1..l + 1 : j \in 1..l + 1 /\ i + 1 < j
    BY <1>1, <1>2
  <2>4. ASSUME NEW j \in 1..i + 1 - 1 PROVE r[j] # x
    <3>1. j \in 1..l + 1 /\ (j > k + 1 => ~(j <= k) /\ j # k + 1 /\ j - 1 \in 1..i - 1)
          /\ (j <= k => j \in 1..i - 1)
      BY <1>1, <1>5
    <3>2. j <= k \/ j = k + 1 \/ j > k + 1
      BY <1>1
    <3>3. j = k + 1 => ~(j <= k)
      BY <1>1
    <3> QED
      BY <1>1, <1>2, <3>1, <3>2, <3>3
  <2> QED
    BY <1>1, <1>3, <1>5, <2>1, <2>2, <2>3, <2>4 DEF EndsWith, r
<1> QED
  BY <1>4, <1>5

\* the relay has sent its CLOSE
Said == readerAt = "said" \/ socket = "closed"

\* what there is of the last frame that was begun
LastPieces == {p \in Pieces : p[1] = begun}
LastItems == {x \in Items : x[1] = "ping" \/ (x[1] \in {"whole", "first", "rest"} /\ x[2] = begun)}

NoClose == inbox \in Seq(Items \ {<<"close", 0>>})

\* Where the CLOSE is: not yet sent; on the wire; among what has arrived; or read.
\* Behind it there is nothing but what a thread has written of the last frame.
CloseLies ==
    \/ astray
    \/ ~Said /\ ~rclosed /\ NoClose /\ wire \in Seq(Pieces \cup {Pong, Result})
    \/ Said /\ ~rclosed /\ NoClose /\ EndsWith(wire, CloseFrame, LastPieces)
    \/ /\ Said /\ wire \in Seq(LastPieces) /\ coming \in Seq(LastPieces)
       /\ \/ ~rclosed /\ EndsWith(inbox, <<"close", 0>>, LastItems)
          \/ rclosed /\ inbox \in Seq(LastItems)

CloseInv ==
    /\ socket = "closed" => readerAt = "ended"
    /\ parts \in Seq(Frames \X {1})
    /\ CloseLies

LEMMA CloseInit == LinkInit => CloseInv
<1> SUFFICES ASSUME LinkInit PROVE CloseInv
  OBVIOUS
<1>1. \A S : <<>> \in Seq(S)
  OBVIOUS
<1> QED
  BY <1>1 DEF LinkInit, CloseInv, CloseLies, Said, NoClose

\* a CLOSE is no piece, and no piece of a frame is a control frame
LEMMA PiecesApart ==
    /\ Pong \notin Pieces /\ CloseFrame \notin Pieces /\ Result \notin Pieces
    /\ Pong # CloseFrame /\ Pong # Result /\ Result # CloseFrame
    /\ \A p \in Pieces : p[1] \in Frames /\ p[1] > 0 /\ p[2] \in {1, 2} /\ p = <<p[1], p[2]>>
    /\ LastPieces \subseteq Pieces
    /\ <<"close", 0>> \notin LastItems /\ LastItems \subseteq Items
    /\ <<"ping", 0>> \in LastItems /\ <<"ping", 0>> # <<"close", 0>>
<1>1. LinkAssumption
  BY LinkAssumption
<1>2. <<"ping", 0>> \in Items /\ <<"ping", 0>>[1] = "ping" /\ <<"close", 0>>[1] = "close"
  BY DEF Items, OtherItems
<1>3. \A n \in Frames : n \in Nat /\ n > 0
  BY <1>1 DEF Frames
<1> QED
  BY <1>2, <1>3 DEF Pong, CloseFrame, Result, Pieces, LastPieces, LastItems

LEMMA CloseUnsaid ==
    ASSUME CloseInv, ~Said, ~Said',
           UNCHANGED <<astray, rclosed, inbox, parts>>,
           socket' = "closed" => readerAt' = "ended",
           wire \in Seq(Pieces \cup {Pong, Result}) => wire' \in Seq(Pieces \cup {Pong, Result})
    PROVE  CloseInv'
  BY DEF CloseInv, CloseLies, NoClose

LEMMA CloseWritePiece ==
    ASSUME LinkTypeOK, SendInv, CloseInv, NEW w \in Writers, WritePiece(w)
    PROVE  CloseInv'
<1>1. /\ left[w] \in {1, 2} /\ begun \in Frames /\ current[w] = begun /\ begun' = begun
      /\ UNCHANGED <<closeVars, recvVars, coming, astray>>
  BY NoWriterIsNone, LinkAssumption DEF LinkTypeOK, SendInv, WritePiece, Frames
<1> DEFINE p == <<begun, 3 - left[w]>>
<1>2. p \in Pieces /\ p \in LastPieces
  BY <1>1 DEF Pieces, LastPieces
<1>3. wire' = wire \/ wire' = Append(wire, p)
  BY <1>1 DEF WritePiece
<1> HIDE DEF p
<1>4. /\ (Said' <=> Said) /\ (NoClose' <=> NoClose) /\ LastPieces' = LastPieces /\ LastItems' = LastItems
  BY <1>1 DEF Said, NoClose, LastPieces, LastItems
<1>5. wire \in Seq(Pieces \cup Others) /\ p \in Pieces \cup Others
  BY <1>2 DEF LinkTypeOK
<1>6. /\ wire \in Seq(Pieces \cup {Pong, Result}) => wire' \in Seq(Pieces \cup {Pong, Result})
      /\ wire \in Seq(LastPieces) => wire' \in Seq(LastPieces)
  BY <1>2, <1>3
<1>7. EndsWith(wire, CloseFrame, LastPieces) => EndsWith(wire', CloseFrame, LastPieces)
  BY <1>2, <1>3, <1>5, EndsAppend
<1> QED
  BY <1>1, <1>4, <1>6, <1>7 DEF CloseInv, CloseLies

LEMMA CloseSay ==
    ASSUME LinkTypeOK, CloseInv, SayClose
    PROVE  CloseInv'
<1>1. /\ readerAt = "marked" /\ readerAt' = "said" /\ socket' = socket
      /\ wire' = Append(wire, CloseFrame)
      /\ UNCHANGED <<rclosed, inbox, parts, astray, begun>>
  BY DEF SayClose
<1>2. ~Said /\ Said' /\ socket # "closed"
  BY <1>1 DEF Said, CloseInv
<1>3. CASE astray
  BY <1>1, <1>2, <1>3 DEF CloseInv, CloseLies
<1>4. CASE ~astray
  <2>1. wire \in Seq(Pieces \cup {Pong, Result}) /\ ~rclosed /\ NoClose
    BY <1>2, <1>4 DEF CloseInv, CloseLies
  <2>2. wire \in Seq((Pieces \cup Others) \ {CloseFrame})
    <3>1. (Pieces \cup Others) \ {CloseFrame} = Pieces \cup {Pong, Result}
      BY PiecesApart DEF Others
    <3> QED
      BY <2>1, <3>1
  <2>3. EndsWith(wire', CloseFrame, LastPieces')
    <3>1. CloseFrame \in Pieces \cup Others
      BY DEF Others
    <3> QED
      BY <1>1, <2>2, <3>1, EndsNow
  <2> QED
    BY <1>1, <1>2, <2>1, <2>3 DEF CloseInv, CloseLies, NoClose
<1> QED
  BY <1>3, <1>4

\* What is read of the wire goes to the receiver, piece by piece or frame by frame.
LEMMA ArriveLeads ==
    ASSUME LinkTypeOK, ComingShape, Arrive, ~astray'
    PROVE  \/ /\ Head(wire) = Pong /\ coming' = <<>>
              /\ inbox' = Append(inbox, <<"pong", 0>>)
           \/ /\ Head(wire) = CloseFrame /\ coming' = <<>>
              /\ inbox' = Append(inbox, <<"close", 0>>)
           \/ /\ Head(wire) = Result /\ coming' = <<>>
              /\ inbox' = Append(inbox, <<"result", 0>>)
           \/ /\ Head(wire) \in Pieces /\ coming' = <<Head(wire)>> /\ inbox' = inbox
           \/ /\ Head(wire) \in Pieces /\ coming' = <<>>
              /\ \/ inbox' = Append(inbox, <<"whole", Head(wire)[1]>>)
                 \/ inbox' = Append(Append(inbox, <<"first", Head(wire)[1]>>), <<"rest", Head(wire)[1]>>)
<1> DEFINE p == Head(wire)
           torn == coming # <<>> /\ p # <<coming[1][1], 2>>
<1>1. p \in Pieces \cup Others /\ ~torn /\ inbox \in Seq(Items)
  <2>1. wire # <<>> /\ astray' = torn
    BY DEF Arrive
  <2>2. p \in Pieces \cup Others /\ inbox \in Seq(Items)
    BY <2>1 DEF LinkTypeOK
  <2> HIDE DEF p, torn
  <2> QED
    BY <2>1, <2>2
<1>2. /\ coming' = IF p[1] > 0 /\ p[2] = 1 THEN <<p>> ELSE <<>>
      /\ \/ p \in Others /\ inbox' = Append(inbox, ItemOf(p))
         \/ p[1] > 0 /\ p[2] = 1 /\ inbox' = inbox
         \/ p[1] > 0 /\ p[2] = 2 /\ inbox' = Append(inbox, <<"whole", p[1]>>)
         \/ p[1] > 0 /\ p[2] = 2 /\ inbox' = inbox \o <<<<"first", p[1]>>, <<"rest", p[1]>>>>
  BY <1>1 DEF Arrive
<1> HIDE DEF p, torn
<1>3. CASE p = Pong
  <2>1. ~(p[1] > 0) /\ ItemOf(p) = <<"pong", 0>>
    <3>1. ~(p[1] > 0)
      BY <1>3 DEF Pong
    <3> QED
      BY <1>3, <3>1, PiecesApart DEF ItemOf
  <2> QED
    BY <1>2, <1>3, <2>1 DEF p
<1>4. CASE p = CloseFrame
  <2>1. ~(p[1] > 0) /\ ItemOf(p) = <<"close", 0>>
    BY <1>4 DEF Pong, CloseFrame, ItemOf
  <2> QED
    BY <1>2, <1>4, <2>1 DEF p
<1>4a. CASE p = Result
  <2>1. ~(p[1] > 0) /\ ItemOf(p) = <<"result", 0>>
    BY <1>4a DEF Pong, CloseFrame, Result, ItemOf
  <2> QED
    BY <1>2, <1>4a, <2>1 DEF p
<1>5. CASE p \in Pieces
  <2>1. p \notin Others /\ p[1] \in Frames
    BY <1>5, PiecesApart DEF Others
  <2>2. inbox \o <<<<"first", p[1]>>, <<"rest", p[1]>>>>
        = Append(Append(inbox, <<"first", p[1]>>), <<"rest", p[1]>>)
    <3> DEFINE x == <<"first", p[1]>>
               y == <<"rest", p[1]>>
    <3>1. x \in Items /\ y \in Items
      BY <2>1 DEF Items
    <3> HIDE DEF x, y
    <3>2. inbox \o <<x, y>> = Append(Append(inbox, x), y)
      BY <1>1, <3>1, SeqTwo
    <3> QED
      BY <3>2 DEF x, y
  <2> QED
    BY <1>2, <1>5, <2>1, <2>2 DEF p
<1> QED
  BY <1>1, <1>3, <1>4, <1>4a, <1>5 DEF Others

LEMMA CloseArrive ==
    ASSUME LinkTypeOK, ComingShape, CloseInv, Arrive
    PROVE  CloseInv'
<1>1. /\ ~astray /\ wire # <<>> /\ wire' = Tail(wire)
      /\ wire \in Seq(Pieces \cup Others) /\ inbox \in Seq(Items)
      /\ UNCHANGED <<sendVars, closeVars, parts, rclosed>>
  BY DEF LinkTypeOK, Arrive
<1>2. (Said' <=> Said) /\ LastPieces' = LastPieces /\ LastItems' = LastItems
  BY <1>1 DEF Said, LastPieces, LastItems
<1> SUFFICES ASSUME ~astray' PROVE CloseLies'
  BY <1>1 DEF CloseInv, CloseLies
<1> DEFINE p == Head(wire)
           C == <<"close", 0>>
           wh == <<"whole", p[1]>>
           fi == <<"first", p[1]>>
           re == <<"rest", p[1]>>
           PO == <<"pong", 0>>
           RE == <<"result", 0>>
           X == Items \ {C}
<1>3. /\ p = Pong => inbox' = Append(inbox, PO) /\ coming' = <<>>
      /\ p = Result => inbox' = Append(inbox, RE) /\ coming' = <<>>
      /\ p = CloseFrame => coming' = <<>> /\ inbox' = Append(inbox, C)
      /\ p \in Pieces => /\ coming' = <<p>> \/ coming' = <<>>
                         /\ \/ inbox' = inbox
                            \/ inbox' = Append(inbox, wh)
                            \/ inbox' = Append(Append(inbox, fi), re)
  BY ArriveLeads, PiecesApart
<1>4. ASSUME p \in Pieces
      PROVE  wh \in X /\ fi \in X /\ re \in X
  <2>1. p[1] \in Frames
    BY <1>4, PiecesApart
  <2> QED
    BY <2>1 DEF Items
<1>5. PO \in X /\ RE \in X /\ C \in Items
  BY DEF Items, OtherItems
<1>6. p \in Pieces \cup {Pong, CloseFrame, Result}
  BY <1>1 DEF Others
<1>7. CASE ~Said
  <2>1. ~rclosed /\ inbox \in Seq(X) /\ wire \in Seq(Pieces \cup {Pong, Result})
    BY <1>1, <1>7 DEF CloseInv, CloseLies, NoClose
  <2>2. p \in Pieces \cup {Pong, Result} /\ wire' \in Seq(Pieces \cup {Pong, Result})
    BY <1>1, <2>1
  <2> HIDE DEF p, C, wh, fi, re, PO, RE, X
  <2>3. inbox' \in Seq(X)
    <3>1. CASE p = Pong \/ p = Result
      BY <1>3, <1>5, <2>1, <3>1, SeqTyped
    <3>2. CASE p \in Pieces
      BY <1>3, <1>4, <2>1, <3>2, SeqTyped
    <3> QED
      BY <2>2, <3>1, <3>2
  <2> QED
    BY <1>1, <1>2, <1>7, <2>1, <2>2, <2>3 DEF CloseLies, NoClose, C, X
<1>8. CASE Said /\ ~rclosed /\ NoClose /\ EndsWith(wire, CloseFrame, LastPieces)
  <2>1. inbox \in Seq(X)
    BY <1>8 DEF NoClose
  <2>2. \/ p = CloseFrame /\ wire' \in Seq(LastPieces)
        \/ p # CloseFrame /\ EndsWith(wire', CloseFrame, LastPieces)
    BY <1>1, <1>8, EndsTail
  <2> HIDE DEF p, C, wh, fi, re, PO, RE, X
  <2>3. CASE p = CloseFrame /\ wire' \in Seq(LastPieces)
    <3>1. EndsWith(inbox', C, LastItems)
      BY <1>3, <1>5, <2>1, <2>3, EndsNow DEF X
    <3>2. coming' = <<>> /\ coming' \in Seq(LastPieces)
      BY <1>3, <2>3
    <3> QED
      BY <1>1, <1>2, <1>8, <2>3, <3>1, <3>2 DEF CloseLies, C
  <2>4. CASE p # CloseFrame /\ EndsWith(wire', CloseFrame, LastPieces)
    <3>1. inbox' \in Seq(X)
      BY <1>3, <1>4, <1>5, <1>6, <2>1, <2>4
    <3> QED
      BY <1>1, <1>2, <1>8, <2>4, <3>1 DEF CloseLies, NoClose, C, X
  <2> QED
    BY <2>2, <2>3, <2>4
<1>9. CASE /\ Said /\ wire \in Seq(LastPieces) /\ coming \in Seq(LastPieces)
           /\ \/ ~rclosed /\ EndsWith(inbox, C, LastItems)
              \/ rclosed /\ inbox \in Seq(LastItems)
  <2>1. p \in LastPieces /\ wire' \in Seq(LastPieces) /\ p \in Pieces
    BY <1>1, <1>9 DEF LastPieces
  <2>2. /\ wh \in LastItems /\ fi \in LastItems /\ re \in LastItems
        /\ wh \in Items /\ fi \in Items /\ re \in Items
    <3>1. p[1] = begun /\ p[1] \in Frames
      BY <2>1, PiecesApart DEF LastPieces
    <3>2. \A n \in {"whole", "first", "rest"} :
             <<n, p[1]>> \in Items /\ <<n, p[1]>>[1] = n /\ <<n, p[1]>>[2] = p[1]
      BY <3>1 DEF Items
    <3> QED
      BY <3>1, <3>2 DEF LastItems
  <2> HIDE DEF p, C, wh, fi, re
  <2>3. coming' \in Seq(LastPieces)
    <3>1. <<>> \in Seq(LastPieces) /\ <<p>> \in Seq(LastPieces)
      BY <2>1
    <3> QED
      BY <1>3, <2>1, <3>1
  <2>4. inbox' = inbox \/ inbox' = Append(inbox, wh) \/ inbox' = Append(Append(inbox, fi), re)
    BY <1>3, <2>1
  <2>5. inbox \in Seq(LastItems) => inbox' \in Seq(LastItems)
    <3>1. \A y \in LastItems, q \in Seq(LastItems) : Append(q, y) \in Seq(LastItems)
      BY SeqTyped
    <3> QED
      BY <2>2, <2>4, <3>1
  <2>6. ASSUME EndsWith(inbox, C, LastItems)
        PROVE  EndsWith(inbox', C, LastItems)
    <3>1. CASE inbox' = inbox
      BY <2>6, <3>1
    <3>2. CASE inbox' = Append(inbox, wh)
      BY <1>1, <2>2, <2>6, <3>2, EndsAppend
    <3>3. CASE inbox' = Append(Append(inbox, fi), re)
      <4>1. Append(inbox, fi) \in Seq(Items)
        BY <1>1, <2>2
      <4>2. EndsWith(Append(inbox, fi), C, LastItems)
        BY <1>1, <2>2, <2>6, EndsAppend
      <4> QED
        BY <2>2, <3>3, <4>1, <4>2, EndsAppend
    <3> QED
      BY <2>4, <3>1, <3>2, <3>3
  <2> QED
    BY <1>1, <1>2, <1>9, <2>1, <2>3, <2>5, <2>6 DEF CloseLies, C
<1> QED
  BY <1>1, <1>7, <1>8, <1>9 DEF CloseInv, CloseLies
LEMMA CloseProxyPings ==
    ASSUME LinkTypeOK, CloseInv, ProxyPings
    PROVE  CloseInv'
<1> DEFINE ping == <<"ping", 0>>
           C == <<"close", 0>>
           X == Items \ {C}
<1>1. PICK k \in 0..Len(inbox) : inbox' = PutIn(inbox, k, ping)
  BY DEF ProxyPings, PutIn
<1>2. /\ inbox \in Seq(Items)
      /\ UNCHANGED <<sendVars, closeVars, parts, rclosed, netVars>>
  BY DEF LinkTypeOK, ProxyPings
<1>3. (Said' <=> Said) /\ LastPieces' = LastPieces /\ LastItems' = LastItems
  BY <1>2 DEF Said, LastPieces, LastItems
<1>4. ping \in LastItems /\ ping \in Items /\ ping # C /\ ping \in X
  BY PiecesApart DEF X
<1> HIDE DEF ping, C, X
<1>5. inbox \in Seq(X) => inbox' \in Seq(X)
  BY <1>1, <1>4, InPlace
<1>6. inbox \in Seq(LastItems) => inbox' \in Seq(LastItems)
  BY <1>1, <1>4, InPlace
<1>7. EndsWith(inbox, C, LastItems) => EndsWith(inbox', C, LastItems)
  BY <1>1, <1>2, <1>4, EndsInserted
<1> QED
  BY <1>2, <1>3, <1>5, <1>6, <1>7 DEF CloseInv, CloseLies, NoClose, C, X

LEMMA CloseReadMessage ==
    ASSUME LinkTypeOK, CloseInv, ReadMessage
    PROVE  CloseInv'
<1> DEFINE C == <<"close", 0>>
           X == Items \ {C}
<1>1. /\ inbox # <<>> /\ inbox' = Tail(inbox) /\ inbox \in Seq(Items) /\ ~rclosed
      /\ UNCHANGED <<sendVars, closeVars, netVars>>
  BY DEF LinkTypeOK, ReadMessage
<1>2. /\ (Said' <=> Said) /\ (astray' <=> astray)
      /\ LastPieces' = LastPieces /\ LastItems' = LastItems
  BY <1>1 DEF Said, LastPieces, LastItems
<1>3. parts' \in Seq(Frames \X {1}) /\ (rclosed' <=> Head(inbox) = C)
  <2>1. parts \in Seq(Frames \X {1}) /\ <<>> \in Seq(Frames \X {1})
    BY DEF CloseInv
  <2>2. ASSUME NEW n \in Frames, NEW op \in {"whole", "first", "rest"}, Head(inbox) = <<op, n>>
        PROVE  parts' \in Seq(Frames \X {1}) /\ (rclosed' <=> Head(inbox) = C)
    <3>1. Head(inbox)[1] = op /\ Head(inbox)[2] = n /\ Head(inbox) # C
      BY <2>2
    <3>2. rclosed' = rclosed /\ (parts' = <<>> \/ parts' = Append(parts, <<n, 1>>))
      BY <2>2, <3>1 DEF ReadMessage
    <3>3. <<n, 1>> \in Frames \X {1}
      OBVIOUS
    <3>4. Append(parts, <<n, 1>>) \in Seq(Frames \X {1})
      BY <2>1, <3>3, SeqTyped
    <3> QED
      BY <1>1, <2>1, <3>1, <3>2, <3>4
  <2>3. ASSUME NEW op \in {"pong", "close", "ping", "result"}, Head(inbox) = <<op, 0>>
        PROVE  parts' \in Seq(Frames \X {1}) /\ (rclosed' <=> Head(inbox) = C)
    <3>1. Head(inbox)[1] = op /\ op \notin {"whole", "first", "rest"}
      BY <2>3
    <3>2. parts' = parts /\ (rclosed' <=> op = "close")
      BY <1>1, <2>3, <3>1 DEF ReadMessage, OnControl
    <3>3. Head(inbox) = C <=> op = "close"
      BY <2>3
    <3> QED
      BY <2>1, <3>2, <3>3
  <2>4. Head(inbox) \in OtherItems
        => \E op \in {"pong", "close", "ping", "result"} : Head(inbox) = <<op, 0>>
    BY DEF OtherItems
  <2> HIDE DEF C
  <2> QED
    BY <1>1, <2>2, <2>3, <2>4, HeadOfInbox
<1> HIDE DEF C
<1>4. ASSUME inbox \in Seq(X)
      PROVE  inbox' \in Seq(X) /\ ~rclosed'
  <2>1. Head(inbox) \in X /\ Tail(inbox) \in Seq(X)
    BY <1>1, <1>4
  <2> QED
    BY <1>1, <1>3, <2>1
<1>5. ASSUME EndsWith(inbox, C, LastItems)
      PROVE  \/ rclosed' /\ inbox' \in Seq(LastItems)
             \/ ~rclosed' /\ EndsWith(inbox', C, LastItems)
  BY <1>1, <1>3, <1>5, EndsTail
<1>6. CloseLies'
  BY <1>1, <1>2, <1>4, <1>5 DEF CloseInv, CloseLies, NoClose, C, X
<1> QED
  BY <1>1, <1>3, <1>6 DEF CloseInv

LEMMA CloseStep ==
    ASSUME LinkTypeOK, SendInv, ComingShape, CloseInv, [LinkNext]_linkVars
    PROVE  CloseInv'
<1>1. CASE Upgrading
  <2>1. wire' = wire /\ UNCHANGED <<sendVars, closeVars, recvVars, coming, astray>>
    BY <1>1 DEF SendInv, Upgrading, RelayAccepts, RelayRefuses, ClientOpens, ClientGivesUp, ReadsHeader
  <2> QED
    BY <2>1 DEF CloseInv, CloseLies, Said, NoClose, LastPieces, LastItems
<1>2. ASSUME NEW w \in Writers, Begin(w)
      PROVE  CloseInv'
  <2>1. ~Said
    BY <1>2 DEF SendInv, Said, Begin, Begins
  <2>2. UNCHANGED <<closeVars, recvVars, netVars>>
    BY <1>2 DEF Begin, Begins
  <2>3. ~Said'
    BY <2>1, <2>2 DEF Said
  <2> QED
    BY <2>1, <2>2, <2>3, CloseUnsaid DEF CloseInv
<1>3. CASE WritePong
  <2>1. /\ readerAt = "reading" /\ wire' = Append(wire, Pong)
        /\ UNCHANGED <<astray, rclosed, inbox, parts, socket, readerAt>>
    BY <1>3 DEF WritePong, ReaderRuns
  <2>2. ~Said /\ ~Said' /\ socket # "closed"
    BY <2>1 DEF CloseInv, Said
  <2>3. wire \in Seq(Pieces \cup {Pong, Result}) => wire' \in Seq(Pieces \cup {Pong, Result})
    BY <2>1
  <2> QED
    BY <2>1, <2>2, <2>3, CloseUnsaid
<1>3a. CASE WriteResult
  <2>1. /\ ~closed /\ wire' = Append(wire, Result)
        /\ UNCHANGED <<astray, rclosed, inbox, parts, socket, readerAt>>
    BY <1>3a DEF WriteResult
  <2>2. ~Said /\ ~Said' /\ socket # "closed"
    BY <2>1 DEF SendInv, CloseInv, Said
  <2>3. wire \in Seq(Pieces \cup {Pong, Result}) => wire' \in Seq(Pieces \cup {Pong, Result})
    BY <2>1
  <2> QED
    BY <2>1, <2>2, <2>3, CloseUnsaid
<1>4. CASE CloseReceived \/ MarkClosed
  <2>1. /\ readerAt = "reading" /\ readerAt' \in {"ended", "marked"}
        /\ UNCHANGED <<astray, rclosed, inbox, parts, socket, wire>>
    BY <1>4 DEF CloseReceived, MarkClosed, ReaderRuns
  <2>2. ~Said /\ ~Said' /\ socket # "closed" /\ socket' # "closed"
    BY <2>1 DEF CloseInv, Said
  <2> QED
    BY <2>1, <2>2, CloseUnsaid
<1>5. CASE CloseSocket
  <2>1. /\ readerAt = "said" /\ readerAt' = "ended" /\ socket' = "closed"
        /\ UNCHANGED <<sendVars, recvVars, netVars>>
    BY <1>5 DEF CloseSocket
  <2>2. Said /\ Said' /\ LastPieces' = LastPieces /\ LastItems' = LastItems
    BY <2>1 DEF Said, LastPieces, LastItems
  <2> QED
    BY <2>1, <2>2 DEF CloseInv, CloseLies, NoClose
<1>6. CASE ReadFrame \/ SeeEnd \/ ReadAstray \/ UNCHANGED linkVars
  <2>1. UNCHANGED <<sendVars, closeVars, netVars, inbox, parts, rclosed>>
    BY <1>6 DEF ReadFrame, SeeEnd, ReadAstray
  <2> QED
    BY <2>1 DEF CloseInv, CloseLies, Said, NoClose, LastPieces, LastItems
<1> QED
  BY <1>1, <1>2, <1>3, <1>3a, <1>4, <1>5, <1>6, CloseWritePiece, CloseSay, CloseArrive,
     CloseProxyPings, CloseReadMessage
  DEF LinkNext, Receiving, Closing

-----------------------------------------------------------------------------
(* The relay's REGISTER_RESULT.  There is one, until it is read.            *)

ResultItem == <<"result", 0>>
Sendable == Pieces \cup Others

NoResult(q) == q \in Seq(Sendable \ {Result})
NoResultItem == inbox \in Seq(Items \ {ResultItem})

\* It is on the wire, or among what has arrived, or nowhere.
ResultLies ==
    \/ /\ NoResultItem
       /\ \/ astray
          \/ result # "sent" /\ NoResult(wire)
          \/ result = "sent" /\ EndsWith(wire, Result, Sendable \ {Result})
    \/ /\ result = "sent" /\ EndsWith(inbox, ResultItem, Items \ {ResultItem})
       /\ astray \/ NoResult(wire)

LEMMA ResultInit == LinkInit => ResultLies
  BY DEF LinkInit, ResultLies, NoResult, NoResultItem

\* what is sent besides, and what is read of it, is no result
LEMMA ResultApart ==
    /\ \A p \in Pieces \cup {Pong, CloseFrame} : p \in Sendable \ {Result}
    /\ Sendable \ {Result} = Pieces \cup {Pong, CloseFrame}
    /\ Result \in Sendable /\ ResultItem \in Items
    /\ \A x \in Items : x[1] # "result" => x \in Items \ {ResultItem}
  BY PiecesApart DEF Sendable, Others, ResultItem, Items, OtherItems

\* One more piece on the wire leaves the result where it is,
LEMMA ResultStays ==
    ASSUME LinkTypeOK, ResultLies, UNCHANGED <<result, inbox, astray>>,
           wire' = wire \/ \E p \in Pieces \cup {Pong, CloseFrame} : wire' = Append(wire, p)
    PROVE  ResultLies'
<1>1. wire \in Seq(Sendable)
  BY DEF LinkTypeOK, Sendable
<1>2. ASSUME NEW p \in Pieces \cup {Pong, CloseFrame}, wire' = Append(wire, p)
      PROVE  ResultLies'
  <2>1. p \in Sendable \ {Result} /\ p \in Sendable
    BY ResultApart
  <2>2. NoResult(wire) => NoResult(wire')
    BY <1>2, <2>1, SeqTyped DEF NoResult
  <2>3. EndsWith(wire, Result, Sendable \ {Result}) => EndsWith(wire', Result, Sendable \ {Result})
    BY <1>1, <1>2, <2>1, EndsAppend
  <2> QED
    BY <2>2, <2>3 DEF ResultLies, NoResultItem
<1>3. CASE wire' = wire
  BY <1>3 DEF ResultLies, NoResult, NoResultItem
<1> QED
  BY <1>2, <1>3

LEMMA ResultWritten ==
    ASSUME LinkTypeOK, ResultLies, WriteResult
    PROVE  ResultLies'
<1>1. /\ result = "due" /\ result' = "sent" /\ wire' = Append(wire, Result)
      /\ UNCHANGED <<inbox, astray>>
  BY DEF WriteResult
<1>2. NoResultItem /\ (astray \/ NoResult(wire))
  BY <1>1 DEF ResultLies
<1>3. NoResult(wire) => EndsWith(wire', Result, Sendable \ {Result})
  BY <1>1, EndsNow, ResultApart DEF NoResult
<1> QED
  BY <1>1, <1>2, <1>3 DEF ResultLies, NoResultItem

LEMMA ResultArrives ==
    ASSUME LinkTypeOK, ComingShape, ResultLies, Arrive
    PROVE  ResultLies'
<1>1. /\ ~astray /\ wire # <<>> /\ wire' = Tail(wire) /\ result' = result
      /\ wire \in Seq(Sendable) /\ inbox \in Seq(Items)
      /\ astray' => inbox' = inbox
  BY DEF LinkTypeOK, Sendable, Arrive
<1>2. CASE astray'
  BY <1>1, <1>2 DEF ResultLies, NoResultItem
<1> DEFINE p == Head(wire)
           wh == <<"whole", p[1]>>
           fi == <<"first", p[1]>>
           re == <<"rest", p[1]>>
           X == Items \ {ResultItem}
<1>3. ASSUME ~astray'
      PROVE  \/ p = Result /\ inbox' = Append(inbox, ResultItem)
             \/ /\ p # Result
                /\ \/ inbox' = inbox
                   \/ \E x \in X : inbox' = Append(inbox, x)
                   \/ \E x, y \in X : inbox' = Append(Append(inbox, x), y)
  <2>1. p \in Pieces => wh \in X /\ fi \in X /\ re \in X /\ p # Result
    <3>1. p \in Pieces => p[1] \in Frames
      BY PiecesApart
    <3> QED
      BY <3>1, PiecesApart DEF Items, ResultItem
  <2>2. <<"pong", 0>> \in X /\ <<"close", 0>> \in X
    BY DEF Items, OtherItems, ResultItem
  <2>3. Pong # Result /\ CloseFrame # Result
    BY PiecesApart
  <2>4. \/ p = Pong /\ inbox' = Append(inbox, <<"pong", 0>>)
        \/ p = CloseFrame /\ inbox' = Append(inbox, <<"close", 0>>)
        \/ p = Result /\ inbox' = Append(inbox, ResultItem)
        \/ p \in Pieces /\ inbox' = inbox
        \/ p \in Pieces /\ inbox' = Append(inbox, wh)
        \/ p \in Pieces /\ inbox' = Append(Append(inbox, fi), re)
    BY <1>3, ArriveLeads DEF ResultItem
  <2> HIDE DEF p, wh, fi, re, X
  <2> QED
    BY <2>1, <2>2, <2>3, <2>4
<1> HIDE DEF p, wh, fi, re
<1>4. ASSUME ~astray', p = Result
      PROVE  ResultLies'
  <2>1. ~NoResult(wire)
    <3>1. NoResult(wire) => p # Result
      BY <1>1 DEF NoResult, p
    <3> QED
      BY <1>4, <3>1
  <2>2. NoResultItem /\ result = "sent" /\ EndsWith(wire, Result, Sendable \ {Result})
    BY <1>1, <2>1 DEF ResultLies
  <2>3. NoResult(wire')
    BY <1>1, <1>4, <2>2, EndsTail DEF NoResult, p
  <2>4. EndsWith(inbox', ResultItem, Items \ {ResultItem})
    <3>1. inbox' = Append(inbox, ResultItem)
      BY <1>3, <1>4
    <3>2. inbox \in Seq(Items \ {ResultItem}) /\ ResultItem \in Items
      BY <2>2, ResultApart DEF NoResultItem
    <3> QED
      BY <3>1, <3>2, EndsNow
  <2> QED
    BY <1>1, <2>2, <2>3, <2>4 DEF ResultLies
<1>5. ASSUME ~astray', p # Result
      PROVE  ResultLies'
  <2>1. NoResult(wire) => NoResult(wire')
    BY <1>1 DEF NoResult
  <2>2. EndsWith(wire, Result, Sendable \ {Result}) => EndsWith(wire', Result, Sendable \ {Result})
    BY <1>1, <1>5, EndsTail DEF p
  <2>3. NoResultItem => NoResultItem'
    <3>1. ASSUME NEW q \in Seq(X), NEW x \in X PROVE Append(q, x) \in Seq(X)
      BY <3>1, SeqTyped
    <3> HIDE DEF X
    <3>2. inbox \in Seq(X) => inbox' \in Seq(X)
      BY <1>3, <1>5, <3>1
    <3> QED
      BY <3>2 DEF NoResultItem, X
  <2>4. EndsWith(inbox, ResultItem, X) => EndsWith(inbox', ResultItem, X)
    <3>1. ASSUME NEW q \in Seq(Items), NEW x \in X, EndsWith(q, ResultItem, X)
          PROVE  EndsWith(Append(q, x), ResultItem, X) /\ Append(q, x) \in Seq(Items)
      <4>1. x \in Items
        OBVIOUS
      <4> QED
        BY <3>1, <4>1, EndsAppend, SeqTyped
    <3> HIDE DEF X
    <3> QED
      BY <1>1, <1>3, <1>5, <3>1
  <2> QED
    BY <1>1, <2>1, <2>2, <2>3, <2>4 DEF ResultLies
<1> QED
  BY <1>2, <1>4, <1>5

\* and the receiver that reads it finds no other.
LEMMA ResultRead ==
    ASSUME LinkTypeOK, ResultLies, ReadMessage
    PROVE  ResultLies' /\ (result' # result => result = "sent" /\ result' = "read")
<1>1. /\ inbox # <<>> /\ inbox' = Tail(inbox) /\ inbox \in Seq(Items)
      /\ UNCHANGED <<wire, astray>>
      /\ result' = IF Head(inbox) = ResultItem THEN "read" ELSE result
  BY DEF LinkTypeOK, ReadMessage, ResultItem
<1>2. CASE NoResultItem
  <2>1. Head(inbox) # ResultItem /\ NoResultItem'
    BY <1>1, <1>2 DEF NoResultItem
  <2>2. result' = result
    BY <1>1, <2>1
  <2>3. \/ astray \/ (result # "sent" /\ NoResult(wire))
        \/ (result = "sent" /\ EndsWith(wire, Result, Sendable \ {Result}))
        \/ (result = "sent" /\ (astray \/ NoResult(wire)) /\ EndsWith(inbox, ResultItem, Items \ {ResultItem}))
    BY DEF ResultLies
  <2>4. ~EndsWith(inbox, ResultItem, Items \ {ResultItem})
    BY <1>2 DEF EndsWith, NoResultItem
  <2> QED
    BY <1>1, <2>1, <2>2, <2>3, <2>4 DEF ResultLies, NoResult
<1>3. CASE ~NoResultItem
  <2>1. result = "sent" /\ EndsWith(inbox, ResultItem, Items \ {ResultItem}) /\ (astray \/ NoResult(wire))
    BY <1>3 DEF ResultLies
  <2>2. \/ Head(inbox) = ResultItem /\ inbox' \in Seq(Items \ {ResultItem})
        \/ Head(inbox) # ResultItem /\ EndsWith(inbox', ResultItem, Items \ {ResultItem})
    BY <1>1, <2>1, EndsTail
  <2> QED
    BY <1>1, <2>1, <2>2 DEF ResultLies, NoResultItem, NoResult
<1> QED
  BY <1>2, <1>3

LEMMA ResultStep ==
    ASSUME LinkTypeOK, SendInv, ComingShape, ResultLies, [LinkNext]_linkVars
    PROVE  ResultLies'
<1>1. CASE Upgrading
  <2>1. wire' = wire /\ UNCHANGED <<result, inbox, astray>>
    BY <1>1 DEF SendInv, Upgrading, RelayAccepts, RelayRefuses, ClientOpens, ClientGivesUp, ReadsHeader
  <2> QED
    BY <2>1, ResultStays
<1>2. ASSUME NEW w \in Writers, WritePiece(w)
      PROVE  ResultLies'
  <2>1. lock = w /\ current[w] = begun /\ begun \in Frames /\ left[w] \in {1, 2}
    BY <1>2, NoWriterIsNone, LinkAssumption DEF LinkTypeOK, SendInv, WritePiece, Frames
  <2>2. <<current[w], 3 - left[w]>> \in Pieces
    BY <2>1 DEF Pieces
  <2>3. /\ wire' = wire \/ wire' = Append(wire, <<current[w], 3 - left[w]>>)
        /\ UNCHANGED <<result, inbox, astray>>
    BY <1>2 DEF WritePiece
  <2> QED
    BY <2>2, <2>3, ResultStays
<1>3. CASE WritePong \/ SayClose
  <2>1. UNCHANGED <<result, inbox, astray>> /\ \E p \in {Pong, CloseFrame} : wire' = Append(wire, p)
    BY <1>3 DEF WritePong, SayClose
  <2> QED
    BY <2>1, ResultStays
<1>4. CASE ProxyPings
  <2>1. PICK k \in 0..Len(inbox) : inbox' = PutIn(inbox, k, <<"ping", 0>>)
    BY <1>4 DEF ProxyPings, PutIn
  <2>2. inbox \in Seq(Items) /\ UNCHANGED <<result, wire, astray>>
    BY <1>4 DEF LinkTypeOK, ProxyPings
  <2>3. <<"ping", 0>> \in Items \ {ResultItem}
    BY DEF Items, OtherItems, ResultItem
  <2> DEFINE ping == <<"ping", 0>>
             X == Items \ {ResultItem}
  <2>4. ping \in X /\ ping \in Items /\ ping # ResultItem
    BY <2>3
  <2> HIDE DEF ping
  <2>5. inbox \in Seq(X) => inbox' \in Seq(X)
    <3> HIDE DEF X
    <3> QED
      BY <2>1, <2>4, InPlace DEF ping
  <2>6. EndsWith(inbox, ResultItem, X) => EndsWith(inbox', ResultItem, X)
    <3> HIDE DEF X
    <3> QED
      BY <2>1, <2>2, <2>4, EndsInserted DEF ping
  <2> QED
    BY <2>2, <2>5, <2>6 DEF ResultLies, NoResultItem, NoResult
<1>5. ASSUME \/ \E w \in Writers : Begin(w)
             \/ CloseReceived \/ MarkClosed \/ CloseSocket
             \/ ReadFrame \/ SeeEnd \/ ReadAstray \/ UNCHANGED linkVars
      PROVE  ResultLies'
  <2>1. UNCHANGED <<result, wire, inbox, astray>>
    BY <1>5 DEF Begin, Begins, CloseReceived, MarkClosed, CloseSocket, ReadFrame, SeeEnd, ReadAstray
  <2> QED
    BY <2>1, ResultStays
<1> QED
  BY <1>1, <1>2, <1>3, <1>4, <1>5, ResultWritten, ResultArrives, ResultRead
  DEF LinkNext, Receiving, Closing

-----------------------------------------------------------------------------
\* The pieces of a frame lie behind those of the frames before it.
LEMMA PieceBeyond ==
    ASSUME NEW p, NEW n \in Nat, NEW m \in Nat, NEW l \in Nat, <<p, n, m>> \in PieceCovers,
           2 * l - 2 <= m,
           (p \in Pieces /\ p[1] = l) \/ p \in Frames \X {1}
    PROVE  2 * l - 2 <= n
<1>1. PICK i \in Frames, k \in {1, 2} : p = <<i, k>>
  BY DEF Pieces
<1>2. i \in Nat /\ p[1] = i
  BY <1>1 DEF Frames
<1>3. (k = 1 => m = 2 * i - 1) /\ (k = 2 => m = 2 * i) /\ n + 1 = m
  BY <1>1, HalfCovered
<1>4. p \in Frames \X {1} => k = 1
  BY <1>1
<1> QED
  BY <1>1, <1>2, <1>3, <1>4

\* When the reader meets the end, and the stream is not torn, all but the last frame
\* have come.
LEMMA EndsInTime ==
    ASSUME LinkInv, CloseInv, ResultLies, SeeEnd, ~astray
    PROVE  closed /\ begun <= Len(got) + 1 /\ result # "sent"
<1>1. buffer = <<>> /\ (rclosed \/ (socket = "closed" /\ inbox = <<>> /\ wire = <<>>))
  BY DEF SeeEnd
<1>2. /\ Said /\ wire \in Seq(LastPieces) /\ coming \in Seq(LastPieces)
      /\ rclosed /\ inbox \in Seq(LastItems)
  <2>1. ~ EndsWith(<<>>, CloseFrame, LastPieces) /\ ~ EndsWith(<<>>, <<"close", 0>>, LastItems)
    BY DEF EndsWith
  <2> QED
    BY <1>1, <2>1 DEF CloseInv, CloseLies, Said
<1>3. closed
  BY <1>2 DEF Said, LinkInv, SendInv
<1>4. begun \in Nat /\ Len(got) \in Nat /\ parts \in Seq(Frames \X {1})
  BY DEF LinkInv, LinkTypeOK, CloseInv
<1>5. PICK n \in 0..begun :
        ArrivedTo(2 * n) /\ \E f \in Nat : ComingTo(2 * n, f) /\ Reaches(f)
  <2>1. CASE Stranded
    BY <2>1 DEF Stranded
  <2> QED
    BY <2>1 DEF LinkInv, ArrivesInOrder
<1>6. PICK f \in Nat : ComingTo(2 * n, f) /\ Reaches(f)
  BY <1>5
<1>7. PICK e \in Nat : Runs(coming, PieceCovers, 2 * n, e) /\ Runs(wire, PieceCovers, e, f)
  BY <1>6 DEF ComingTo
<1>8. PICK a \in Nat, b \in Nat, c \in Nat :
        /\ ReadTo(a)
        /\ Runs(buffer, PieceCovers, a, b)
        /\ Runs(parts, PieceCovers, b, c)
        /\ Runs(inbox, ItemCovers, c, 2 * n)
  BY <1>5 DEF ArrivedTo
<1> DEFINE l == 2 * begun - 2
<1>9. l \in Int /\ l <= f
  BY <1>4, <1>6 DEF Reaches
<1>10. ASSUME NEW p \in LastPieces \cup (Frames \X {1})
       PROVE  Respects(p, PieceCovers, l)
  BY <1>4, <1>10, PieceBeyond DEF LastPieces, Respects
<1>11. ASSUME NEW x \in LastItems
       PROVE  Respects(x, ItemCovers, l)
  <2> SUFFICES ASSUME NEW u \in Nat, NEW v \in Nat, <<x, u, v>> \in ItemCovers, l <= v
               PROVE  l <= u
    BY DEF Respects
  <2>1. /\ x[1] = "whole" => u = 2 * x[2] - 2
        /\ x[1] = "first" => u = 2 * x[2] - 2
        /\ x[1] = "rest" => u = 2 * x[2] - 1
        /\ x[1] = "ping" => u = v
    <3>1. <<x, u, v>>[1] = x /\ <<x, u, v>>[2] = u /\ <<x, u, v>>[3] = v
      OBVIOUS
    <3> QED
      BY <3>1 DEF ItemCovers
  <2>2. x[1] = "ping" \/ (x[1] \in {"whole", "first", "rest"} /\ x[2] = begun)
    BY DEF LastItems
  <2> QED
    BY <1>4, <2>1, <2>2
<1> HIDE DEF l
<1>12. l <= e
  <2>1. \A i \in 1..Len(wire) : Respects(wire[i], PieceCovers, l)
    BY <1>2, <1>10
  <2> QED
    BY <1>2, <1>7, <1>9, <2>1, RunsBeyond
<1>13. l <= 2 * n
  <2>1. \A i \in 1..Len(coming) : Respects(coming[i], PieceCovers, l)
    BY <1>2, <1>10
  <2> QED
    BY <1>2, <1>7, <1>9, <1>12, <2>1, RunsBeyond
<1>14. l <= c
  <2>1. \A i \in 1..Len(inbox) : Respects(inbox[i], ItemCovers, l)
    BY <1>2, <1>11
  <2> QED
    BY <1>2, <1>8, <1>9, <1>13, <2>1, RunsBeyond
<1>15. l <= b
  <2>1. \A i \in 1..Len(parts) : Respects(parts[i], PieceCovers, l)
    BY <1>4, <1>10
  <2> QED
    BY <1>4, <1>8, <1>9, <1>14, <2>1, RunsBeyond
<1>16. a = b
  BY <1>1, <1>8, RunsEmpty
<1>17. a <= 2 * Len(got) + 1
  BY <1>4, <1>8 DEF ReadTo
<1>18. begun <= Len(got) + 1
  BY <1>4, <1>15, <1>16, <1>17 DEF l
<1>19. result # "sent"
  <2>1. Result \notin LastPieces /\ ResultItem \notin LastItems
    BY PiecesApart DEF LastPieces, LastItems, ResultItem
  <2>2. ~EndsWith(wire, Result, Sendable \ {Result}) /\ ~EndsWith(inbox, ResultItem, Items \ {ResultItem})
    BY <1>2, <2>1 DEF EndsWith
  <2> QED
    BY <2>2 DEF ResultLies
<1> QED
  BY <1>3, <1>18, <1>19

-----------------------------------------------------------------------------
LEMMA LinkInvInit == LinkInit => LinkInv
<1> SUFFICES ASSUME LinkInit PROVE LinkInv
  OBVIOUS
<1>1. ControlsCounted /\ ComingShape
  BY DEF LinkInit, ControlsCounted, ComingShape
<1> QED
  BY <1>1, TypeInit, SendInit, OrderInit DEF LinkInv

LEMMA LinkInvStep == LinkInv /\ [LinkNext]_linkVars => LinkInv'
  BY TypeStep, SendStep, ControlsStep, ShapeStep, OrderStep DEF LinkInv

\* The link's variables keep their types: the pieces of frames and the control
\* frames are where websocket.py:25-72 and private_protocol.py:36-51 put them.
THEOREM LinkTypeCorrect == LinkSpec => []LinkTypeOK
<1>1. LinkInv => LinkTypeOK
  BY DEF LinkInv
<1> QED
  BY <1>1, LinkInvInit, LinkInvStep, PTL DEF LinkSpec

\* A frame is torn by a control frame, or by a result that is on the wire.
LEMMA TornByOther ==
    ASSUME LinkInv, ResultLies, Arrive, astray'
    PROVE  controls > 0 \/ result = "sent"
<1> DEFINE p == Head(wire)
           WP == Pieces \cup Others
<1>1. /\ ~astray /\ wire # <<>> /\ wire \in Seq(WP) /\ p \in WP /\ p = wire[1] /\ 1 \in 1..Len(wire)
  BY DEF LinkInv, LinkTypeOK, Arrive
<1>2. coming # <<>> /\ p # <<coming[1][1], 2>>
  BY DEF Arrive
<1>3. PICK i \in Frames : coming = <<<<i, 1>>>>
  BY <1>2 DEF LinkInv, ComingShape
<1>4. PICK n \in 0..begun :
        \E f \in Nat : ComingTo(2 * n, f)
  BY <1>1 DEF LinkInv, ArrivesInOrder, Stranded
<1>5. n \in Nat /\ 2 * n \in Nat
  BY DEF LinkInv, LinkTypeOK
<1>6. PICK f \in Nat, e \in Nat :
        Runs(coming, PieceCovers, 2 * n, e) /\ Runs(wire, PieceCovers, e, f)
  BY <1>4 DEF ComingTo
<1>7. e = 2 * i - 1
  <2>1. <<<<i, 1>>, 2 * n, e>> \in PieceCovers
    BY <1>3, <1>5, <1>6, RunsOne
  <2> QED
    BY <2>1, HalfCovered
<1>8. PICK m \in Nat : <<p, e, m>> \in PieceCovers
  BY <1>1, <1>6, RunsTail
<1>9. ASSUME p \in Pieces
      PROVE  FALSE
  <2>1. PICK j \in Frames, k \in {1, 2} : p = <<j, k>>
    BY <1>9 DEF Pieces
  <2>2. <<<<j, k>>, e, m>> \in PieceCovers
    BY <1>8, <2>1
  <2>3. (k = 1 => m = 2 * j - 1) /\ (k = 2 => m = 2 * j) /\ e + 1 = m
    BY <2>2, HalfCovered
  <2>4. i \in Nat /\ j \in Nat
    BY DEF Frames
  <2>5. k = 2 /\ j = i
    BY <1>7, <2>1, <2>3, <2>4
  <2> QED
    BY <1>2, <1>3, <2>1, <2>5
<1>10. ASSUME p = Result
       PROVE  result = "sent"
  <2>1. NoResult(wire) => p # Result
    BY <1>1 DEF NoResult
  <2> QED
    BY <1>1, <1>10, <2>1 DEF ResultLies
<1> HIDE DEF p
<1>11. p \in {Pong, CloseFrame} \/ p = Result
  BY <1>1, <1>9 DEF Others
<1> QED
  BY <1>1, <1>10, <1>11 DEF LinkInv, ControlsCounted, p

\* The frames that read_frame gives out are the frames that were begun, in that
\* order and none left out, and REGISTER_RESULT comes once, between two of them,
\* until the stream is torn, by a control frame or by that result.  Unless it is,
\* the reader meets no end before the sender has closed, and misses at most the
\* frame that a thread was writing: what the two layers of the link do implements
\* FrameStream (private_protocol.py:36-51, websocket.py:25-72, 189-210,
\* relay.py:135-146, 998-1016).
THEOREM FramesKeepOrder == LinkSpec => FramesArriveInOrder
<1>1. LinkInit => Stream!StreamInit
  BY DEF LinkInit, Stream!StreamInit
<1>2. ASSUME LinkInv, CloseInv, ResultLies, [LinkNext]_linkVars
      PROVE  [Stream!StreamNext]_(Stream!streamVars)
  <2>1. ASSUME NEW w \in Writers, Begin(w)
        PROVE  Stream!Accept
    BY <2>1 DEF Begin, Begins, Stream!Accept
  <2>2. CASE WritePong \/ SayClose
    BY <2>2 DEF WritePong, SayClose, Stream!WriteOther, Stream!StreamNext
  <2>2a. CASE WriteResult
    BY <2>2a, <1>2 DEF WriteResult, Stream!Notify, Stream!StreamNext
  <2>3. CASE Arrive
    <3>1. ~astray /\ astray' \in BOOLEAN /\ UNCHANGED <<begun, got, result, controls, closed, receiver>>
      BY <2>3 DEF Arrive
    <3>2. CASE astray'
      <4>1. (controls > 0 \/ result = "sent") /\ astray' = TRUE
        BY <1>2, <2>3, <3>1, <3>2, TornByOther
      <4> QED
        BY <3>1, <4>1 DEF Stream!Break, Stream!StreamNext
    <3>3. CASE ~astray'
      BY <3>1, <3>3, <1>2 DEF Stream!streamVars, LinkInv, LinkTypeOK
    <3> QED
      BY <3>2, <3>3
  <2>4. CASE ReadFrame
    <3>1. UNCHANGED <<begun, result, controls, astray, closed, receiver>> /\ receiver = "reading"
      BY <2>4 DEF ReadFrame
    <3>2. got' = got \/ (got' = Append(got, Len(got) + 1) /\ Len(got) < begun)
      BY <1>2, <2>4, NextPiece DEF LinkInv
    <3> QED
      BY <3>1, <3>2 DEF Stream!Deliver, Stream!StreamNext, Stream!streamVars
  <2>5. CASE ReadAstray
    BY <2>5 DEF ReadAstray, Stream!Garbage, Stream!End, Stream!StreamNext, Stream!streamVars
  <2>6. ASSUME \/ Upgrading \/ \E w \in Writers : WritePiece(w)
               \/ CloseSocket \/ ProxyPings \/ UNCHANGED linkVars
        PROVE  UNCHANGED Stream!streamVars
    BY <2>6 DEF Upgrading, RelayAccepts, RelayRefuses, ClientOpens, ClientGivesUp, WritePiece,
         CloseSocket, ProxyPings, Stream!streamVars
  <2>6a. CASE ReadMessage
    <3>1. UNCHANGED <<begun, got, controls, astray, closed, receiver>> /\ receiver = "reading"
      BY <2>6a DEF ReadMessage
    <3>2. result' = result \/ (result = "sent" /\ result' = "read")
      BY <1>2, <2>6a, ResultRead DEF LinkInv
    <3> QED
      BY <3>1, <3>2 DEF Stream!Notice, Stream!StreamNext, Stream!streamVars
  <2>7. CASE CloseReceived \/ MarkClosed
    BY <2>7 DEF CloseReceived, MarkClosed, Stream!Stop, Stream!StreamNext
  <2>8. CASE SeeEnd
    <3>1. astray \/ (closed /\ begun <= Len(got) + 1 /\ result # "sent")
      BY <1>2, <2>8, EndsInTime
    <3> QED
      BY <2>8, <3>1, <1>2 DEF SeeEnd, LinkInv, LinkTypeOK, Stream!End, Stream!StreamNext
  <2> QED
    BY <1>2, <2>1, <2>2, <2>2a, <2>3, <2>4, <2>5, <2>6, <2>6a, <2>7, <2>8
    DEF LinkNext, Receiving, Closing, Stream!StreamNext
<1>3. LinkInv /\ CloseInv /\ [LinkNext]_linkVars => CloseInv'
  BY CloseStep DEF LinkInv
<1>4. LinkInv /\ ResultLies /\ [LinkNext]_linkVars => ResultLies'
  BY ResultStep DEF LinkInv
<1> QED
  BY <1>1, <1>2, <1>3, <1>4, LinkInvInit, LinkInvStep, CloseInit, ResultInit, PTL
  DEF LinkSpec, FramesArriveInOrder, Stream!StreamSpec
===============================================================================
