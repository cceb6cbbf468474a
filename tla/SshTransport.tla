------------------------------ MODULE SshTransport ------------------------------
(***************************************************************************)
(* One operator's SSH connection to the relay, from the version lines to   *)
(* the connection loop (relay.py, SSHConnection; ssh_packet.py,            *)
(* PacketStream), on top of the relay processes and their host key.        *)
(*                                                                         *)
(* The connection's own thread runs the handshake and then the loop; once  *)
(* the operator is let in, readers of reverse clients send to it as well,  *)
(* under send_lock.  Both directions are lossless and in order, but every  *)
(* packet must be read with the key and the sequence number it was sent    *)
(* with, and either end changes its keys on its own.                       *)
(*                                                                         *)
(* A packet is its message, whether it is encrypted, and the sequence      *)
(* number it was sent with.  The operator is an OpenSSH client, which is   *)
(* not part of this code: it sends what the protocol lets it send, and     *)
(* leaves when it is shown another host key than the first time.           *)
(***************************************************************************)
EXTENDS HostKey, Sequences

CONSTANTS Senders,    \* readers of reverse clients, which send to the operator
          Modulus,    \* sequence numbers (2^32)
          MaxSends,   \* bound: packets the readers send on a connection
          MaxTalk,    \* bound: IGNORE messages, attempts, requests of an operator
          MaxConns    \* bound: connections of the operator

ASSUME TransportAssumption ==
    /\ {"main", "none"} \cap Senders = {}
    /\ Modulus \in Nat \ {0, 1}
    /\ MaxSends \in Nat /\ MaxTalk \in Nat /\ MaxConns \in Nat

VARIABLES
    served,     \* the relay process at the other end, or None
    conns,      \* connections made so far
    rpc,        \* where the relay's thread of the connection stands
    toSend,     \* the message it sends next
    sending,    \* what a thread has encrypted and not yet written
    sendLock,   \* who holds send_lock, or None
    sendSeq, recvSeq,     \* PacketStream.send_sequence, recv_sequence
    sendKeyed, recvKeyed, \* send_cipher, recv_cipher are set
    sent,       \* packets the readers have sent
    toOperator, toRelay,  \* packets on the way
    opc,        \* where the operator's client stands
    osend, orecv,         \* its sequence numbers
    okeyed, orkeyed,      \* its ciphers are set
    talk,       \* what it has sent of its own accord
    pinned,     \* the host key in its known_hosts
    unknowns,   \* its messages the relay does not know: sequence numbers
    garbled,    \* history: a packet was read with another key or number
    misnamed,   \* history: an UNIMPLEMENTED that names another packet
    changed     \* history: the operator was shown another host key

relayVars == <<rpc, toSend, sending, sendLock, sendSeq, recvSeq, sendKeyed,
               recvKeyed, sent>>
operatorVars == <<opc, osend, orecv, okeyed, orkeyed, talk, unknowns>>
historyVars == <<pinned, garbled, misnamed, changed>>
connVars == <<served, conns>>
wireVars == <<toOperator, toRelay>>
vars == <<hostKeyVars, connVars, relayVars, wireVars, operatorVars, historyVars>>

None == "none"
Threads == {"main"} \cup Senders
Seqs == 0..Modulus - 1
Next1(n) == (n + 1) % Modulus

Messages == {"VERSION", "KEXINIT", "ECDH_INIT", "ECDH_REPLY", "NEWKEYS",
             "SERVICE_REQUEST", "SERVICE_ACCEPT", "USERAUTH_REQUEST", "PK_OK",
             "FAILURE", "SUCCESS", "IGNORE", "REQUEST", "REPLY", "DATA",
             "UNKNOWN", "UNIMPLEMENTED", "DISCONNECT"}
\* names: the sequence number an UNIMPLEMENTED carries; key: the host key
Packets == [msg : Messages, keyed : BOOLEAN, seq : Seqs, names : Seqs,
            key : {Empty} \cup Seeds]
Packet(msg, keyed, seq, names, key) ==
    [msg |-> msg, keyed |-> keyed, seq |-> seq, names |-> names, key |-> key]
NoPacket == [msg |-> "none"]
\* a packet that reads as what was sent: the sequence number counts, and is
\* checked, only where there is a cipher
ReadsWell(p, keyed, seq) == p.keyed = keyed /\ (keyed => p.seq = seq)

RelayPlaces == {"none", "greeting", "sending", "want_version", "want_kexinit",
                "want_init", "switching", "want_newkeys", "want_service",
                "want_auth", "approving", "loop", "closed"}
OperatorPlaces == {"away", "want_version", "want_kexinit", "want_reply",
                   "want_newkeys", "want_accept", "want_auth", "connected",
                   "rekeying", "left"}

TransportTypeOK ==
    /\ served \in Relays \cup {None} /\ conns \in 0..MaxConns
    /\ rpc \in RelayPlaces /\ toSend \in Messages \cup {None}
    /\ sending \in [Threads -> Packets \cup {NoPacket}]
    /\ sendLock \in Threads \cup {None}
    /\ sendSeq \in Seqs /\ recvSeq \in Seqs
    /\ sendKeyed \in BOOLEAN /\ recvKeyed \in BOOLEAN
    /\ sent \in 0..MaxSends
    /\ toOperator \in Seq(Packets) /\ toRelay \in Seq(Packets)
    /\ opc \in OperatorPlaces
    /\ osend \in Seqs /\ orecv \in Seqs /\ okeyed \in BOOLEAN /\ orkeyed \in BOOLEAN
    /\ talk \in 0..MaxTalk
    /\ pinned \in {Empty} \cup Seeds
    /\ unknowns \in Seq(Seqs)
    /\ garbled \in BOOLEAN /\ misnamed \in BOOLEAN /\ changed \in BOOLEAN

Init ==
    /\ HostKeyInit
    /\ served = None /\ conns = 0
    /\ rpc = "none" /\ toSend = None
    /\ sending = [t \in Threads |-> NoPacket] /\ sendLock = None
    /\ sendSeq = 0 /\ recvSeq = 0 /\ sendKeyed = FALSE /\ recvKeyed = FALSE
    /\ sent = 0
    /\ toOperator = <<>> /\ toRelay = <<>>
    /\ opc = "away" /\ osend = 0 /\ orecv = 0 /\ okeyed = FALSE /\ orkeyed = FALSE
    /\ talk = 0 /\ unknowns = <<>>
    /\ pinned = Empty /\ garbled = FALSE /\ misnamed = FALSE /\ changed = FALSE

-----------------------------------------------------------------------------
(* The operator's client: external, except where it meets the code above *)

OperatorSends(msgs) ==
    /\ toRelay' = toRelay \o
          [i \in 1..Len(msgs) |-> Packet(msgs[i], okeyed, (osend + i - 1) % Modulus, 0, Empty)]
    /\ osend' = (osend + Len(msgs)) % Modulus

\* a connection to a relay process that serves: a new SSHConnection
Connect(r) ==
    /\ CanServe(r)
    /\ opc \in {"away", "left"} /\ rpc \in {"none", "closed"}
    /\ conns < MaxConns
    /\ conns' = conns + 1 /\ served' = r
    /\ rpc' = "greeting" /\ toSend' = None
    /\ sending' = [t \in Threads |-> NoPacket] /\ sendLock' = None
    /\ sendSeq' = 0 /\ recvSeq' = 0 /\ sendKeyed' = FALSE /\ recvKeyed' = FALSE
    /\ sent' = 0
    /\ toOperator' = <<>>
    /\ toRelay' = <<Packet("VERSION", FALSE, 0, 0, Empty)>>
    /\ opc' = "want_version"
    /\ osend' = 0 /\ orecv' = 0 /\ okeyed' = FALSE /\ orkeyed' = FALSE
    /\ talk' = 0 /\ unknowns' = <<>>
    /\ UNCHANGED <<hostKeyVars, historyVars>>

\* what the client does on a message: where it goes, and what it sends
OperatorAnswer(place, msg) ==
    CASE place = "want_version" /\ msg = "VERSION" -> <<"want_kexinit", <<"KEXINIT">>>>
      [] place = "want_kexinit" /\ msg = "KEXINIT" -> <<"want_reply", <<"ECDH_INIT">>>>
      [] place = "want_reply" /\ msg = "ECDH_REPLY" -> <<"want_newkeys", <<"NEWKEYS">>>>
      [] place = "want_newkeys" /\ msg = "NEWKEYS" -> <<"want_accept", <<"SERVICE_REQUEST">>>>
      [] place = "want_accept" /\ msg = "SERVICE_ACCEPT" -> <<"want_auth", <<"USERAUTH_REQUEST">>>>
      [] place = "want_auth" /\ msg \in {"PK_OK", "FAILURE"} -> <<"want_auth", <<"USERAUTH_REQUEST">>>>
      [] place = "want_auth" /\ msg = "SUCCESS" -> <<"connected", <<>>>>
      [] place \in {"connected", "rekeying"} /\ msg \in {"DATA", "REPLY", "UNIMPLEMENTED"} -> <<place, <<>>>>
      [] OTHER -> <<"left", <<>>>>

OperatorReads ==
    /\ opc \notin {"away", "left"} /\ toOperator # <<>>
    /\ LET p == Head(toOperator)
           well == ReadsWell(p, orkeyed, orecv)
           known == p.msg = "ECDH_REPLY" => pinned \in {Empty, p.key}
           retries == p.msg \in {"PK_OK", "FAILURE"} => talk < MaxTalk
           answer == IF well /\ known /\ retries THEN OperatorAnswer(opc, p.msg) ELSE <<"left", <<>>>>
       IN /\ opc' = answer[1] /\ OperatorSends(answer[2])
          /\ orecv' = IF p.msg = "VERSION" THEN 0 ELSE Next1(orecv)
          /\ okeyed' = (okeyed \/ "NEWKEYS" \in {answer[2][i] : i \in DOMAIN answer[2]})
          /\ orkeyed' = (orkeyed \/ (well /\ p.msg = "NEWKEYS"))
          /\ talk' = IF p.msg \in {"PK_OK", "FAILURE"} /\ retries THEN talk + 1 ELSE talk
          /\ pinned' = IF p.msg = "ECDH_REPLY" /\ well /\ known THEN p.key ELSE pinned
          /\ changed' = (changed \/ (well /\ ~known))
          /\ garbled' = (garbled \/ ~well)
          /\ misnamed' = (misnamed \/ (well /\ p.msg = "UNIMPLEMENTED"
                                        /\ (unknowns = <<>> \/ p.names # Head(unknowns))))
          /\ unknowns' = IF p.msg = "UNIMPLEMENTED" /\ unknowns # <<>> THEN Tail(unknowns) ELSE unknowns
    /\ toOperator' = Tail(toOperator)
    /\ UNCHANGED <<hostKeyVars, connVars, relayVars>>

\* of its own accord the client sends an IGNORE, and once it is let in a
\* request, a message that the relay does not know, or a KEXINIT, after which
\* it sends nothing more until its keys have changed
OperatorTalks ==
    /\ talk < MaxTalk
    /\ \E msg \in {"IGNORE", "REQUEST", "UNKNOWN", "KEXINIT"} :
          /\ opc = "connected" \/ (msg = "IGNORE" /\ opc \in {"want_kexinit", "want_reply", "want_accept"})
          /\ OperatorSends(<<msg>>)
          /\ unknowns' = IF msg \in {"UNKNOWN", "KEXINIT"} THEN Append(unknowns, osend) ELSE unknowns
          /\ opc' = IF msg = "KEXINIT" THEN "rekeying" ELSE opc
    /\ talk' = talk + 1
    /\ UNCHANGED <<hostKeyVars, connVars, relayVars, historyVars, toOperator, orecv, okeyed, orkeyed>>

\* it goes when it likes, and when the relay has closed the connection
OperatorLeaves ==
    /\ opc \notin {"away", "left"}
    /\ opc' = "left"
    /\ UNCHANGED <<hostKeyVars, connVars, relayVars, historyVars, wireVars,
                   osend, orecv, okeyed, orkeyed, talk, unknowns>>

OperatorSeesEnd == rpc = "closed" /\ toOperator = <<>> /\ OperatorLeaves

-----------------------------------------------------------------------------
(* The relay *)

Goes(place) == rpc' = place /\ toSend' = None
Sends(msg) == rpc' = "sending" /\ toSend' = msg

\* the version line is written without send_lock, before there is anyone else
Greet ==
    /\ rpc = "greeting"
    /\ Goes("want_version")
    /\ toOperator' = Append(toOperator, Packet("VERSION", FALSE, 0, 0, Empty))
    /\ UNCHANGED <<hostKeyVars, connVars, operatorVars, historyVars, toRelay,
                   sending, sendLock, sendSeq, recvSeq, sendKeyed, recvKeyed, sent>>

ReadVersion ==
    /\ rpc = "want_version" /\ toRelay # <<>>
    /\ Sends("KEXINIT")
    /\ toRelay' = Tail(toRelay)
    /\ UNCHANGED <<hostKeyVars, connVars, operatorVars, historyVars, toOperator,
                   sending, sendLock, sendSeq, recvSeq, sendKeyed, recvKeyed, sent>>

\* the message a place of the handshake takes, and what the relay does on a
\* message: IGNORE is skipped in some places only, and of other messages it may
\* refuse what they carry, as algorithms of which it has none
Wanted == [want_kexinit |-> "KEXINIT", want_init |-> "ECDH_INIT",
           want_newkeys |-> "NEWKEYS", want_service |-> "SERVICE_REQUEST",
           want_auth |-> "USERAUTH_REQUEST"]
Reaction(place, msg) ==
    \/ /\ IF place = "loop" THEN msg = "REQUEST" ELSE msg \notin {"IGNORE", "NEWKEYS"}
       /\ Sends("DISCONNECT")
    \/ CASE msg = "IGNORE" /\ place \in {"want_kexinit", "want_service", "loop"} -> Goes(place)
         [] place = "loop" /\ msg # "IGNORE" ->
                Sends(IF msg = "REQUEST" THEN "REPLY" ELSE "UNIMPLEMENTED")
         [] place # "loop" /\ msg = Wanted[place] ->
                (CASE msg = "KEXINIT" -> Goes("want_init")
                   [] msg = "ECDH_INIT" -> Sends("ECDH_REPLY")
                   [] msg = "NEWKEYS" -> Goes("want_service")
                   [] msg = "SERVICE_REQUEST" -> Sends("SERVICE_ACCEPT")
                   [] msg = "USERAUTH_REQUEST" -> Goes("approving"))
         [] OTHER -> Sends("DISCONNECT")

RelayReads ==
    /\ rpc \in {"want_kexinit", "want_init", "want_newkeys", "want_service", "want_auth", "loop"}
    /\ toRelay # <<>>
    /\ LET p == Head(toRelay)
           well == ReadsWell(p, recvKeyed, recvSeq)
       IN /\ IF well THEN Reaction(rpc, p.msg) ELSE Sends("DISCONNECT")
          /\ recvSeq' = IF well THEN Next1(recvSeq) ELSE recvSeq
          /\ recvKeyed' = (recvKeyed \/ (well /\ rpc = "want_newkeys" /\ p.msg = "NEWKEYS"))
          /\ garbled' = (garbled \/ ~well)
    /\ toRelay' = Tail(toRelay)
    /\ UNCHANGED <<hostKeyVars, connVars, operatorVars, pinned, misnamed, changed,
                   toOperator, sending, sendLock, sendSeq, sendKeyed, sent>>

\* mutant: a refusal is not answered
VerdictUnsaid ==
    /\ rpc = "approving"
    /\ \/ \E msg \in {"PK_OK", "SUCCESS"} : Sends(msg)
       \/ Goes("want_auth")
    /\ UNCHANGED <<hostKeyVars, connVars, operatorVars, historyVars, wireVars,
                   sending, sendLock, sendSeq, recvSeq, sendKeyed, recvKeyed, sent>>

\* the request is a query for its key, does not verify, names nobody, or has
\* waited for the reverse client's verdict; or request_auth raises as it sends
Verdict ==
    /\ rpc = "approving"
    /\ \E msg \in {"PK_OK", "FAILURE", "SUCCESS", "DISCONNECT"} : Sends(msg)
    /\ UNCHANGED <<hostKeyVars, connVars, operatorVars, historyVars, wireVars,
                   sending, sendLock, sendSeq, recvSeq, sendKeyed, recvKeyed, sent>>

\* send_payload, which is held up by other senders: a packet is encrypted with
\* the sequence number, and written, before the next one may be
Encrypted(t, msg) ==
    /\ sending[t] = NoPacket
    /\ sending' = [sending EXCEPT ![t] =
          Packet(msg, sendKeyed, sendSeq,
                 IF msg = "UNIMPLEMENTED" THEN (recvSeq + Modulus - 1) % Modulus ELSE 0,
                 IF msg = "ECDH_REPLY" THEN hostSeed[served] ELSE Empty)]
    /\ UNCHANGED <<hostKeyVars, connVars, operatorVars, historyVars, wireVars, rpc,
                   toSend, sendSeq, recvSeq, sendKeyed, recvKeyed>>

MayBegin(t) ==
    IF t = "main" THEN rpc = "sending"
    ELSE sent < MaxSends /\ (rpc = "loop" \/ toSend \in {"REPLY", "UNIMPLEMENTED"})

\* mutant: readers of reverse clients send without the lock
BeginSendUnlocked(t) ==
    /\ MayBegin(t)
    /\ IF t = "main" THEN sendLock = None /\ sendLock' = t ELSE UNCHANGED sendLock
    /\ sent' = IF t = "main" THEN sent ELSE sent + 1
    /\ Encrypted(t, IF t = "main" THEN toSend ELSE "DATA")

BeginSend(t) ==
    /\ MayBegin(t)
    /\ sendLock = None /\ sendLock' = t
    /\ sent' = IF t = "main" THEN sent ELSE sent + 1
    /\ Encrypted(t, IF t = "main" THEN toSend ELSE "DATA")

\* where the connection's thread goes when it has sent the message
AfterSend(msg) ==
    CASE msg = "KEXINIT" -> Goes("want_kexinit")
      [] msg = "ECDH_REPLY" -> Sends("NEWKEYS")
      [] msg = "NEWKEYS" -> Goes("switching")
      [] msg \in {"SERVICE_ACCEPT", "PK_OK", "FAILURE"} -> Goes("want_auth")
      [] msg \in {"SUCCESS", "REPLY", "UNIMPLEMENTED"} -> Goes("loop")
      [] msg = "DISCONNECT" -> Goes("closed")

\* the socket takes the packet, unless it has been closed
EndSend(t) ==
    /\ sending[t] # NoPacket
    /\ sending' = [sending EXCEPT ![t] = NoPacket]
    /\ sendLock' = IF sendLock = t THEN None ELSE sendLock
    /\ IF rpc = "closed" THEN UNCHANGED <<toOperator, sendSeq>>
       ELSE toOperator' = Append(toOperator, sending[t]) /\ sendSeq' = Next1(sendSeq)
    /\ IF t = "main" THEN AfterSend(toSend) ELSE UNCHANGED <<rpc, toSend>>
    /\ UNCHANGED <<hostKeyVars, connVars, operatorVars, historyVars, toRelay,
                   recvSeq, sendKeyed, recvKeyed, sent>>

SetSendCipher ==
    /\ rpc = "switching"
    /\ sendKeyed' = TRUE /\ Goes("want_newkeys")
    /\ UNCHANGED <<hostKeyVars, connVars, operatorVars, historyVars, wireVars,
                   sending, sendLock, sendSeq, recvSeq, recvKeyed, sent>>

\* read_packet meets the end of the stream
RelaySeesEnd ==
    /\ opc = "left" /\ toRelay = <<>>
    /\ rpc \in {"want_version", "want_kexinit", "want_init", "want_newkeys",
                "want_service", "want_auth", "loop"}
    /\ Goes("closed")
    /\ UNCHANGED <<hostKeyVars, connVars, operatorVars, historyVars, wireVars,
                   sending, sendLock, sendSeq, recvSeq, sendKeyed, recvKeyed, sent>>

\* a relay process that dies takes its connection with it
CrashRelay(r) ==
    /\ Crash(r)
    /\ IF r = served /\ rpc # "closed"
       THEN /\ Goes("closed")
            /\ sending' = [t \in Threads |-> NoPacket] /\ sendLock' = None
       ELSE UNCHANGED <<rpc, toSend, sending, sendLock>>
    /\ UNCHANGED <<connVars, operatorVars, historyVars, wireVars, sendSeq, recvSeq,
                   sendKeyed, recvKeyed, sent>>

HostKeySteps ==
    /\ \E r \in Relays : Start(r) \/ Look(r) \/ ReadSeed(r) \/ Create(r) \/ WriteSeed(r)
    /\ UNCHANGED <<connVars, relayVars, wireVars, operatorVars, historyVars>>

MainSteps == Greet \/ ReadVersion \/ RelayReads \/ Verdict \/ SetSendCipher
             \/ RelaySeesEnd \/ BeginSend("main") \/ EndSend("main")

Next ==
    \/ HostKeySteps
    \/ \E r \in Relays : CrashRelay(r) \/ Connect(r)
    \/ MainSteps
    \/ \E t \in Senders : BeginSend(t) \/ EndSend(t)
    \/ OperatorReads \/ OperatorTalks \/ OperatorLeaves

Spec == Init /\ [][Next]_vars

\* threads run; the operator's client reads what it is sent, and sees the end
FairSpec ==
    /\ Spec
    /\ WF_vars(MainSteps)
    /\ \A t \in Senders : WF_vars(EndSend(t))
    /\ WF_vars(OperatorReads) /\ WF_vars(OperatorSeesEnd)

-----------------------------------------------------------------------------
(* Properties *)

\* Every packet is read with the key and the sequence number it was sent with,
\* in both directions: send_payload of the connection's thread and of the
\* readers never interleave, each cipher is set between the NEWKEYS and the
\* next packet, and the numbers count from the start of the connection through
\* the change of keys (relay.py:512-514, 611-616; ssh_packet.py:88-114).
NothingGarbled == ~garbled

\* An operator who has once accepted the relay's host key is never shown
\* another, over restarts, crashes and relays started side by side
\* (keys.py:26-36, relay.py:937).
OneHostKey == ~changed

\* An UNIMPLEMENTED names the packet it answers, though other packets may have
\* come in behind it (relay.py:757-758).
UnimplementedNamesPacket == ~misnamed

\* A handshake comes to an end: the operator is let in, or the connection ends
\* (relay.py:490-510, 618-670).
HandshakeDecided ==
    (opc \notin {"away", "connected", "rekeying", "left"}) ~> (opc \in {"connected", "left"})

\* The safety core of that: during a handshake the two ends never wait for each
\* other, each with nothing on the way to it, though either end goes on by its
\* own account of what the other has sent (relay.py:490-510, 618-670).
NeverBothWait ==
    ~ /\ opc \notin {"away", "connected", "rekeying", "left"} /\ toOperator = <<>>
      /\ rpc \in {"want_version", "want_kexinit", "want_init", "want_newkeys",
                  "want_service", "want_auth", "loop"} /\ toRelay = <<>>

\* An operator's client that asks for new keys gets them, or is told that the
\* connection ends: "The relay terminates SSHv2 for OpenSSH clients"
\* (README.md:17).  The code does not have this property: the KEXINIT is
\* answered UNIMPLEMENTED, and both sides wait.
RekeyCompletes == (opc = "rekeying") ~> (opc # "rekeying")
===============================================================================
