----------------------------- MODULE OperatorAuth -----------------------------
(***************************************************************************)
(* The approval of operators: threads of the relay that run _authenticate  *)
(* and RegisteredClient.request_auth (relay.py), the reader of each client *)
(* connection, and the one machine that answers, which runs                *)
(* ReverseClientConnection.run with OperatorApproval (client.py).          *)
(*                                                                         *)
(* The machine registers over one connection after another; its trust file *)
(* outlives them and outlives a crash.  All that operator threads and the  *)
(* reader share is pendingAuth and the events in it; a request may time    *)
(* out while its answer is on the way, and the human may answer long after *)
(* whoever asked has gone.                                                 *)
(***************************************************************************)
EXTENDS Integers, Sequences

CONSTANTS Operators,     \* SSH connections of operators
          Keys,          \* their public keys
          Conns,         \* the machine's connections to the relay
          NoConn,        \* no connection is registered
          Modes,         \* whether REVERSH_OPERATOR_KEYS is set: booleans
          Allowed,       \* the keys it lists
          Interactive,   \* the client's standard input is a terminal
          InitialKnown,  \* the fingerprints in known_operators at the start
          MaxTries       \* bound: requests of all operators

ASSUME NoConnAssumption == NoConn \notin Conns
ASSUME SomeAssumption == Keys # {} /\ Conns # {}
ASSUME ModeAssumption ==
    Modes \subseteq BOOLEAN /\ Modes # {} /\ Interactive \in BOOLEAN
ASSUME KeysAssumption == Allowed \subseteq Keys /\ InitialKnown \subseteq Keys
ASSUME MaxTriesAssumption == MaxTries \in Nat

VARIABLES
    opc,         \* where an operator's thread stands
    okey,        \* the key of its current request
    oconn,       \* the client it asks: the local variable client
    oid,         \* auth_id of its current request
    event,       \* its PendingValue: "unset", or the answer
    tries,       \* requests made
    registered,  \* the client registry.get answers with
    alive,       \* RegisteredClient.alive
    authCounter, \* RegisteredClient._auth_counter
    pendingAuth, \* RegisteredClient._pending_auth: <<auth_id, operator>>
    toMachine,   \* AUTH_REQUEST frames on the way: <<auth_id, key>>
    toRelay,     \* AUTH_RESPONSE frames on the way: <<auth_id, ok>>
    link,        \* the connection works
    strict,      \* the machine has an allowlist
    mconn,       \* the machine's current connection
    mpc,         \* where the machine's reader stands
    mreq,        \* the request it handles
    mok,         \* what approve() returned first
    known,       \* the fingerprints in known_operators
    said         \* history: <<conn, auth_id, key, answer>> of the human

relayVars == <<opc, okey, oconn, oid, event, tries, registered, alive,
               authCounter, pendingAuth>>
machineVars == <<strict, mconn, mpc, mreq, mok, known, said>>
netVars == <<toMachine, toRelay, link>>
vars == <<relayVars, machineVars, netVars>>

OPlaces == {"idle", "asking", "sending", "waiting", "expired", "authed", "ended"}
MPlaces == {"reading", "prompting", "persisting", "responding"}
Answers == {"once", "trust", "reject"}

TypeOK ==
    /\ opc \in [Operators -> OPlaces]
    /\ okey \in [Operators -> Keys]
    /\ oconn \in [Operators -> Conns]
    /\ oid \in [Operators -> Nat]
    /\ event \in [Operators -> {"unset", "yes", "no"}]
    /\ tries \in Nat
    /\ registered \in Conns \cup {NoConn}
    /\ alive \in [Conns -> BOOLEAN]
    /\ authCounter \in [Conns -> Nat]
    /\ pendingAuth \in [Conns -> SUBSET (Nat \X Operators)]
    /\ toMachine \in [Conns -> Seq(Nat \X Keys)]
    /\ toRelay \in [Conns -> Seq(Nat \X BOOLEAN)]
    /\ link \in [Conns -> BOOLEAN]
    /\ strict \in BOOLEAN
    /\ mconn \in Conns \cup {NoConn}
    /\ mpc \in MPlaces
    /\ mreq \in Nat \X Keys
    /\ mok \in BOOLEAN
    /\ known \subseteq Keys
    /\ said \subseteq Conns \X Nat \X Keys \X Answers

\* what a local variable holds before its first assignment
AnyKey == CHOOSE k \in Keys : TRUE
AnyConn == CHOOSE c \in Conns : TRUE

Init ==
    /\ opc = [o \in Operators |-> "idle"]
    /\ okey = [o \in Operators |-> AnyKey]
    /\ oconn = [o \in Operators |-> AnyConn]
    /\ oid = [o \in Operators |-> 0]
    /\ event = [o \in Operators |-> "unset"]
    /\ tries = 0
    /\ registered = NoConn
    /\ alive = [c \in Conns |-> FALSE]
    /\ authCounter = [c \in Conns |-> 1]
    /\ pendingAuth = [c \in Conns |-> {}]
    /\ toMachine = [c \in Conns |-> <<>>]
    /\ toRelay = [c \in Conns |-> <<>>]
    /\ link = [c \in Conns |-> FALSE]
    /\ strict \in Modes
    /\ mconn = NoConn
    /\ mpc = "reading"
    /\ mreq = <<0, AnyKey>>
    /\ mok = FALSE
    /\ known = InitialKnown
    /\ said = {}

-----------------------------------------------------------------------------
(* An operator's thread.  Requests that are refused before the client is    *)
(* asked (another method or key type, a bad signature, an identifier nobody *)
(* registered) change nothing and are answered with USERAUTH_FAILURE.       *)

\* a signed request for the machine's identifier, and registry.get
AskFor(o, k) ==
    /\ opc[o] = "idle"
    /\ tries < MaxTries
    /\ registered # NoConn /\ alive[registered]
    /\ opc' = [opc EXCEPT ![o] = "asking"]
    /\ okey' = [okey EXCEPT ![o] = k]
    /\ oconn' = [oconn EXCEPT ![o] = registered]
    /\ tries' = tries + 1
    /\ UNCHANGED <<oid, event, registered, alive, authCounter, pendingAuth,
                   machineVars, netVars>>

\* mutant: the counter is left where it is
AllocateSameId(o) ==
    /\ opc[o] = "asking"
    /\ opc' = [opc EXCEPT ![o] = "sending"]
    /\ oid' = [oid EXCEPT ![o] = authCounter[oconn[o]]]
    /\ event' = [event EXCEPT ![o] = "unset"]
    /\ pendingAuth' = [pendingAuth EXCEPT ![oconn[o]] =
                          {p \in @ : p[1] # oid'[o]} \cup {<<oid'[o], o>>}]
    /\ UNCHANGED <<okey, oconn, tries, registered, alive, authCounter,
                   machineVars, netVars>>

\* request_auth under its lock
Allocate(o) ==
    /\ opc[o] = "asking"
    /\ opc' = [opc EXCEPT ![o] = "sending"]
    /\ oid' = [oid EXCEPT ![o] = authCounter[oconn[o]]]
    /\ event' = [event EXCEPT ![o] = "unset"]
    /\ authCounter' = [authCounter EXCEPT ![oconn[o]] = @ + 1]
    /\ pendingAuth' = [pendingAuth EXCEPT ![oconn[o]] =
                          {p \in @ : p[1] # oid'[o]} \cup {<<oid'[o], o>>}]
    /\ UNCHANGED <<okey, oconn, tries, registered, alive, machineVars, netVars>>

\* writing AUTH_REQUEST; on a connection that was lost it may go nowhere
Send(o) ==
    /\ opc[o] = "sending"
    /\ opc' = [opc EXCEPT ![o] = "waiting"]
    /\ \/ /\ link[oconn[o]]
          /\ toMachine' = [toMachine EXCEPT ![oconn[o]] =
                              Append(@, <<oid[o], okey[o]>>)]
       \/ /\ ~link[oconn[o]] /\ alive[oconn[o]]
          /\ UNCHANGED toMachine
    /\ UNCHANGED <<okey, oconn, oid, event, tries, registered, alive,
                   authCounter, pendingAuth, machineVars, toRelay, link>>

\* ... or raises, which ends the operator's connection
SendFails(o) ==
    /\ opc[o] = "sending"
    /\ ~link[oconn[o]]
    /\ opc' = [opc EXCEPT ![o] = "ended"]
    /\ UNCHANGED <<okey, oconn, oid, event, tries, registered, alive,
                   authCounter, pendingAuth, machineVars, netVars>>

\* event.wait returns True
Wake(o) ==
    /\ opc[o] = "waiting"
    /\ event[o] # "unset"
    /\ opc' = [opc EXCEPT ![o] = IF event[o] = "yes" THEN "authed" ELSE "idle"]
    /\ UNCHANGED <<okey, oconn, oid, event, tries, registered, alive,
                   authCounter, pendingAuth, machineVars, netVars>>

\* event.wait(300) returns False ...
Expire(o) ==
    /\ opc[o] = "waiting"
    /\ event[o] = "unset"
    /\ opc' = [opc EXCEPT ![o] = "expired"]
    /\ UNCHANGED <<okey, oconn, oid, event, tries, registered, alive,
                   authCounter, pendingAuth, machineVars, netVars>>

\* mutant: every pending request of the client is dropped
GiveUpAll(o) ==
    /\ opc[o] = "expired"
    /\ opc' = [opc EXCEPT ![o] = "idle"]
    /\ pendingAuth' = [pendingAuth EXCEPT ![oconn[o]] = {}]
    /\ UNCHANGED <<okey, oconn, oid, event, tries, registered, alive,
                   authCounter, machineVars, netVars>>

\* ... and only later does the thread take its entry out, and return False
GiveUp(o) ==
    /\ opc[o] = "expired"
    /\ opc' = [opc EXCEPT ![o] = "idle"]
    /\ pendingAuth' = [pendingAuth EXCEPT ![oconn[o]] =
                          {p \in @ : p[1] # oid[o]}]
    /\ UNCHANGED <<okey, oconn, oid, event, tries, registered, alive,
                   authCounter, machineVars, netVars>>

\* the operator's SSH client goes away; its thread notices at its next write
OperatorLeaves(o) ==
    /\ opc[o] \in {"idle", "authed"}
    /\ opc' = [opc EXCEPT ![o] = "ended"]
    /\ UNCHANGED <<okey, oconn, oid, event, tries, registered, alive,
                   authCounter, pendingAuth, machineVars, netVars>>

-----------------------------------------------------------------------------
(* The reader of a client connection *)

\* mutant: the answer goes to whichever request is pending
DeliverToAnyone(c, id, ok) ==
    /\ event' = [o \in Operators |->
                    IF \E n \in 1..authCounter[c] : <<n, o>> \in pendingAuth[c]
                    THEN IF ok THEN "yes" ELSE "no" ELSE event[o]]
    /\ pendingAuth' = [pendingAuth EXCEPT ![c] = {}]

\* pop(auth_id), and if there was one, its value and its event
Deliver(c, id, ok) ==
    /\ event' = [o \in Operators |->
                    IF <<id, o>> \in pendingAuth[c]
                    THEN IF ok THEN "yes" ELSE "no" ELSE event[o]]
    /\ pendingAuth' = [pendingAuth EXCEPT ![c] = {p \in @ : p[1] # id}]

ReadResponse(c) ==
    /\ alive[c]
    /\ toRelay[c] # <<>>
    /\ Deliver(c, Head(toRelay[c])[1], Head(toRelay[c])[2])
    /\ toRelay' = [toRelay EXCEPT ![c] = Tail(@)]
    /\ UNCHANGED <<opc, okey, oconn, oid, tries, registered, alive, authCounter,
                   machineVars, toMachine, link>>

\* the reader fails and close() runs; it wakes none of those that wait
CloseClient(c) ==
    /\ alive[c]
    /\ alive' = [alive EXCEPT ![c] = FALSE]
    /\ registered' = IF registered = c THEN NoConn ELSE registered
    /\ link' = [link EXCEPT ![c] = FALSE]
    /\ UNCHANGED <<opc, okey, oconn, oid, event, tries, authCounter,
                   pendingAuth, machineVars, toMachine, toRelay>>

-----------------------------------------------------------------------------
(* The machine.  Its reader handles one frame at a time and does not notice *)
(* a lost connection while it waits for the human.                          *)

\* run_forever connects and registers; only after the relay has given up the
\* connection before (module Registration looks at what happens otherwise)
Register(c) ==
    /\ mpc = "reading"
    /\ mconn # NoConn => ~link[mconn]
    /\ registered = NoConn
    /\ authCounter[c] = 1 /\ ~alive[c] /\ c # mconn
    /\ \A o \in Operators : opc[o] = "asking" => oconn[o] # c
    /\ registered' = c
    /\ mconn' = c
    /\ alive' = [alive EXCEPT ![c] = TRUE]
    /\ link' = [link EXCEPT ![c] = TRUE]
    /\ UNCHANGED <<opc, okey, oconn, oid, event, tries, authCounter,
                   pendingAuth, strict, mpc, mreq, mok, known, said, toMachine,
                   toRelay>>

\* OperatorApproval.approve up to the prompt
Approve(k) ==
    IF strict THEN IF k \in Allowed THEN "yes" ELSE "no"
    ELSE IF k \in known THEN "yes"
    ELSE IF Interactive THEN "ask" ELSE "no"

ReadRequest ==
    /\ mpc = "reading"
    /\ mconn # NoConn
    /\ toMachine[mconn] # <<>>
    /\ LET request == Head(toMachine[mconn]) IN
         /\ mreq' = request
         /\ mpc' = IF Approve(request[2]) = "ask" THEN "prompting" ELSE "responding"
         /\ mok' = (Approve(request[2]) = "yes")
    /\ toMachine' = [toMachine EXCEPT ![mconn] = Tail(@)]
    /\ UNCHANGED <<relayVars, strict, mconn, known, said, toRelay, link>>

\* mutants: "trust" answers before it persists; any approval persists
AfterPromptRespond(a) == "responding"
AfterPromptPersist(a) == IF a # "reject" THEN "persisting" ELSE "responding"

AfterPrompt(a) == IF a = "trust" THEN "persisting" ELSE "responding"

HumanAnswers(a) ==
    /\ mpc = "prompting"
    /\ mok' = (a # "reject")
    /\ mpc' = AfterPrompt(a)
    /\ said' = said \cup {<<mconn, mreq[1], mreq[2], a>>}
    /\ UNCHANGED <<relayVars, strict, mconn, mreq, known, netVars>>

Persist ==
    /\ mpc = "persisting"
    /\ known' = known \cup {mreq[2]}
    /\ mpc' = "responding"
    /\ UNCHANGED <<relayVars, strict, mconn, mreq, mok, said, netVars>>

\* writing AUTH_RESPONSE; without the connection it is lost, or raises
Respond ==
    /\ mpc = "responding"
    /\ mpc' = "reading"
    /\ toRelay' = IF link[mconn]
                  THEN [toRelay EXCEPT ![mconn] = Append(@, <<mreq[1], mok>>)]
                  ELSE toRelay
    /\ UNCHANGED <<relayVars, strict, mconn, mreq, mok, known, said, toMachine,
                   link>>

\* the connection breaks; what was sent before may still be read
LoseLink(c) ==
    /\ link[c]
    /\ link' = [link EXCEPT ![c] = FALSE]
    /\ UNCHANGED <<relayVars, machineVars, toMachine, toRelay>>

\* the client process dies wherever it stands and is started again
Crash ==
    /\ mconn # NoConn
    /\ mpc' = "reading"
    /\ link' = [link EXCEPT ![mconn] = FALSE]
    /\ toMachine' = [toMachine EXCEPT ![mconn] = <<>>]
    /\ UNCHANGED <<relayVars, strict, mconn, mreq, mok, known, said, toRelay>>

-----------------------------------------------------------------------------
OperatorStep(o) ==
    \/ \E k \in Keys : AskFor(o, k)
    \/ Allocate(o) \/ Send(o) \/ SendFails(o)
    \/ Wake(o) \/ Expire(o) \/ GiveUp(o) \/ OperatorLeaves(o)

MachineStep ==
    \/ \E c \in Conns : Register(c)
    \/ ReadRequest \/ (\E a \in Answers : HumanAnswers(a))
    \/ Persist \/ Respond \/ Crash

ConnStep(c) == ReadResponse(c) \/ CloseClient(c) \/ LoseLink(c)

Next ==
    \/ \E o \in Operators : OperatorStep(o)
    \/ MachineStep
    \/ \E c \in Conns : ConnStep(c)

Spec == Init /\ [][Next]_vars

-----------------------------------------------------------------------------
(* Properties *)

\* the human said "trust" to this key, at some request
Trusted(k) == \E r \in said : r[3] = k /\ r[4] = "trust"

\* Why key k of request id on connection c may be let in
Approved(c, id, k) ==
    IF strict THEN k \in Allowed
    ELSE \/ k \in InitialKnown
         \/ <<c, id, k, "once">> \in said
         \/ Trusted(k)

\* Whoever is let in has a key of the allowlist when there is one; otherwise
\* the key was trusted, or the human said yes to this very request: no late,
\* crossed or repeated answer lets in anybody else, whatever times out, and no
\* number of reconnections or crashes widens the trust (relay.py:151-163,
\* 209-214; client.py:115-143, 173-178).
AccessTracesToApproval ==
    \A o \in Operators :
        opc[o] = "authed" => Approved(oconn[o], oid[o], okey[o])

\* A "yes, once" lets in one operator: two that were let in hold different
\* requests (relay.py:152-156).
ApprovalsNotShared ==
    \A o, p \in Operators :
        /\ o # p /\ opc[o] = "authed" /\ opc[p] = "authed"
        => <<oconn[o], oid[o]>> # <<oconn[p], oid[p]>>

\* An operator that waits can still be answered while the client's reader runs: its
\* entry is in the table, or its event is set.  A request that expires takes no other
\* one with it (relay.py:156, 158-162, 211-214).  The end of the client sets no event
\* (135-149): after it the entry is still there, nobody answers, and the operator
\* waits out its timeout.
WaitersAreReachable ==
    \A o \in Operators :
        opc[o] \in {"sending", "waiting"} =>
            <<oid[o], o>> \in pendingAuth[oconn[o]] \/ event[o] # "unset"

\* Under an allowlist the trust file and the human have no part: nothing is
\* prompted and nothing is persisted (client.py:116-121, 140-142).
StrictNeverPrompts ==
    strict => mpc \notin {"prompting", "persisting"} /\ known = InitialKnown

\* An operator let in because the human said "trust" is in known_operators by
\* then, so a crash afterwards does not ask again (client.py:176-178).
TrustIsPersistedFirst ==
    \A o \in Operators :
        /\ opc[o] = "authed"
        /\ <<oconn[o], oid[o], okey[o], "trust">> \in said
        => okey[o] \in known

\* "Once" is not "trust": what is in known_operators was there or was trusted
\* by the human, through every reconnection and crash (client.py:130-138).
OnlyTrustPersists ==
    \A k \in known \ InitialKnown : Trusted(k)
=============================================================================
