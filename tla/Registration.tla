----------------------------- MODULE Registration -----------------------------
(***************************************************************************)
(* Registration end to end: machines that run ReverseClient.run_forever    *)
(* (client.py) against the relay's registry (ClientRegistry).  A machine   *)
(* connects, registers and runs; when its connection fails it sleeps and   *)
(* connects again, and when it is told that its registration is rejected   *)
(* it gives up.                                                            *)
(*                                                                         *)
(* run_forever never closes a connection it leaves, and a connection may   *)
(* fail at one end only, so the relay learns of it at a time of its own    *)
(* (PeerDown), perhaps after the machine's next connection.                *)
(***************************************************************************)
EXTENDS ClientRegistry

CONSTANTS Machines,     \* the reverse clients
          MachineIdent  \* their --identifier

ASSUME MachineIdentAssumption == MachineIdent \in [Machines -> Identifiers]

VARIABLES mstate,  \* where run_forever stands
          mconn,   \* the connection it made last
          owner    \* the machine at the other end of a connection

mvars == <<mstate, mconn, owner>>
rvars == <<vars, mvars>>

MStates == {"connecting", "registering", "running", "sleeping", "exited"}

RegistrationTypeOK ==
    /\ TypeOK
    /\ mstate \in [Machines -> MStates]
    /\ mconn \in [Machines -> Conns \cup {NoConn}]
    /\ owner \in [Conns -> Machines \cup {NoConn}]

RegistrationInit ==
    /\ Init
    /\ mstate = [m \in Machines |-> "connecting"]
    /\ mconn = [m \in Machines |-> NoConn]
    /\ owner = [c \in Conns |-> NoConn]

-----------------------------------------------------------------------------
(* The machine *)

Connect(m, c) ==
    /\ mstate[m] = "connecting"
    /\ Accept(c)
    /\ mconn' = [mconn EXCEPT ![m] = c]
    /\ owner' = [owner EXCEPT ![c] = m]
    /\ mstate' = [mstate EXCEPT ![m] = "registering"]

\* mutant: any answer is taken for an approval
OutcomeAny(frame) == "running"

\* the first frame decides: an approval, a rejection, or anything else
Outcome(frame) == CASE frame = "ok" -> "running"
                    [] frame = "no" -> "exited"
                    [] OTHER -> "sleeping"

ReadResult(m) ==
    /\ mstate[m] = "registering"
    /\ wire[mconn[m]] # <<>>
    /\ mstate' = [mstate EXCEPT ![m] = Outcome(Head(wire[mconn[m]]))]
    /\ UNCHANGED <<vars, mconn, owner>>

\* reading or handling a frame raises, for whatever reason
ConnectionFails(m) ==
    /\ mstate[m] \in {"registering", "running"}
    /\ mstate' = [mstate EXCEPT ![m] = "sleeping"]
    /\ UNCHANGED <<vars, mconn, owner>>

Retry(m) ==
    /\ mstate[m] = "sleeping"
    /\ mstate' = [mstate EXCEPT ![m] = "connecting"]
    /\ UNCHANGED <<vars, mconn, owner>>

-----------------------------------------------------------------------------
(* The relay.  The frame it reads first is the machine's REGISTER, unless   *)
(* the connection fails before it.                                          *)

ReadRegister(c) ==
    /\ owner[c] # NoConn
    /\ RegisterFrame(c, MachineIdent[owner[c]])
    /\ UNCHANGED mvars

LoseRegister(c) ==
    /\ ~up[c]
    /\ BadFirstFrame(c) /\ wire' = wire
    /\ UNCHANGED mvars

RelayStep(c) ==
    /\ \/ AddClient(c) \/ AddRefused(c)
       \/ Reject(c) \/ Answer(c) \/ AnswerFails(c)
       \/ HandleFrame(c) \/ FrameHandled(c)
       \/ ReaderFails(c) \/ CloseRemove(c) \/ CloseSocket(c)
       \/ PeerDown(c)
    /\ UNCHANGED mvars

OperatorStep(o) ==
    /\ (\E i \in Identifiers : OperatorGet(o, i)) \/ OperatorSend(o)
    /\ UNCHANGED mvars

RegistrationNext ==
    \/ \E m \in Machines :
         \/ \E c \in Conns : Connect(m, c)
         \/ ReadResult(m) \/ ConnectionFails(m) \/ Retry(m)
    \/ \E c \in Conns : ReadRegister(c) \/ LoseRegister(c) \/ RelayStep(c)
    \/ \E o \in Operators : OperatorStep(o)

RegistrationSpec == RegistrationInit /\ [][RegistrationNext]_rvars

\* A thread of the relay goes on, but for the handling of a frame; a machine reads
\* what was written to it, and learns of a connection that either end has closed.
RegistrationFairSpec ==
    /\ RegistrationSpec
    /\ \A c \in Conns :
         /\ WF_rvars(ThreadStep(c) /\ UNCHANGED mvars)
         /\ SF_rvars(MeetsEnd(c) /\ UNCHANGED mvars)
         /\ WF_rvars(ReadRegister(c)) /\ WF_rvars(LoseRegister(c))
    /\ \A m \in Machines :
         /\ WF_rvars(ReadResult(m))
         /\ WF_rvars(mconn[m] # NoConn /\ (~up[mconn[m]] \/ ~SocketOpen(mconn[m]))
                       /\ ConnectionFails(m))

-----------------------------------------------------------------------------
(* Properties *)

\* A machine that was told "registered" is the one its identifier leads to, or
\* the relay has begun to close its connection: the answer is never sent to a
\* connection that add() did not admit, nor to one that was replaced since
\* (client.py:161-164, 576-579; relay.py:1011-1018).
ToldSoIsRegistered ==
    \A m \in Machines :
        mstate[m] = "running" =>
            \/ clients[MachineIdent[m]] = mconn[m]
            \/ ~alive[mconn[m]]

\* Two machines with the same identifier are never both served: of two that run
\* at once, the relay has given one up (relay.py:95-101).
NoTwoServed ==
    \A m, n \in Machines :
        /\ m # n /\ MachineIdent[m] = MachineIdent[n]
        /\ mstate[m] = "running" /\ mstate[n] = "running"
        => ~(alive[mconn[m]] /\ alive[mconn[n]])

\* A machine that waits for its registration result gets one, or learns that
\* its connection is gone: no path through the relay's handler leaves a
\* connection open and unanswered (relay.py:997-1024).
RegistrationDecided ==
    \A m \in Machines : (mstate[m] = "registering") ~> (mstate[m] # "registering")

\* The safety core of that: whoever still waits has a frame to read, or a handler
\* that owes it one, or a socket the relay has closed.  No handler goes on to
\* serve a client, nor ends, with its answer forgotten (relay.py:1011-1024).
AnswerIsDue ==
    \A m \in Machines :
        mstate[m] = "registering" =>
            \/ wire[mconn[m]] # <<>>
            \/ pc[mconn[m]] \in {"accepted", "adding", "rejecting", "answering"}
            \/ ~SocketOpen(mconn[m])

\* A machine gives up only to another machine that uses its identifier; alone,
\* it runs forever, as "run_forever" (client.py:563) and the bootstrap script's
\* "use Ctrl-C to stop" say.  The code does not have this property.
GivesUpOnlyToAnother ==
    \A m \in Machines :
        mstate[m] = "exited" =>
            \E n \in Machines \ {m} : MachineIdent[n] = MachineIdent[m]
=============================================================================
