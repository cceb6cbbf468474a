---------------------------- MODULE MCChannelRelay ----------------------------
(***************************************************************************)
(* Instances of ChannelRelay for TLC.                                      *)
(***************************************************************************)
EXTENDS ChannelRelay

CONSTANT First  \* the operator that opens first; operators' names mean nothing

\* One channel is explored with everything that can happen to it.  Once there are
\* two, of one operator or of two, it is their threads that matter: everybody
\* stays, nobody grants, and one frame of data or one request is under way when
\* both are of one operator.  The request is about the first channel, and finds
\* it gone.
TwoAreSimple ==
    /\ owner[1] \in {NoOwner, First}
    /\ channelCounter > 2 =>
         /\ link /\ \A s \in Conns : here[s]
         /\ emitted[1] + emitted[2] + opSent[1] <= IF owner[2] = First THEN 1 ELSE 0
         /\ opSent[2] = 0 /\ (opSent[1] = 1 => 1 \notin sshChannels)
         /\ \A ch \in Chans : kind[ch] = "direct-tcpip" /\ grants[ch] = 0
=============================================================================
