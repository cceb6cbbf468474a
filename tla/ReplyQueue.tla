------------------------------ MODULE ReplyQueue ------------------------------
(***************************************************************************)
(* What a server with pipelined requests promises: requests are numbered   *)
(* as they are asked, each is answered at most once, and the answers come  *)
(* in the order of the requests.  Nothing is said of when, and the server  *)
(* may stop.  Module SftpServer implements this specification.             *)
(***************************************************************************)
EXTENDS Naturals, Sequences

VARIABLES asked,   \* requests asked so far
          replies  \* the requests answered so far, in the order of the answers

queueVars == <<asked, replies>>

QueueInit == asked = 0 /\ replies = <<>>

Ask ==
    /\ asked' = asked + 1
    /\ UNCHANGED replies

Reply ==
    /\ Len(replies) < asked
    /\ replies' = Append(replies, Len(replies) + 1)
    /\ UNCHANGED asked

QueueSpec == QueueInit /\ [][Ask \/ Reply]_queueVars
=============================================================================
