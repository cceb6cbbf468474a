------------------------------ MODULE FrameStream ------------------------------
(***************************************************************************)
(* What the two ends of the private protocol promise each other: frames    *)
(* that many threads send arrive one by one, whole, and in the order in    *)
(* which the sender accepted them.  The stream ends only when the sender   *)
(* has stopped, and then no more than one frame is lost.                   *)
(*                                                                         *)
(* A notice that the sender gives once, beside that order, may come        *)
(* between any two frames.  The stream may break when the sender has       *)
(* written something that is no frame, or while the notice is under way;   *)
(* from then on garbage may arrive as well, and it may end at any time.    *)
(***************************************************************************)
EXTENDS Naturals, Sequences

VARIABLES accepted,  \* frames accepted so far; each is named by its number
          delivered, \* the frames that have arrived
          notice,    \* "none" if there is none to give, "due", "sent", "read"
          foreign,   \* what else has been written
          broken,
          stopped,   \* the sender accepts no more
          over       \* the receiver has seen the end

streamVars == <<accepted, delivered, notice, foreign, broken, stopped, over>>

StreamInit ==
    /\ accepted = 0 /\ delivered = <<>>
    /\ notice \in {"none", "due"}
    /\ foreign = 0 /\ broken = FALSE
    /\ stopped = FALSE /\ over = FALSE

Accept ==
    /\ ~stopped
    /\ accepted' = accepted + 1
    /\ UNCHANGED <<delivered, notice, foreign, broken, stopped, over>>

Deliver ==
    /\ Len(delivered) < accepted /\ ~over
    /\ delivered' = Append(delivered, Len(delivered) + 1)
    /\ UNCHANGED <<accepted, notice, foreign, broken, stopped, over>>

Notify ==
    /\ notice = "due" /\ ~stopped
    /\ notice' = "sent"
    /\ UNCHANGED <<accepted, delivered, foreign, broken, stopped, over>>

Notice ==
    /\ notice = "sent" /\ ~over
    /\ notice' = "read"
    /\ UNCHANGED <<accepted, delivered, foreign, broken, stopped, over>>

WriteOther ==
    /\ foreign' = foreign + 1
    /\ UNCHANGED <<accepted, delivered, notice, broken, stopped, over>>

Break ==
    /\ foreign > 0 \/ notice = "sent"
    /\ broken' = TRUE
    /\ UNCHANGED <<accepted, delivered, notice, foreign, stopped, over>>

Garbage ==
    /\ broken /\ ~over
    /\ delivered' = Append(delivered, 0)
    /\ UNCHANGED <<accepted, notice, foreign, broken, stopped, over>>

Stop ==
    /\ stopped' = TRUE
    /\ UNCHANGED <<accepted, delivered, notice, foreign, broken, over>>

End ==
    /\ broken \/ (stopped /\ accepted <= Len(delivered) + 1 /\ notice # "sent")
    /\ over' = TRUE
    /\ UNCHANGED <<accepted, delivered, notice, foreign, broken, stopped>>

StreamNext == Accept \/ Deliver \/ Notify \/ Notice \/ WriteOther \/ Break \/ Garbage \/ Stop \/ End

StreamSpec == StreamInit /\ [][StreamNext]_streamVars
=============================================================================
