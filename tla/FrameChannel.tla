----------------------------- MODULE FrameChannel ----------------------------
(***************************************************************************)
(* What the WZCP byte stream promises to an agent that writes its frames   *)
(* one after the other: the frames of one connection arrive whole, once    *)
(* and in the order in which they were sent, none is skipped, and what a   *)
(* break of the link loses are the last ones.                              *)
(***************************************************************************)
EXTENDS Naturals, Sequences, Functions

CONSTANT Ids

VARIABLES
    queue,    \* the frames sent and not yet delivered, on this connection
    delivered \* the frames delivered, on this connection

vars == <<queue, delivered>>

Init == queue = << >> /\ delivered = << >>

Send(id) ==
    /\ id \notin Range(queue) \cup Range(delivered)
    /\ queue' = Append(queue, id)
    /\ UNCHANGED delivered

Deliver ==
    /\ queue # << >>
    /\ delivered' = Append(delivered, Head(queue))
    /\ queue' = Tail(queue)

Lose(k) ==
    /\ queue' = SubSeq(queue, 1, k)
    /\ UNCHANGED delivered

Connect ==
    /\ queue' = << >>
    /\ delivered' = << >>

Next ==
    \/ \E id \in Ids : Send(id)
    \/ Deliver
    \/ \E k \in 0 .. Len(queue) : Lose(k)
    \/ Connect

Spec == Init /\ [][Next]_vars
==============================================================================
