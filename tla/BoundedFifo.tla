------------------------------ MODULE BoundedFifo ----------------------------
(***************************************************************************)
(* What the agent's anti-flooding buffer promises to the threads that use  *)
(* it: a queue of at most Capacity messages that gives the messages out in *)
(* the order it took them, one at a time, that refuses a message only when *)
(* it is full, and loses none that it accepted.                            *)
(***************************************************************************)
EXTENDS Naturals, Sequences

CONSTANTS Messages, Capacity, None

VARIABLES
    queue, \* the messages accepted and not yet given out
    out    \* the message that is being sent, or None

vars == <<queue, out>>

Init == queue = << >> /\ out = None

\* A message is accepted.
Put(m) ==
    /\ Len(queue) < Capacity
    /\ queue' = Append(queue, m)
    /\ UNCHANGED out

\* The oldest message is given out.
Get ==
    /\ queue # << >>
    /\ out = None
    /\ out' = Head(queue)
    /\ queue' = Tail(queue)

\* The message given out has been sent, or could not be.
Done ==
    /\ out # None
    /\ out' = None
    /\ UNCHANGED queue

Next == (\E m \in Messages : Put(m)) \/ Get \/ Done

\* What a step may do, and that messages keep leaving.
Safety == Init /\ [][Next]_vars

Spec == Safety /\ WF_vars(Get) /\ WF_vars(Done)
==============================================================================
