------------------------------ MODULE MCPresence -----------------------------
(***************************************************************************)
(* Presence on small instances.  Two gateway instances are what a failover *)
(* needs; agents do not interact, so one stands for all.                   *)
(***************************************************************************)
EXTENDS Presence

CONSTANTS a1, f1, f2

OneAgent == {a1}
TwoFBs == {f1, f2}
OneFB == {f1}

\* f1 may hold a dead session of the agent next to its successor; for a
\* failover one session at f2 is enough.
Slots == [f \in TwoFBs |-> IF f = f1 THEN 2 ELSE 1]
OneSlots == [f \in OneFB |-> 2]

\* What the environment may do besides crashes, silent losses of agents,
\* and reconnects, which are part of every instance.
NoHazards == {}
Unreliable == HazardNames
==============================================================================
