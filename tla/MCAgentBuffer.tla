----------------------------- MODULE MCAgentBuffer ---------------------------
(***************************************************************************)
(* AgentBuffer on a ring of a few slots: in service, and with reloads.     *)
(***************************************************************************)
EXTENDS AgentBuffer

ShorterOrLonger == {2, 4}
==============================================================================
