------------------------------ MODULE MCGateway ------------------------------
(***************************************************************************)
(* Gateway on a small instance.  Two connection slots are what a reconnect *)
(* needs: the half-open session and its successor.                         *)
(***************************************************************************)
EXTENDS Gateway

CONSTANTS a1, c1, c2

OneAgent == {a1}
TwoConns == {c1, c2}
==============================================================================
