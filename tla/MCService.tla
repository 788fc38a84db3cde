------------------------------- MODULE MCService -----------------------------
(***************************************************************************)
(* Service with two reports and a page of one: the constants are numbers,  *)
(* which service.cfg gives.                                                *)
(***************************************************************************)
EXTENDS Service
==============================================================================
