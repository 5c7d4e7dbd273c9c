----------------------------- MODULE MCGateway -----------------------------
(* Instance of Gateway.                                                     *)
EXTENDS Gateway, TLC

CONSTANTS p1, t1
=============================================================================
