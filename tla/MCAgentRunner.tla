---------------------------- MODULE MCAgentRunner ----------------------------
(* Instances of AgentRunner.  The messages a, b, c and d belong to session  *)
(* s1, where c repeats the text of b and d is a second delivery of a; x     *)
(* belongs to s2.  A .cfg takes the messages that its question needs.       *)
EXTENDS AgentRunner

CONSTANTS a, b, c, d, stop, x, s1, s2

MCSessionOf == [m \in Message |-> IF m = x THEN s2 ELSE s1]
MCIdOf == [m \in Message |-> IF m = d THEN a ELSE m]
MCTextOf == [m \in Message |-> IF m = d THEN a ELSE IF m = c THEN b ELSE m]
=============================================================================
