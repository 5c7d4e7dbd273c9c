--------------------------- MODULE MCExtensionHost ---------------------------
(* Instances of ExtensionHost: two directories, of which the second has npm  *)
(* dependencies and the first may be discovered twice, as e1 and later as e3,  *)
(* and tool calls i and j.                                                   *)
EXTENDS ExtensionHost, TLC

CONSTANTS n1, n2, e1, e2, e3, i, j

MCNameOf == [e \in Ext |-> IF e = e2 THEN n2 ELSE n1]

\* Bounds of the run with two directories: it ends with the shutdown, and the second
\* extension is forked only while the first has not been discovered anew.
BeforeShutdown == shutdown = "no"

OnePlot == status[e3] = "none" \/ \A child \in Child : extOf[child] # e2
=============================================================================
