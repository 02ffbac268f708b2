---------------------------- MODULE MCGossipMesh ----------------------------
(* Three nodes in a line: all of them gossip, or the last one only listens. *)
EXTENDS GossipMesh

CONSTANTS a, b, c, x, y

Line == [n \in {a, b, c} |-> IF n = b THEN {a, c} ELSE {b}]
LineToListener == [Line EXCEPT ![c] = {}]

FromBothEnds == [id \in Ids |-> IF id = x THEN a ELSE c]

\* x has the hops to be echoed, y just those to reach the other end.
HopsAndEcho == [id \in Ids |-> IF id = x THEN 3 ELSE 2]
TwoHops == [id \in Ids |-> 2]

DistinctPrefixes == [id \in Ids |-> id]
=============================================================================
