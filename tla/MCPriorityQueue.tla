--------------------------- MODULE MCPriorityQueue ---------------------------
(* Two kinds of transaction that differ in urgency, one control message    *)
(* and one far topology update: every tier is used and overflows.          *)
EXTENDS PriorityQueue

Shape(type, ttl, hops) == [type |-> type, ttl |-> ttl, hops |-> hops]

MixedShapes == {Shape("Transaction", 1, 0), Shape("Transaction", 3, 0),
                Shape("SyncRequest", 0, 0), Shape("TopologyUpdate", 0, 6)}
=============================================================================
