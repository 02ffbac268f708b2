------------------------- MODULE MCTransportManager -------------------------
(* Two peers at a limit of one connection.                                 *)
EXTENDS TransportManager

CONSTANTS p1, p2
=============================================================================
