---------------------------- MODULE MCRelayNode ----------------------------
(* A few transactions, one of them invalid.                                *)
EXTENDS RelayNode

CONSTANTS t1, t2, t3, t4
=============================================================================
