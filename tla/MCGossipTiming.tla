--------------------------- MODULE MCGossipTiming ---------------------------
EXTENDS GossipTiming
=============================================================================
