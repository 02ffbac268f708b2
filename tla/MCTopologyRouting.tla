------------------------- MODULE MCTopologyRouting -------------------------
EXTENDS TopologyRouting
=============================================================================
