-------------------------- MODULE MCPeerDirectory --------------------------
EXTENDS PeerDirectory
SaveAges == {-1, 0, 2}
=============================================================================
