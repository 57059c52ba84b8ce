------------------------------- MODULE MCPair -------------------------------
EXTENDS CollectionPair, TLC
=============================================================================
