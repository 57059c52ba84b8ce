----------------------------- MODULE MCPrimary -----------------------------
EXTENDS CollectionServer, TLC
=============================================================================
