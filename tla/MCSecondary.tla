----------------------------- MODULE MCSecondary -----------------------------
EXTENDS CollectionServer, TLC
=============================================================================
