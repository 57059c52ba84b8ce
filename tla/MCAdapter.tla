----------------------------- MODULE MCAdapter -----------------------------
EXTENDS Adapter, TLC
=============================================================================
