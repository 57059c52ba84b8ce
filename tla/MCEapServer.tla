---------------------------- MODULE MCEapServer -----------------------------
EXTENDS EapServer, TLC
=============================================================================
