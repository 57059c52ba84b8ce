---------------------------- MODULE MCSescRecord ----------------------------
EXTENDS SescRecord, TLC
=============================================================================
