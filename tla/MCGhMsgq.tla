------------------------------ MODULE MCGhMsgq ------------------------------
\* Small instances of GhMsgq for TLC.
EXTENDS GhMsgq
=============================================================================
