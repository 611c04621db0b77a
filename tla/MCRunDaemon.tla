---------------------------- MODULE MCRunDaemon ----------------------------
EXTENDS RunDaemon, TLC
=============================================================================
