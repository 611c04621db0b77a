---------------------------- MODULE MCUdpTableServer ----------------------------
EXTENDS UdpTableServer, TLC
=============================================================================
