---------------------------- MODULE MCVrfUdpClient ----------------------------
EXTENDS VrfUdpClient, TLC
=============================================================================
