---------------------------- MODULE MCGrpcProc ----------------------------
EXTENDS GrpcProc, TLC
=============================================================================
