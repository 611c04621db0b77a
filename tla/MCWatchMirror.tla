---------------------------- MODULE MCWatchMirror ----------------------------
EXTENDS WatchMirror, TLC
=============================================================================
