----------------------------- MODULE MCWatchJob -----------------------------
\* WatchJob for TLC: the constants are given in the .cfg files.
EXTENDS WatchJob
=============================================================================
