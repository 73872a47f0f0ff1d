----------------------------- MODULE MCLiveHub -----------------------------
\* LiveHub for TLC: the constants are given in the .cfg files.
EXTENDS LiveHub
=============================================================================
