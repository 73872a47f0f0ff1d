---------------------------- MODULE MCHubHistory ---------------------------
\* HubHistory for TLC: the constants are given in the .cfg file.
EXTENDS HubHistory
=============================================================================
