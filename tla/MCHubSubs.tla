----------------------------- MODULE MCHubSubs -----------------------------
\* HubSubs for TLC: the constants are given in the .cfg files.
EXTENDS HubSubs
=============================================================================
