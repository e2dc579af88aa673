---------------------------- MODULE MCLiveState -----------------------------
EXTENDS LiveState
=============================================================================
