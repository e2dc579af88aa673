--------------------------- MODULE MCClusterState ---------------------------
EXTENDS ClusterState, TLC

CONSTANTS n1, n2, g1
=============================================================================
