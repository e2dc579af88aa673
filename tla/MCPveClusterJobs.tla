-------------------------- MODULE MCPveClusterJobs --------------------------
EXTENDS PveClusterJobs, TLC

CONSTANTS h1, h2, n1, n2, j1, j2

Symmetry == Permutations(Hosts) \cup Permutations(Names) \cup Permutations(Jobs)
=============================================================================
