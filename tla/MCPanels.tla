------------------------------ MODULE MCPanels ------------------------------
EXTENDS Panels, TLC

Symmetry == Permutations(Rows) \cup Permutations(Subjects)
=============================================================================
