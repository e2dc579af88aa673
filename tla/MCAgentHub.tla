----------------------------- MODULE MCAgentHub -----------------------------
EXTENDS AgentHub, TLC

CONSTANTS k1, c1, c2, m1, m2

MCKeyOf == [m \in Cmds |-> k1]
=============================================================================
