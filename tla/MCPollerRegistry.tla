-------------------------- MODULE MCPollerRegistry --------------------------
EXTENDS PollerRegistry, TLC

CONSTANTS n1, i1, i2, r1
=============================================================================
