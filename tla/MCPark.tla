------------------------------- MODULE MCPark -------------------------------
EXTENDS Park

CONSTANTS t1, t2
=============================================================================
