--------------------------- MODULE MCCommandQueue ---------------------------
EXTENDS CommandQueue, TLC
CONSTANTS t1, t2, h, q1, q2, e1, e2, e3, e4
=============================================================================
