--------------------------- MODULE MCCircularQueue ---------------------------
EXTENDS CircularQueue
CONSTANTS p1, p2, r1, r2, r3
=============================================================================
