------------------------------ MODULE MCMemObj ------------------------------
EXTENDS MemObj

CONSTANTS p1, p2, p3

MCProcs == {p1, p2, p3}
=============================================================================
