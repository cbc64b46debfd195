---------------------------- MODULE MCTokenAuth ----------------------------
EXTENDS TokenAuth
CONSTANTS p1, p2, k1, k2
UsesBoth == [p \in Procs |-> Profiles]
=============================================================================
