------------------------------ MODULE MCServer ------------------------------
EXTENDS Server
CONSTANTS c1, c2, q1
MCCallers == {c1, c2}
MCRequests == {q1}
=============================================================================
