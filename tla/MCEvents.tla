------------------------------ MODULE MCEvents ------------------------------
\* Model values are given in the configurations.
EXTENDS Events

CONSTANTS c1, p1, p2, t1, t2

=============================================================================
