-------------------------- MODULE MCRuntimeDaemon --------------------------
\* Model values are given in the configurations.
EXTENDS RuntimeDaemon

CONSTANTS c1, c2, c3, p1, p2, p3

=============================================================================
