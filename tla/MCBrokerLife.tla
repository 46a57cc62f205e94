---------------------------- MODULE MCBrokerLife ----------------------------
\* Model values are given in the configurations.
EXTENDS BrokerLife

CONSTANTS c1, c2, p1, p2

=============================================================================
