----------------------------- MODULE MCMessages -----------------------------
\* Model values are given in the configurations.
EXTENDS Messages

CONSTANTS a1, a2

\* A session and a push listener that may stop reading.
SlowConns == {<<a2, "session">>, <<a1, "listener">>}

=============================================================================
