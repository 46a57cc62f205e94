----------------------------- MODULE MCRuntime -----------------------------
EXTENDS Runtime

=============================================================================
