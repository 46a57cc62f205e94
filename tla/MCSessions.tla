----------------------------- MODULE MCSessions -----------------------------
EXTENDS Sessions, TLC

CONSTANTS c1, c2, c3

\* Connections are interchangeable; names and tokens are not.
ConnSymmetry == Permutations({c1, c2, c3})

=============================================================================
