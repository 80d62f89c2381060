------------------------------ MODULE MCRelay ------------------------------
EXTENDS Relay, TLC

CONSTANTS v1, v2

Symm == Permutations({v1, v2})

=============================================================================
