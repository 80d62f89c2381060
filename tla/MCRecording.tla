---------------------------- MODULE MCRecording ----------------------------
EXTENDS Recording, TLC

CONSTANTS a, b

MCSessions == {a, b}

Symm == Permutations(MCSessions)

=============================================================================
