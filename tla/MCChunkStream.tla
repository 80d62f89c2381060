--------------------------- MODULE MCChunkStream ---------------------------
EXTENDS ChunkStream, TLC

CONSTANTS m1, m2

Symm == Permutations({m1, m2})

=============================================================================
