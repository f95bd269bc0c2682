--------------------------- MODULE MCChunkFanout ---------------------------
EXTENDS ChunkFanout, TLC

FanoutSymmetry == Permutations(Chunks) \cup Permutations(ParentRuns)
=============================================================================
