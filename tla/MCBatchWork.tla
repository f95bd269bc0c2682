---------------------------- MODULE MCBatchWork ----------------------------
EXTENDS BatchWork, TLC

BatchSymmetry == Permutations(Batches) \cup Permutations(Specs) \cup Permutations(Runs)
=============================================================================
