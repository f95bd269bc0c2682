---------------------------- MODULE MCTaskQueue ----------------------------
EXTENDS TaskQueue, TLC

QueueSymmetry == Permutations(Runs) \cup Permutations(Workers)
=============================================================================
