---------------------------- MODULE MCWorkerAccess ----------------------------
EXTENDS WorkerAccess, TLC
MCAccessSymmetry == Permutations(Request) \cup Permutations(Handle)
===============================================================================
