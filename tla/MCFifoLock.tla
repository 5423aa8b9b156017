----------------------------- MODULE MCFifoLock -----------------------------
EXTENDS FifoLock, TLC

Symmetry == Permutations(Threads)
=============================================================================
