----------------------------- MODULE MC_RWLock -----------------------------
(* Model-checking instance of RWLock: threads are model values.           *)
EXTENDS RWLock, TLC

CONSTANTS t1, t2, t3, t4

MCThreads == {t1, t2, t3, t4}

\* The threads are interchangeable: the lock never distinguishes them.
ThreadSymmetry == Permutations(MCThreads)
=============================================================================
