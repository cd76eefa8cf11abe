\* With deadlines, a writer that times out strands the readers queued
\* behind it: no unlock will ever wake them.
CONSTANTS
    t1 = t1
    t2 = t2
    t3 = t3
    t4 = t4
    Threads <- MCThreads
    UseTimeout = TRUE
SPECIFICATION Spec
SYMMETRY ThreadSymmetry
INVARIANT NoLostWakeup
