\* Four callers with deadlines: waits may end with ETIMEDOUT.
CONSTANTS
    t1 = t1
    t2 = t2
    t3 = t3
    t4 = t4
    Threads <- MCThreads
    UseTimeout = TRUE
SPECIFICATION Spec
SYMMETRY ThreadSymmetry
INVARIANT CountersAccurate
PROPERTY AbsSpec
