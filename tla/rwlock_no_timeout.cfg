\* Four callers without deadlines (as htable.c calls the lock), under the
\* fairness of RWLock!Fairness.  No symmetry: WriterProgress is a liveness
\* property.
CONSTANTS
    t1 = t1
    t2 = t2
    t3 = t3
    t4 = t4
    Threads <- MCThreads
    UseTimeout = FALSE
SPECIFICATION FairSpec
INVARIANT TypeOK
INVARIANT CountersAccurate
INVARIANT NoLostWakeup
PROPERTY AbsSpec
PROPERTY WriterProgress
