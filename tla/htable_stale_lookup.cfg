\* Two threads inserting their own keys once and looking keys up, while
\* inserts resize the table: a lookup racing a rehash.
CONSTANTS
    t1 = t1
    t2 = t2
    ka = ka
    kd = kd
    kg = kg
    NoThread = NoThread
    Threads <- TwoThreads
    Keys <- MCKeys
    KeyBytes <- MCKeyBytes
    KeysOf <- DisjointKeys
    InitSize = 2
    AllowResize = TRUE
    InsertOnce = TRUE
    NUM_LOCKS = 2
    MAX_COLLISION = 1
    OpsPerThread = 3
SPECIFICATION Spec
INVARIANT LookupSeesCompletedInserts
