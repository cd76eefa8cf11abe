\* Two threads each inserting its own keys once, concurrently with resizes.
CONSTANTS
    t1 = t1
    t2 = t2
    ka = ka
    kd = kd
    kg = kg
    NoThread = NoThread
    Threads <- TwoThreads
    Keys <- MCKeys
    KeyBytes <- MCKeyBytes
    KeysOf <- DisjointKeys
    InitSize = 2
    AllowResize = TRUE
    InsertOnce = TRUE
    NUM_LOCKS = 2
    MAX_COLLISION = 1
    OpsPerThread = 3
SPECIFICATION FairSpec
INVARIANT TypeOK
INVARIANT DestroyFreesEveryNodeOnce
PROPERTY CallsReturn
