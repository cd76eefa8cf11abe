\* Two threads, shared keys, resizing enabled: insert racing a resize.
CONSTANTS
    t1 = t1
    t2 = t2
    ka = ka
    kd = kd
    kg = kg
    NoThread = NoThread
    Threads <- TwoThreads
    Keys <- MCKeys
    KeyBytes <- MCKeyBytes
    KeysOf <- SharedKeys
    InitSize = 2
    AllowResize = TRUE
    InsertOnce = FALSE
    NUM_LOCKS = 2
    MAX_COLLISION = 1
    OpsPerThread = 2
SPECIFICATION Spec
INVARIANT KeysUnique
