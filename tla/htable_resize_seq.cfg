\* One thread, resizing enabled: inserts and lookups across two resizes.
CONSTANTS
    t1 = t1
    t2 = t2
    ka = ka
    kd = kd
    kg = kg
    NoThread = NoThread
    Threads <- OneThread
    Keys <- MCKeys
    KeyBytes <- MCKeyBytes
    KeysOf <- SoloKeys
    InitSize = 2
    AllowResize = TRUE
    InsertOnce = FALSE
    NUM_LOCKS = 2
    MAX_COLLISION = 1
    OpsPerThread = 4
SPECIFICATION Spec
INVARIANT KeysUnique
INVARIANT BucketPlacement
INVARIANT NoLostInsert
INVARIANT LookupSeesCompletedInserts
