\* Requests of 600 and 1620 bytes on a heap of at most 3000 bytes.
CONSTANTS
    HDR = 32
    ALIGNMENT = 8
    MIN_GUARD = 1024
    Sizes = {600, 1620}
    HeapMax = 3000
    NULL = NULL
SPECIFICATION Spec
INVARIANT TypeOK
INVARIANT HeapTiled
INVARIANT ListsMatchHeap
INVARIANT FreeListCoalesced
PROPERTY AbsSpec
