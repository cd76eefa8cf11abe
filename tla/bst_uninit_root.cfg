\* Up to 3 insertions; init_tree's root children zeroed or not.
CONSTANTS
    HashBytes = {97}
    HashMaxLen = 1
    Alphabet = {97}
    MaxPat = 1
    MaxDoc = 1
    BSTKeys = {1, 2, 3}
    MaxIns = 3
    NULL = NULL
    Wild = Wild
    Crash = Crash
    NoString = NoString
    SortVals = {0}
    MaxSortLen = 0
    FloatBits = {{}}
    Numbers = {{}}
    ShiftCounts = {0}
    BitmapBytes = {0}
    MaxBitmap = 1
    StrBytes = {0}
    MaxStr = 0
    MaxMem = 0
    ListVals = {0}
    MaxList = 0
SPECIFICATION Spec
INVARIANT BSTNoCrash
