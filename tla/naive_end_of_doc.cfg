\* Patterns of 1-2 and documents of 0-4 bytes over "ab".
CONSTANTS
    HashBytes = {97}
    HashMaxLen = 1
    Alphabet = {97, 98}
    MaxPat = 2
    MaxDoc = 4
    BSTKeys = {1}
    MaxIns = 1
    NULL = NULL
    Wild = Wild
    Crash = Crash
    NoString = NoString
    SortVals = {0}
    MaxSortLen = 0
    FloatBits = {{}}
    Numbers = {{}}
    ShiftCounts = {0}
    BitmapBytes = {0}
    MaxBitmap = 1
    StrBytes = {0}
    MaxStr = 0
    MaxMem = 0
    ListVals = {0}
    MaxList = 0
SPECIFICATION Spec
INVARIANT NaiveAgreesWithReference
