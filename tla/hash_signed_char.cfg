\* Keys that contain bytes >= 128 (e.g. UTF-8 text).
CONSTANTS
    HashBytes = {97, 127, 128, 195, 255}
    HashMaxLen = 2
    Alphabet = {97}
    MaxPat = 1
    MaxDoc = 1
    BSTKeys = {1}
    MaxIns = 1
    NULL = NULL
    Wild = Wild
    Crash = Crash
    NoString = NoString
    SortVals = {0}
    MaxSortLen = 0
    FloatBits = {{}}
    Numbers = {{}}
    ShiftCounts = {0}
    BitmapBytes = {0}
    MaxBitmap = 1
    StrBytes = {0}
    MaxStr = 0
    MaxMem = 0
    ListVals = {0}
    MaxList = 0
SPECIFICATION Spec
INVARIANT HashNonNegative
