\* ASCII keys of up to 3 bytes; patterns of 1-2 and documents of 0-4 bytes
\* over "ab"; up to 3 insertions of 3 strings, root children zeroed or not;
\* int arrays of up to 4 over {0, 1, 2}; floats 0, 1.0, -1.0, +inf, -2.0
\* and a subnormal; clear_msb on four words with shifts 0..31; bitmaps of
\* 1-2 bytes and every bit index; strings of up to 4 bytes over
\* {0, 'a', 'b'}; arrays of 1-5 bytes with every in-bounds rd, rs, b;
\* lists of up to 4 values over 0..2.
CONSTANTS
    HashBytes = {1, 2, 48, 97, 98, 122, 126, 127}
    HashMaxLen = 3
    Alphabet = {97, 98}
    MaxPat = 2
    MaxDoc = 4
    BSTKeys = {1, 2, 3}
    MaxIns = 3
    NULL = NULL
    Wild = Wild
    Crash = Crash
    NoString = NoString
    SortVals = {0, 1, 2}
    MaxSortLen = 4
    FloatBits = {{}, {23, 24, 25, 26, 27, 28, 29}, {23, 24, 25, 26, 27, 28, 29, 31},
                 {23, 24, 25, 26, 27, 28, 29, 30}, {30, 31}, {0, 1, 2, 20, 21, 22}}
    Numbers = {{}, {16, 17, 18, 19, 20, 21, 22, 23, 24, 25, 26, 27, 28, 29, 30, 31},
               {0, 31}, {0, 1, 7, 8, 15, 16, 23, 24, 30, 31}}
    ShiftCounts = {0, 1, 15, 16, 31}
    BitmapBytes = {0, 31, 18, 128}
    MaxBitmap = 2
    StrBytes = {0, 97, 98}
    MaxStr = 4
    MaxMem = 5
    ListVals = {0, 1, 2}
    MaxList = 4
SPECIFICATION Spec
INVARIANT HashIsPolynomial
INVARIANT RkAgreesWithReference
INVARIANT BloomAgreesWithReference
INVARIANT BSTTraversalsCorrect
INVARIANT BSTDelTreePostorder
INVARIANT Delta1Correct
INVARIANT BubbleSortCorrect
INVARIANT ExponentFieldCorrect
INVARIANT ClearMsbCorrect
INVARIANT BitAtIndexCorrect
INVARIANT Ex3SwapsPrefixes
INVARIANT ScanExercisesCorrect
