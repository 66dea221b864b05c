\* int of 4 bits, long of 5; buffers from nothing to more than any text needs.
SPECIFICATION Spec
CONSTANTS
    IntBits = 4
    LongBits = 5
    Chars <- MCChars
    Formats <- MCFormats
    Arguments <- MCArguments
    Sizes = {0, 1, 2, 3, 5, 9}
    Beyond <- MCBeyond
INVARIANTS
    CountersAgree
    StaysInside
    ReadsOnlyFormat
    ShowsExpansion
