\* int of 5 bits, long of 7.
SPECIFICATION NumbersSpec
CONSTANTS
    IntBits = 5
    LongBits = 7
    Spaces <- MCSpaces
    Digits <- MCDigits
    Tails <- MCTails
    Bases <- MCBases
INVARIANTS
    ParsesValue
    PrintsValue
