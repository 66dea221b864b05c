\* Each string begins at each of the four places of a word.
SPECIFICATION Spec
CONSTANTS
    ByteBits = 2
    WordSize = 4
    Strings <- MCStrings
    Pairs <- MCPairs
    Sizes <- MCSizes
    SetSizes <- MCSetSizes
    Region = 20
INVARIANTS
    ReadsAgree
    WritesAgree
    TokensAreRuns
