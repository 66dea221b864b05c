\* Words of 4 bytes in a memory of 19, every region and every overlap.
SPECIFICATION Spec
CONSTANTS
    WordSize = 4
    Top = 19
INVARIANTS
    CopyIsExact
    SourceIsIntact
