\* The proportions of the kernel's font (8x16 in 10x20, margin 5) in small: the
\* last row of a glyph on the first line is exactly one line height from the top.
SPECIFICATION Spec
CONSTANTS
    CHAR_WIDTH = 1
    CHAR_HEIGHT = 3
    CHAR_W = 2
    CHAR_H = 4
    SCREEN_MARGIN = 2
    Word = 64
    Modes <- MCModes
    MaxChars = 7
INVARIANTS
    TypeOK
    ScreenShowsText
    CursorOnPage
    OnlyUnprintablesOverrun
