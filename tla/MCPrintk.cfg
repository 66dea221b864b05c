\* Two callers, two calls; a buffer that three characters and the terminator fill.
SPECIFICATION Spec
CONSTANTS
    c1 = c1
    c2 = c2
    Callers = {c1, c2}
    KbufSize = 4
    TagLen = 1
    MaxDigits = 3
    Formats <- MCFormats
    Prefixes <- MCPrefixes
    LogShowLevel = 6
    IntMax = 15
    MaxCalls = 2
SYMMETRY Callers2
INVARIANTS
    UndisturbedIsShown
    StaleOnlyByRace
    ConversionsStayInside
