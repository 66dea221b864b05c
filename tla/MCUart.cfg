\* A FIFO of three places; up to five characters are written, and one more pair.
SPECIFICATION UartSpec
CONSTANTS
    Deep = 3
    MaxSent = 5
INVARIANTS
    PolledKeepsText
    UnpolledKeepsOneFifo
    InitSetsBaudRate
PROPERTY
    PutReturns
