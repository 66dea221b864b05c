\* Two ports; an int holds two digits.
SPECIFICATION Spec
CONSTANTS
    Lines <- MCLines
    MaxSerialDevs = 2
    MaxLen = 16
    IntMax = 63
INVARIANT
    ReportsEnabled
