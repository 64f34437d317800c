SPECIFICATION HexSpec
CONSTANTS
    W = 3
    MaxShift = 5
    D = 1
    MaxText = 7
    MaxFields = 2
INVARIANTS
    WholeWordField
