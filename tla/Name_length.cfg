SPECIFICATION Spec
CONSTANTS
    W = 3
    MaxShift = 6
INVARIANTS
    FullLengthIsOneName
