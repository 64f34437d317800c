SPECIFICATION Spec
CONSTANTS
    W = 3
    MaxShift = 5
INVARIANTS
    ContainedNamespaceIsSubset
