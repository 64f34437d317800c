SPECIFICATION Spec
CONSTANTS
    B = 4
    Transactions = {1}
    VarInts = {1, 268435456}
    Payloads = {0}
    Cut = FALSE
INVARIANTS
    VarIntKept
