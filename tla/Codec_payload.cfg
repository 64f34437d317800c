SPECIFICATION Spec
CONSTANTS
    B = 4
    Transactions = {1}
    VarInts = {1}
    Payloads = {0, 256}
    Cut = FALSE
INVARIANTS
    PayloadKept
