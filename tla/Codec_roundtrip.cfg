SPECIFICATION Spec
CONSTANTS
    B = 4
    Transactions = {1, 9}
    VarInts = {0, 7, 8, 63, 64, 8191, 8192, 268435455}
    Payloads = {0, 1, 7, 8, 70}
    Cut = TRUE
INVARIANTS
    RoundTrip
    CutThrows
