SPECIFICATION RelaySpec
CONSTANTS
    c1 = c1
    c2 = c2
    A = A
    AA = AA
    B = B
    a = a
    b = b
    None = None
    Context = {c1, c2}
    Name <- MCNames
    Namespace <- DistinctNamespaces
    NameOf <- MCNameOf
    Covers <- MCCovers
    ContextReuse = FALSE
    MaxId = 2
    MaxSends = 1
    SubscriberMessage = {}
    Traffic <- AllTraffic
INVARIANTS
    EndedForgotten
