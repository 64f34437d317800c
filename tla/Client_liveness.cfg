SPECIFICATION FairSpec
CONSTANTS
    A = A
    AA = AA
    B = B
    a = a
    b = b
    None = None
    d1 = d1
    d2 = d2
    Name <- MCNames
    Namespace <- NestedNamespaces
    NameOf <- MCNameOf
    Covers <- MCCovers
    Delegate = {d1}
    PubNamespace = {}
    Traffic = {"SubscribeResponse", "SubscribeEnd", "Publish"}
PROPERTIES
    SweepCompletes
    DestructorReturns
CHECK_DEADLOCK FALSE
