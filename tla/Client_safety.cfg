SPECIFICATION Spec
SYMMETRY DelegateSymmetry
CONSTANTS
    A = A
    AA = AA
    B = B
    a = a
    b = b
    None = None
    d1 = d1
    d2 = d2
    Name <- MCNames
    Namespace <- NestedNamespaces
    NameOf <- MCNameOf
    Covers <- MCCovers
    Delegate = {d1, d2}
    PubNamespace = {A}
    Traffic = {"SubscribeResponse", "SubscribeEnd", "Publish", "PublishIntentResponse", "Other"}
INVARIANTS
    TypeOK
    SubscribedHasDelegate
    DisconnectEndsSubscribed
PROPERTIES
    ImplementsSubscriber
CHECK_DEADLOCK FALSE
