SPECIFICATION FairSystemSpec
CONSTANTS
    A = A
    B = B
    d = d
    a = a
    b = b
    None = None
    Me = Me
    Other = Other
    Context = {Me, Other}
    Name = {a, b}
    Namespace = {A}
    NameOf <- MCNameOf
    Covers <- MCCovers
    ContextReuse = FALSE
    MaxId = 2
    MaxSends = 1
    SubscriberMessage = {}
    Traffic <- AllTraffic
    PeerTraffic <- Publisher
    Delegate = {d}
    Lossy = FALSE
    Patient = TRUE
    MaxFlight = 2
PROPERTIES
    SubscribeCompletes
    UnsubscribeCompletes
    ObjectArrives
CHECK_DEADLOCK FALSE
