SPECIFICATION SystemSpec
CONSTANTS
    A = A
    B = B
    d = d
    a = a
    b = b
    None = None
    Me = Me
    Other = Other
    Context = {Me, Other}
    Name = {a, b}
    Namespace = {A}
    NameOf <- MCNameOf
    Covers <- MCCovers
    ContextReuse = FALSE
    MaxId = 4
    MaxSends = 1
    SubscriberMessage = {}
    Traffic <- AllTraffic
    PeerTraffic <- AllButObjects
    Delegate = {d}
    Lossy = TRUE
    Patient = TRUE
    MaxFlight = 3
INVARIANTS
    AnsweredIsServed
    ServedIsRegistered
    OneIdPerSubscription
PROPERTIES
    AnsweredOnce
CHECK_DEADLOCK FALSE
