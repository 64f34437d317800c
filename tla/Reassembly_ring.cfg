SPECIFICATION Spec
CONSTANTS
    s = s
    x = x
    y = y
    z = z
    c1 = c1
    c2 = c2
    Client = {c1}
    Name = {s, x, y, z}
    Size <- MCSize
    MaxData = 2
    MaxNames = 2
    MaxBuffers = 2
    MinRebalance = 2
    SizeMax = 15
    MaxDup = 2
INVARIANTS
    TypeOK
    DeliveredIntact
    DeliveredOnce
    NameInOneBuffer
    CompleteIsDelivered
    CurrentHasRoom
CHECK_DEADLOCK FALSE
