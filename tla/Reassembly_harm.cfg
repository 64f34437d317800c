SPECIFICATION Spec
CONSTANTS
    s = s
    x = x
    y = y
    z = z
    c1 = c1
    c2 = c2
    Client = {c1}
    Name = {x, z}
    Size <- MCSize
    MaxData = 2
    MaxNames = 1
    MaxBuffers = 2
    MinRebalance = 2
    SizeMax = 15
    MaxDup = 0
INVARIANTS
    OnlyMemoryHarm
CHECK_DEADLOCK FALSE
