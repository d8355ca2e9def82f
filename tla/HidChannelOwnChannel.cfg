SPECIFICATION Spec
CHECK_DEADLOCK FALSE
CONSTANTS
    h1 = h1
    h2 = h2
    Hosts = {h1, h2}
    Budget = 1
    InitSeq = 1
    MaxConts = 2
    Capacity = 3
    MaxHandshakes = 3
    MaxChannels = 3
    MaxRequests = 1
    MaxRival = 0
INVARIANT OwnChannel
