SPECIFICATION FairSpec
CHECK_DEADLOCK FALSE
CONSTANTS
    h1 = h1
    h2 = h2
    Hosts = {h1}
    Budget = 1
    InitSeq = 1
    MaxConts = 2
    Capacity = 3
    MaxHandshakes = 3
    MaxChannels = 2
    MaxRequests = 2
    MaxRival = 1
INVARIANTS
    TypeOK
    AnswersMatch
    QuietChannel
    RunsOnce
    Released
PROPERTY Termination
