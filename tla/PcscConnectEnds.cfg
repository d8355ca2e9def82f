SPECIFICATION FairSpec
CHECK_DEADLOCK FALSE
CONSTANTS
    Callers = {c1, c2}
    Rival = Rival
    Nobody = Nobody
    Modes = {"Shared", "Exclusive"}
    Budget = 1
    MaxHops = 1
    MaxChunks = 1
    MaxTokens = 1
PROPERTIES
    ConnectEnds
