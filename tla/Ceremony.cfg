SPECIFICATION FairSpec
CHECK_DEADLOCK FALSE
CONSTANTS
    d1 = d1
    d2 = d2
    k1 = k1
    k2 = k2
    None = None
    Transports = 2
    Devices = {d1, d2}
    Creds = {k1, k2}
    Listings <- MCListings
    Inputs <- MCInputs
    Infos <- MCInfos
    Budget = 4
    MaxElapsed = 8
    MaxAssertions = 3
    Metered = TRUE
    KeepaliveGap = 1
    IdleTimes = {0, 1}
INVARIANTS
    TypeOK
    ConnectIsDeliberate
    PromptDiscipline
    RequestIsSound
    OutcomeIsComplete
    TimeoutNamesPresence
PROPERTIES
    ExpiryEndsCeremony
    Termination
