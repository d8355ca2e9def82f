SPECIFICATION FairSpec
CHECK_DEADLOCK FALSE
CONSTANTS
    rpA = rpA
    rpB = rpB
    None = None
    Handles = {1, 2}
    Rps = {rpA, rpB}
    Commands <- MCCommands
    Fixtures <- MCFixtures
    Settings <- MCSettings
    Starts = {0}
    Snapshots <- MCSnapshots
    MaxQueue = 2
    Width = 6
    Budgets = {2}
    Postures <- MCPostures
    MaxAsks = 2
    MaxRecords = 6
    MaxCalls = 1
    MaxDraws = 13
INVARIANTS
    TypeOK
    OneCountPerAssertion
    AnswersOwnCommand
    DrainIsTheRest
    PokesPayOnce
    IdsAreDistinct
PROPERTIES
    Answered
