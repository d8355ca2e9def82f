SPECIFICATION Spec
CHECK_DEADLOCK FALSE
CONSTANTS
    Callers = {c1, c2}
    Rival = Rival
    Nobody = Nobody
    Modes = {"Shared", "Exclusive"}
    Budget = 1
    MaxHops = 2
    MaxChunks = 2
    MaxTokens = 2
INVARIANTS
    TypeOK
    HandlesMatch
    AnswersMatch
    RunsAgainOnlyOnLe
    SendIsBounded
