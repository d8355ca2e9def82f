SPECIFICATION Spec
CHECK_DEADLOCK FALSE
CONSTANTS
    Nodes <- MCNodes
    Readers <- MCReaders
    Contents <- MCContents
    Argvs <- MCArgvs
    HexTokens = {"ab"}
    BudgetTokens = {"45"}
    ExchangeErrors <- MCErrors
    MaxEvents = 2
    None = None
    FidoPage = 13
    Base = 16
INVARIANT PromptedWhileWaiting
