SPECIFICATION Spec
CONSTANTS
    Clients = {c1, c2}
    Pins = {p1, p2}
    NoClient = NoClient
    NoPin = NoPin
    MaxRetries = 3
    MismatchLimit = 2
    Adverts <- MCAdverts
    KnobSettings <- MCKnobSettings
SYMMETRY Symmetry
INVARIANTS
    TypeOK
    GuessBudget
    LatchFollowsStreak
    TokenBelongsToHolder
PROPERTIES
    LockedIsSilent
    OnlyOvertakenMismatch
    ImplementsLockout
