SPECIFICATION Spec
CHECK_DEADLOCK FALSE
CONSTANTS
    Alphabet <- MCAlphabet
    Seeds <- MCSeeds
    MaxLength = 12
    ItemKinds <- MCItemKinds
    Drafts <- MCDrafts
    MembersOf <- MCMembersOf
    Protocols <- MCProtocols
    MaxItems = 5
    MaxMembers = 2
    FidoPage = 13
    Base = 16
    MinBlobArray = 2
    MinCredBlob = 1
    MaxProtocol = 2
INVARIANTS
    StrictIsCanonical
    TolerantKeepsMeaning
    MatchIsDeclared
    MessagesSurvive
