CONSTANTS
    Timeout = 10
    Delays <- MCDelays
    Budget = 90
    MaxLate = 5
    Wallet = {1, 2, 3}
    Initial = {1, 2}
    PageSize = 1
    Page = {1, 2, 3}
    MaxGeneration = 2
    MaxPresses = 4
    None = None
SPECIFICATION Spec
INVARIANTS
    RetriesAreBounded
    PageTypeOK
    IdentitiesAreApart
    SaveIsOnThePage
    ReadBackIsFresh
    ChecksAreOnTheWire
    SettledMeansGone
    NoDeadScreen
PROPERTIES
    NoSecondDelete
CHECK_DEADLOCK FALSE
