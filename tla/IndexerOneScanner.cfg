CONSTANTS
    Contract = {1}
    Block <- MCBlock
    Number <- MCNumber
    MaxHeight = 4
    Chains <- MCChains
    Logs <- MCLogs
    EvmTx = {"t1", "t2", "t3", "t4", "t5"}
    TxIndex = {1}
    Owner = {"w"}
    StartBlock <- MCStartBlock
    Instance = {"api"}
    Confirmations = 2
    MaxRangeBlocks = 2
    ReorgWalkWindow = 2
    RetryAttempts = 2
    DeepReorgMidRun = FALSE
    MaxFaults = 2
    MaxMoves = 4
SPECIFICATION Spec
INVARIANTS
    RowsMatchCheckpoint
    EventsAreComplete
    ProjectionsMatchEvents
PROPERTIES
    CanonicalRowsAreKept
    ImplementsLedger
