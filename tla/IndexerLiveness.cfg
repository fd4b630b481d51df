CONSTANTS
    Contract = {1, 2, 3}
    Block <- MCBlock
    Number <- MCNumber
    MaxHeight = 4
    Chains <- MCTwoChains
    Logs <- MCLogs
    EvmTx = {"t1", "t2", "t3", "t4", "t5"}
    TxIndex = {1}
    Owner = {"w"}
    StartBlock <- MCStartBlock
    Instance = {"api"}
    Confirmations = 2
    MaxRangeBlocks = 1
    ReorgWalkWindow = 2
    RetryAttempts = 2
    DeepReorgMidRun = FALSE
    MaxFaults = 1
    MaxMoves = 2
SPECIFICATION FairMonitorSpec
INVARIANTS
    WaitsOneRound
PROPERTIES
    EventuallySynced
