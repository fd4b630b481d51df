CONSTANTS
    Contract = {1}
    Block <- MCBlock
    Number <- MCNumber
    MaxHeight = 4
    Chains <- MCTwoChains
    Logs <- MCLogs
    EvmTx = {"t1", "t2", "t3", "t4", "t5"}
    TxIndex = {1}
    Owner = {"w"}
    StartBlock <- MCStartBlock
    Instance = {"old", "new"}
    Confirmations = 2
    MaxRangeBlocks = 2
    ReorgWalkWindow = 2
    RetryAttempts = 2
    DeepReorgMidRun = TRUE
    MaxFaults = 0
    MaxMoves = 2
SPECIFICATION Spec
INVARIANTS
    ScannerTypeOK
    TablesAgree
