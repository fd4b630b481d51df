CONSTANTS
    Contract = {1}
    Block <- MCBlock
    Number <- MCNumber
    MaxHeight = 2
    Chains <- MCChains
    Logs <- MCLogs
    EvmTx = {"t1", "t2", "t3", "t4", "t5"}
    TxIndex = {1}
    Owner = {"w"}
    StartBlock <- MCStartBlock
SPECIFICATION StoreSpec
INVARIANTS
    TablesAgree
PROPERTIES
    EventHistoryKept
