CONSTANTS
    a1 = a1
    a2 = a2
    o = o
    Account = {a1, a2}
    Chain = {1, 2}
    None = None
    Nobody = Nobody
    Unreadable = Unreadable
    Declined = Declined
    Failed = Failed
    MaxMoves <- MCMoves
    MaxFaults = 1
    MaxConnects = 2
    Owners <- MCOwners
    Threshold = 2
    MaxOwners = 2
    Home = 1
    Row = {1, 2}
    Matching = {1}
    MaxBlocks = 2
    MaxShown <- MCShown
    MaxPresses <- MCPresses
    Beginnings <- MCBeginnings
    MaxCalls <- MCCalls
    ReceiptChain = 1
    MaxReceiptPresses = 3
    Listed = {1}
    MaxRetry = 1
SPECIFICATION Spec
INVARIANTS
    ScreenTypeOK
    SettledWalletIsTheWallets
    NothingWaitsInVain
    OneAtATime
    PromptsAreOfTheReview
    LateAnswersAreNotDrawn
    EvidenceIsOneBlock
    ExecuteIsAcknowledged
    SaidOfThisReceipt
    ValuesAreOfThisOpening
PROPERTIES
    NothingIsSentAfterAMove
CHECK_DEADLOCK FALSE
