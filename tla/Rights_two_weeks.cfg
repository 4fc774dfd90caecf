\* Two weeks issued at any two moments, two accounts, two transfers.
CONSTANTS
    a = a
    b = b
    c = c
    contract = contract
    s_a = s_a
    s_b = s_b
    Accounts = {a, b}
    Addresses = {a, b}
    None = None
    MaxHoldingDepth = 4
    Secrets = {s_a, s_b}
    Digests = {d1}
    ZeroHash = ZeroHash
    Keeps <- MCKeeps
    Windows <- OneWindow
    Wraps <- HonestWraps
    ListTerms = {}
    MaxProofWindow = 1
    MinTempTtl = 1
    Gaps = {1}
    MaxRights = 2
    MaxTransfers = 2
    MaxLedger = 3
SPECIFICATION FairSpec
INVARIANTS BalancesCountTitles HolderCanAlwaysTransfer OfferedTransfersAreGranted
PROPERTIES ImplementsWeeks EveryTermEnds
CHECK_DEADLOCK FALSE
