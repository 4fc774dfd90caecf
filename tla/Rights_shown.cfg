\* One week, rented and given back by the clock.
CONSTANTS
    a = a
    b = b
    c = c
    contract = contract
    s_a = s_a
    s_b = s_b
    Accounts = {a, b}
    Addresses = {a, b}
    None = None
    MaxHoldingDepth = 4
    Secrets = {s_a, s_b}
    Digests = {d1}
    ZeroHash = ZeroHash
    Keeps <- MCKeeps
    Windows <- OneWindow
    Wraps <- HonestWraps
    ListTerms = {0, 1}
    MaxProofWindow = 1
    MinTempTtl = 1
    Gaps = {1}
    MaxRights = 1
    MaxTransfers = 1
    MaxLedger = 4
SPECIFICATION Spec
INVARIANTS ShownHolderHolds
CHECK_DEADLOCK FALSE
