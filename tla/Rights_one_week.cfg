\* One week, three accounts and a contract address, two records; any commitment
\* the issuer might ask for.  The window is open at ledgers 1 and 2 of 0..4, so
\* calls come before, inside and after it.  Three transfers: the fewest in which
\* a sale can be undone and its proof tried again.
CONSTANTS
    a = a
    b = b
    c = c
    contract = contract
    s_a = s_a
    s_b = s_b
    Accounts = {a, b, c}
    Addresses = {a, b, c, contract}
    None = None
    MaxHoldingDepth = 4
    Secrets = {s_a, s_b}
    Digests = {d1, d2}
    ZeroHash = ZeroHash
    Keeps <- MCKeeps
    Windows <- MCWindows
    Wraps <- AnyWraps
    ListTerms = {0, 1}
    MaxProofWindow = 1
    MinTempTtl = 1
    Gaps = {1}
    MaxRights = 1
    MaxTransfers = 3
    MaxLedger = 4
SPECIFICATION Spec
INVARIANTS
    TypeOK ChainsWellFormed NoSublet
    SpentOnce NobodyRentsPastTheWindow ListingsAreTheirsToMake ShopWindowCanBeTaken
PROPERTIES SaleRekeys RecordNeverChanges TermsAreHonoured
CHECK_DEADLOCK FALSE
