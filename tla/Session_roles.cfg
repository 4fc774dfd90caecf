\* Signing in, refreshing and disconnecting.
CONSTANTS
    a = a
    b = b
    h = h
    d = d
    None = None
    Blank = Blank
    Bad = Bad
    Accounts = {a, b}
    Hashes = {h}
    Needs <- TwoKeysForOne
    Ids = {1, 2}
    Holders = {a, b}
    Digests = {d}
    Readings <- OneRented
    OnFile <- OneOnFile
    Pasted <- OneForged
    Issuer = a
    Rights = {1, 2}
    Rows <- OneForRent
    AsksOf <- OneAsk
    CanRequest = TRUE
    ReadOnly = FALSE
    Bodies = {x}
    Seller = a
    Files <- OneOfEach
    Reach = 3
    Span = 2
    Limit = 2
    MaxPages = 2
    Restarts = 2
    Margin = 1
    Day = 2
    MaxSessions = 2
    MaxPastes = 2
    MaxClicks = 2
    MaxAsks = 2
    MaxWeeks = 2
    MaxEdits = 1
    MaxSent = 2
    MaxUploads = 1
    MaxHead = 5
    MaxEvents = 3
    Concurrency = 2
    Attempts = 2
    Reads = {"holding", "listing"}
    QuietReads = {"listing"}
    MaxRights = 4
SPECIFICATION SessionScene
INVARIANTS RolesShownAreProven
CHECK_DEADLOCK FALSE
