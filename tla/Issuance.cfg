\* Two handlers interleaved; anything may fail, and transactions settle late.  Or
\* (IssuanceScenes, Serial) one handler at a time.
CONSTANTS
    al = al
    bo = bo
    r1 = r1
    r2 = r2
    r3 = r3
    s1 = s1
    s2 = s2
    s3 = s3
    h1 = h1
    h2 = h2
    h3 = h3
    Accounts = {al, bo}
    Records = {r3}
    Hashes = {s3}
    Workers = {h1, h2}
    None = None
    GetFails = TRUE
    SetFails = TRUE
    GivesUp = TRUE
    MaxEntries = 2
    MaxSent = 2
    Handler = h3
    SerialRecords = {r1, r2}
    SerialHashes = {s1, s2}
SPECIFICATION Scenes
SYMMETRY Alike
CHECK_DEADLOCK FALSE
INVARIANTS IssuedAsksHaveWeeks SeriallyIdsAgree SeriallySecretsAreSpent
