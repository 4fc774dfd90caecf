\* One issuer, whose first transaction settles after the call gave up.
CONSTANTS
    al = al
    bo = bo
    r1 = r1
    r2 = r2
    r3 = r3
    s1 = s1
    s2 = s2
    s3 = s3
    h1 = h1
    h2 = h2
    h3 = h3
    Accounts = {al, bo}
    Records = {r1, r2}
    Hashes = {s1, s2}
    Workers = {h1}
    None = None
    GetFails = FALSE
    SetFails = FALSE
    GivesUp = TRUE
    MaxEntries = 2
    MaxSent = 2
    Handler = h3
    SerialRecords = {r1, r2}
    SerialHashes = {s1, s2}
SPECIFICATION Alone
CHECK_DEADLOCK FALSE
INVARIANT AttestationIsOfItsWeek
