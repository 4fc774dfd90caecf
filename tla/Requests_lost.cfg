\* One handler at a time, and a store that may be unreachable for a read.
CONSTANTS
    al = al
    bo = bo
    h1 = h1
    h2 = h2
    h3 = h3
    Accounts = {al, bo}
    Owner = al
    Workers = {h1}
    None = None
    GetFails = TRUE
    SetFails = FALSE
    MaxAsks = 2
    MaxPossessions = 3
    Handler = h3
    SerialAsks = 2
    SerialPossessions = 2
SPECIFICATION Alone
INVARIANTS AsksAreNotLost
CHECK_DEADLOCK FALSE
