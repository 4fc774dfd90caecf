\* Two handlers interleaved over one ask; or (RequestsScenes, Serial) one at a time
\* over two, with writes that may fail.
CONSTANTS
    al = al
    bo = bo
    h1 = h1
    h2 = h2
    h3 = h3
    Accounts = {al, bo}
    Owner = al
    Workers = {h1, h2}
    None = None
    GetFails = FALSE
    SetFails = FALSE
    MaxAsks = 1
    MaxPossessions = 3
    Handler = h3
    SerialAsks = 2
    SerialPossessions = 2
SPECIFICATION Scenes
SYMMETRY Alike
INVARIANTS
    AcceptedMeansMoved AnswersAreTheirsToGive
    SeriallyAcknowledgedStays SeriallyOneOpenAskEach
PROPERTIES SeriallyABook
CHECK_DEADLOCK FALSE
