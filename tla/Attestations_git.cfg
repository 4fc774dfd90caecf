\* One call at a time, and nothing fails.
CONSTANTS
    r1 = r1
    r2 = r2
    d1 = d1
    d2 = d2
    t1 = t1
    t2 = t2
    Rights = {r1, r2}
    Records = {d1, d2}
    Texts = {t1, t2}
    RecordOf <- MCRecordOf
    Workers = {w1}
    None = None
    Life = 1
    GetFails = FALSE
    SetFails = FALSE
    MaxSigned = 2
    MaxNow = 1
    MaxSlips = 0
SPECIFICATION Spec
INVARIANTS RebuiltIsShown
CHECK_DEADLOCK FALSE
