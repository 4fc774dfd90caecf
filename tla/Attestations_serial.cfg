\* One call at a time, and a store whose writes fail.
CONSTANTS
    r1 = r1
    r2 = r2
    d1 = d1
    d2 = d2
    t1 = t1
    t2 = t2
    Rights = {r1, r2}
    Records = {d1, d2}
    Texts = {t1, t2}
    RecordOf <- MCRecordOf
    Workers = {w1}
    None = None
    Life = 1
    GetFails = FALSE
    SetFails = TRUE
    MaxSigned = 2
    MaxNow = 1
    MaxSlips = 1
SPECIFICATION Spec
SYMMETRY Alike
INVARIANTS NothingIsLaundered ShownIsOfItsRight LastWordStands
CHECK_DEADLOCK FALSE
