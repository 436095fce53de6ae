\* Two tasks of one id; no break and no expiry, so that only a race can deliver twice.
SPECIFICATION Spec
CONSTANTS
    w1 = w1
    w2 = w2
    n1 = n1
    stray = stray
    Workers = {w1, w2}
    Ids = {n1, stray}
    Strays = {stray}
    MaxTasks = 2
    MaxBreaks = 0
    MaxExpired = 0
INVARIANTS
    DuplicatesDeduplicated
CHECK_DEADLOCK FALSE
