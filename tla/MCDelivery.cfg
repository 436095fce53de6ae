\* Three tasks, so that an id is queued again while both workers hold it.
SPECIFICATION Spec
CONSTANTS
    w1 = w1
    w2 = w2
    n1 = n1
    stray = stray
    Workers = {w1, w2}
    Ids = {n1, stray}
    Strays = {stray}
    MaxTasks = 3
    MaxBreaks = 1
    MaxExpired = 1
INVARIANTS
    TypeOK
    RedeliveryExplained
    KeyMeansSettled
PROPERTIES
    QueuedGetsKey
CHECK_DEADLOCK FALSE
