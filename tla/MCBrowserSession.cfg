\* Two tabs and two requests at a time; the first failed login locks the account.
SPECIFICATION Spec
CONSTANTS
    Calls = {c1, c2}
    Pages = {p1, p2}
    NoPage = NoPage
    MaxAttempts = 1
    LockDuration = 1
    RefreshTTL = 2
    RedisReach = {TRUE}
    MaxTokens = 2
    MaxFailures = 1
    MaxTime = 2
INVARIANTS
    TypeOK
    StoredTokenUsable
PROPERTIES
    DeadStaysDead
SYMMETRY Symmetry
