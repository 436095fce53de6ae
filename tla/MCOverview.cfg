\* Six clicks: sign in, generate, switch, generate, switch back, generate.
SPECIFICATION OverviewSpec
CONSTANTS
    m1 = m1
    m2 = m2
    Merchants = {m1, m2}
    None = None
    MaxRuns = 2
    MaxAsked = 4
    MaxClicks = 6
INVARIANTS
    OverviewTypeOK
PROPERTIES
    ForeignDataIsLate
    SpinnersStop
CHECK_DEADLOCK FALSE
