\* Four clicks ask for two pages, two filters or two merchants at a time, each
\* twice; the list of a finished analysis comes on top.
SPECIFICATION Spec
CONSTANTS
    m1 = m1
    m2 = m2
    i1 = i1
    i2 = i2
    k1 = k1
    k2 = k2
    Merchants = {m1, m2}
    Insights = {i1, i2}
    Kinds = {k1, k2}
    All = All
    None = None
    MaxPages = 2
    MaxAsked = 6
    MaxClicks = 4
SYMMETRY Symmetry
INVARIANTS
    TypeOK
    SpinnersEnd
    SettledPage
PROPERTIES
    StrangersAreLate
CHECK_DEADLOCK FALSE
