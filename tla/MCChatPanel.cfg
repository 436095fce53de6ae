\* Four clicks: open, switch, select or create, load older.
SPECIFICATION Spec
CONSTANTS
    m1 = m1
    m2 = m2
    s1 = s1
    s2 = s2
    None = None
    Merchants = {m1, m2}
    Sessions = {s1, s2}
    MaxTurns = 2
    MaxWait = 2
    MaxPages = 2
    MaxAsked = 2
    MaxClicks = 4
INVARIANTS
    TypeOK
    EmptyAnswerExplained
    ShownIsSelected
PROPERTIES
    PanelSettles
CHECK_DEADLOCK FALSE
