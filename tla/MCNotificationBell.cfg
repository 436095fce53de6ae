\* Six clicks: mount, open, read one, switch, open, read another one.
SPECIFICATION Spec
CONSTANTS
    m1 = m1
    m2 = m2
    i1 = i1
    i2 = i2
    None = None
    Merchants = {m1, m2}
    Items = {i1, i2}
    MaxAsked = 3
    MaxClicks = 6
    MaxLost = 1
INVARIANTS
    TypeOK
    ReadIsKept
    QuietBellAgrees
PROPERTIES
    BellStops
CHECK_DEADLOCK FALSE
