\* A bucket of three units, long enough for its key to expire once.
SPECIFICATION Spec
CONSTANTS
    w1 = w1
    w2 = w2
    Workers = {w1, w2}
    Offset <- OneAhead
    Skew = 1
    Lag = 1
    Capacity = 3
    Costs = {1, 3}
    KeyTTL = 5
    NoBucket = NoBucket
    NoRefusal = NoRefusal
    MaxTime = 9
INVARIANTS
    TypeOK
    RateBound
PROPERTIES
    RetryAfterExact
