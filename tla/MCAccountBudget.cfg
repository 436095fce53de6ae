\* Two callers, two merchants, two tiers, a Redis that may fail at every round trip.
SPECIFICATION Spec
CONSTANTS
    c1 = c1
    c2 = c2
    m1 = m1
    m2 = m2
    GLOBAL = GLOBAL
    NoRequest = NoRequest
    Callers = {c1, c2}
    Connected = {c1, c2}
    RedisFlaky = TRUE
    Chain <- CheapAndMid
    Tiers <- TierSet
    Scopes <- ScopeSet
    Merchants = {m1, m2}
    Price <- RealPrice
    PerInteraction <- RealPerInteraction
    MerchantDaily <- SmallMerchantDaily
    GlobalDaily <- SmallGlobalDaily
    Requests <- ChatRequests
    ActualTokens = {3}
    Threshold = 1
    Window = 1
    Cooldown = 1
    account <- ChatGlobalAccount
    WorstCost = 15
INVARIANTS
    TypeOK
    MerchantsTrackGlobal
    OverrunBounded
PROPERTIES
    ImplementsBudget
SYMMETRY CallerSymmetry
