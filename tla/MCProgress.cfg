\* Progress: two callers on the same breakers and ledger, two of the tiers.
SPECIFICATION FairSpec
CONSTANTS
    c1 = c1
    c2 = c2
    m1 = m1
    m2 = m2
    GLOBAL = GLOBAL
    NoRequest = NoRequest
    Callers = {c1, c2}
    Connected = {c1, c2}
    RedisFlaky = FALSE
    Chain <- CheapAndMid
    Tiers <- TierSet
    Scopes <- ScopeSet
    Merchants = {m1, m2}
    Price <- RealPrice
    PerInteraction <- RealPerInteraction
    MerchantDaily <- TinyDaily
    GlobalDaily <- TinyDaily
    Requests <- OneRequest
    ActualTokens = {3}
    Threshold = 1
    Window = 1
    Cooldown = 2
    account <- ChatGlobalAccount
    WorstCost = 15
PROPERTIES
    RequestsEnd
    OpenBreakerRecovers
