\* Bursts: three callers on one tier, Redis reachable.
SPECIFICATION HSpec
CONSTANTS
    c1 = c1
    c2 = c2
    c3 = c3
    m1 = m1
    cheap = cheap
    GLOBAL = GLOBAL
    NoRequest = NoRequest
    Callers = {c1, c2, c3}
    Connected = {c1, c2, c3}
    RedisFlaky = FALSE
    Chain <- OneTier
    Tiers = {cheap}
    Scopes = {"agent"}
    Merchants = {m1}
    Price <- FreePrice
    PerInteraction <- Ample
    MerchantDaily <- Ample
    GlobalDaily <- Ample
    Requests <- OneRequest
    ActualTokens = {2}
    Threshold = 2
    Window = 3
    Cooldown = 2
PROPERTIES
    OpensOnlyOnBurst
SYMMETRY CallerSymmetry
