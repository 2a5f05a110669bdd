SPECIFICATION AuthSpec
CONSTANTS
    a = a
    b = b
    c = c
    x = x
    y = y
    g1 = g1
    g2 = g2
    g3 = g3
    Goroutines <- ThreeGoroutines
    Tokens <- MCTokens
    Allow <- MCAllow
    WellShaped <- MCWellShaped
    NumCPU = 2
    cacheMaxEntries = 2
    cacheTTL = 1
    NoToken = NoToken
    MaxTime = 3
SYMMETRY MCSymmetry
INVARIANTS
    CacheSound
    SemAccounting
    CacheBounded
    OrderCoversCache
