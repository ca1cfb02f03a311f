SPECIFICATION Spec
CONSTANTS
    Paths = {p1, p2, p3}
    Entries = {e1, e2, e3, e4}
    Requests = {r1, r2}
    Workers = {}
    Nil = Nil
    MaxCached = 2
    Interval = 1
    MaxAge = 1
    MaxDeploys = 0
    QuietWrites = FALSE
    Restores = FALSE
SYMMETRY HandlerSymmetry
INVARIANTS
    TypeOK
    NoSubscriptionAfterCleanup
    EveryWatchHasAnEntry
    CacheBounded
PROPERTIES
    LoadedRulesEvictedLast
    ImplementsRuleCache
