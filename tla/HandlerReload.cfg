SPECIFICATION Spec
CONSTANTS
    Paths = {p1}
    Entries = {e1, e2, e3}
    Requests = {r1, r2}
    Workers = {w1, w2}
    Nil = Nil
    MaxCached = 1
    Interval = 1
    MaxAge = 1
    MaxDeploys = 2
    QuietWrites = TRUE
    Restores = FALSE
SYMMETRY HandlerSymmetry
INVARIANTS
    NoTimerAfterCleanup
PROPERTIES
    RulesNeverGoBack
    SkipsOnlyCurrentRules
    ImplementsRuleCache
