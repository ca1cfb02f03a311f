SPECIFICATION FairSpec
CONSTANTS
    Paths = {p1}
    Entries = {e1, e2}
    Requests = {r1}
    Workers = {w1}
    Nil = Nil
    MaxCached = 1
    Interval = 1
    MaxAge = 1
    MaxDeploys = 2
    QuietWrites = FALSE
    Restores = TRUE
PROPERTIES
    RulesOutliveBrokenDeploys
    FreshEventually
    RequestsReturn
    CleanupCompletes
