SPECIFICATION Spec
CONSTANTS
    d3 = d3
    i1 = i1
    i2 = i2
    Dirs = {d1, d2, d3}
    Inodes = {i1, i2}
    Handlers = {h1, h2}
    Nil = Nil
    Leads <- MCLeads
    AddMayFail = TRUE
    StatRaces = TRUE
    MaxChanges = 2
SYMMETRY HubSymmetry
INVARIANTS
    TypeOK
    MapsAgree
    OpenIffWatching
    NoOrphanWatch
PROPERTY ImplementsSubscriptions
