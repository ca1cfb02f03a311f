SPECIFICATION FairSpec
CONSTANTS
    d3 = d3
    i1 = i1
    i2 = i2
    Dirs = {d1, d2}
    Inodes = {i1, i2}
    Handlers = {h1}
    Nil = Nil
    Leads <- MCLeads
    AddMayFail = FALSE
    StatRaces = TRUE
    MaxChanges = 3
PROPERTIES
    WatchRecovers
