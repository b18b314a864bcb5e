SPECIFICATION FairSpec
CONSTANTS
    t1 = t1
    t2 = t2
    e1 = e1
    album = album
    show = show
    p1 = p1
    p2 = p2
    p3 = p3
    Nothing = Nothing
    Order <- Alone
    Episodes = {}
    Parents = {album}
    ParentOf <- AloneParent
    Subscribed = {}
    Paths = {p1}
    PathOf <- AlonePath
    Jobs = {j1, j2}
    Size = 2
    MaxVersion = 2
    Commands = {"one", "all", "delete", "sync"}
    Faults = {"down", "crash", "vanish", "replace", "remove"}
    MaxFaults = 1
PROPERTIES
    GhostsGo
    Completes
CHECK_DEADLOCK FALSE
