SPECIFICATION Spec
CONSTANTS
    t1 = t1
    t2 = t2
    e1 = e1
    album = album
    show = show
    p1 = p1
    p2 = p2
    p3 = p3
    Nothing = Nothing
    Order <- Shelf
    Episodes = {e1}
    Parents = {album, show}
    ParentOf <- ShelfParents
    Subscribed = {show}
    Paths = {p1, p2, p3}
    PathOf <- ShelfPaths
    Jobs = {j1, j2}
    Size = 2
    MaxVersion = 1
    Commands = {"all", "delete"}
    Faults = {"down", "crash", "norange"}
    MaxFaults = 1
INVARIANTS
    WholeFiles
    RowsHaveFiles
CHECK_DEADLOCK FALSE
