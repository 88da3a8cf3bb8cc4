SPECIFICATION ViewSpec
CONSTANTS
    t1 = t1
    t2 = t2
    t3 = t3
    u1 = u1
    u2 = u2
    None = None
    Torrents <- TwoTorrents
    Cleanings <- RemovedAtOnce
    Urls = {u1, u2}
    NewSettings <- TheSettings
    MaxRevision = 1
    MaxTime = 0
    Magnets = FALSE
SYMMETRY Symmetry
VIEW SessionAndWindow
CONSTRAINT SmallWhenUsed
INVARIANT NoLogicalError
CHECK_DEADLOCK FALSE
