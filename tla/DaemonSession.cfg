SPECIFICATION FairSpec
CONSTANTS
    t1 = t1
    NoId = NoId
    Ids <- OneTorrent
    MagnetIds <- OneTorrent
    MaxSerial = 2
    MaxPending = 1
    MaxAlerts = 2
    LateOps = TRUE
    DiskFails = TRUE
INVARIANTS
    PendingIsOutstanding
    StopsWhenAllAnswered
    ChangesSaved
PROPERTIES
    StopEnds
