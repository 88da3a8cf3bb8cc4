SPECIFICATION FairSpec
CONSTANTS
    c1 = c1
    c2 = c2
    s1 = s1
    s2 = s2
    g1 = g1
    g2 = g2
    Clients <- TwoClients
    Threads <- TwoThreads
    Groups <- TwoGroups
    Free = Free
    MaxTasks = 4
INVARIANTS
    PausedGroupIsQuiet
PROPERTIES
    TasksExecuted
    CloseEnds
