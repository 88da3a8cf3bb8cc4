SPECIFICATION Spec
CONSTANTS
    t1 = t1
    t2 = t2
    Ids <- TwoTorrents
    MaxSerial = 2
    MaxActions = 2
SYMMETRY Symmetry
INVARIANTS
    LeavesNoTrace
    StoppedAsChosen
