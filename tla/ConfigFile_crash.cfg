SPECIFICATION ConfigSpec
CONSTANTS
    Absent = Absent
    Broken = Broken
    MaxVersion = 4
    MaxEarlier = 6
    InitialFiles <- FromEarlierRun
    Synced = TRUE
    CanErase = TRUE
INVARIANTS
    CommittedSurvives
PROPERTY ImplementsAtomicFile
