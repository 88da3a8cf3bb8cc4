SPECIFICATION FairDispatcherSpec
CONSTANTS
    h1 = h1
    h2 = h2
    Handlers <- TwoHandlers
    Null = Null
    MaxSignals = 6
CHECK_DEADLOCK FALSE
INVARIANTS
    NoUseAfterDestroy
PROPERTY ImplementsMailbox
