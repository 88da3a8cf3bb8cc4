SPECIFICATION CreateSpec
CONSTANTS
    t1 = t1
    t2 = t2
    p0 = p0
    p1 = p1
    None = None
    First = p0
    Others <- OneOther
    Threads <- TwoThreads
    MaxMessages = 2
    MaxSessions = 1
INVARIANTS
    LinkLeadsToOwner
    AnswersAreTrue
    OutcomeIsTrue
PROPERTIES
    ImplementsMailbox
    SignalEnds
    CancelEnds
ACTION_CONSTRAINT OneTopic
CHECK_DEADLOCK FALSE
