CONSTANTS
    s1 = s1
    s2 = s2
    s3 = s3
    Sessions <- ThreeSessions
    First = s1
    MaxSessions = 2
    Tries = 0
    InputCap = 1
    MaxOffers = 2
    MaxAsks = 2
    MaxMsgs = 2
    Prompts = {"p", "q"}
    Blank = "blank"
SPECIFICATION Spec
INVARIANTS
    TypeOK
    AnsweredOnce
    CardsWork
    OnePeer
    SessionsAccounted
PROPERTIES
    ImplementsApprovals
CHECK_DEADLOCK FALSE
CONSTRAINT Apart
SYMMETRY Created
