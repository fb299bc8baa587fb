CONSTANTS
    s1 = s1
    s2 = s2
    s3 = s3
    Sessions <- OneSession
    First = s1
    MaxSessions = 1
    Tries = 0
    InputCap = 1
    MaxOffers = 2
    MaxAsks = 1
    MaxMsgs = 0
    Prompts = {"p"}
    Blank = "blank"
SPECIFICATION FairSpec
PROPERTIES
    PromptReachesPhone
CHECK_DEADLOCK FALSE
