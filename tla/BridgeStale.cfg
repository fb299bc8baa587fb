CONSTANTS
    s1 = s1
    s2 = s2
    s3 = s3
    Sessions <- OneSession
    First = s1
    MaxSessions = 1
    Tries = 0
    InputCap = 1
    MaxOffers = 1
    MaxAsks = 2
    MaxMsgs = 0
    Prompts = {"p", "q"}
    Blank = "blank"
SPECIFICATION Spec
PROPERTIES
    ApprovalAnswersItsPrompt
CHECK_DEADLOCK FALSE
