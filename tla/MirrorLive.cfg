CONSTANTS
    Base = 2
    IdLen = 1
    Sessions <- TwoSessions
    Size = 4
    Tries = 1
    MaxChunk = 2
    MaxPaste = 2
    MaxBytes = 2
    MaxMsgs = 1
    MaxUps = 1
    MaxAll = 4
SPECIFICATION FairSpec
PROPERTIES
    OutputArrives
    CreateAnswered
CHECK_DEADLOCK FALSE
