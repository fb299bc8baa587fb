CONSTANTS
    Base = 2
    IdLen = 1
    Sessions <- OneSession
    Size = 4
    Tries = 1
    MaxChunk = 2
    MaxPaste = 2
    MaxBytes = 4
    MaxMsgs = 0
    MaxUps = 1
    MaxAll = 5
SPECIFICATION FairSpec
PROPERTIES
    OutputArrives
CHECK_DEADLOCK FALSE
