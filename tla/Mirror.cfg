CONSTANTS
    Base = 2
    IdLen = 1
    Sessions <- TwoSessions
    Size = 4
    Tries = 1
    MaxChunk = 2
    MaxPaste = 5
    MaxBytes = 3
    MaxMsgs = 2
    MaxUps = 2
    MaxAll = 4
SPECIFICATION Spec
INVARIANTS
    TypeOK
    NothingMissed
    LiveInOrder
    WireFaithful
PROPERTIES
    InputImplementsPipe
CHECK_DEADLOCK FALSE
CONSTRAINT Apart
