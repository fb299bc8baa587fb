CONSTANTS
    b1 = b1
    stdout = stdout
    none = none
    Bridges <- MCOneBridge
    Stdout = stdout
    NoOne = none
    MaxChunks = 3
SPECIFICATION FairSpec
INVARIANTS
    TypeOK
    NoGap
    LiveContiguous
    ExitNotMissed
PROPERTIES
    EveryChunkArrives
CHECK_DEADLOCK FALSE
