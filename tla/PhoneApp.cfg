CONSTANTS
    Hosts = {h1, h2}
    NoHost = none
    MaxCalls = 3
SYMMETRY Symmetry
SPECIFICATION Spec
INVARIANTS
    TypeOK
    NoCrossTalk
    KeepsTrying
CHECK_DEADLOCK FALSE
CONSTRAINT Few
