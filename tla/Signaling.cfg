CONSTANTS
    r1 = r1
    l1 = l1
    RelayPhones <- RelayOnly
    LanPhones <- LanOnly
    Faults = {"delete", "put", "make", "expire"}
    MaxPeers = 3
    MaxTries = 2
SPECIFICATION FairSpec
INVARIANTS
    TypeOK
    RelayOfferLives
    AnswerUsedOnce
    RelayPeerWatched
PROPERTIES
    MismatchHeals
    ReofferAfterDrop
CHECK_DEADLOCK FALSE
