SPECIFICATION FairSpec
CONSTANTS
    Descriptors = {0, 1, 2}
    LateFailures = FALSE
    MaxConns = 0
    ArpDuringWait = FALSE
    Sketches <- Pairs
INVARIANTS
    TypeOK
    StatusTrue
    SocketsOwned
    OnePerFailure
PROPERTIES
    FunctionsReturn
