SPECIFICATION Spec
CONSTANTS
    Sockets = {s1, s2}
    Pool = 2
    MaxSends = 3
    MaxBoots = 1
    NonBlocking = TRUE
    FailsAtOnce = TRUE
    Masked <- Nowhere
INVARIANTS
    TypeOK
    NoOverrun
PROPERTIES
    ShutDownWhenIdle
CHECK_DEADLOCK FALSE
