SPECIFICATION FairSpec
CONSTANTS
    Sockets = {s1, s2}
    Pool = 2
    MaxSends = 3
    MaxBoots = 1
    NonBlocking = FALSE
    FailsAtOnce = FALSE
    Masked <- NoRaces
INVARIANTS
    BuffersConserved
PROPERTIES
    InactiveKept
    SendReturns
    ShutDownReported
