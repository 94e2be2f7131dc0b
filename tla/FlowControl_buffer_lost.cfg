SPECIFICATION Spec
CONSTANTS
    Sockets = {s1, s2}
    Pool = 2
    MaxSends = 2
    MaxBoots = 1
    NonBlocking = FALSE
    FailsAtOnce = FALSE
    Masked <- SetWindow
INVARIANTS
    BuffersConserved
CHECK_DEADLOCK FALSE
