SPECIFICATION FairSpec
CONSTANTS
    MaxEvents = 3
    ConnectsUnasked = FALSE
INVARIANTS
    FlagsTrue
PROPERTIES
    FinishedFresh
    CallsReturn
    ViewFollows
