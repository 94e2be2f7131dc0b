SPECIFICATION Spec
CONSTANTS
    MaxCmds = 2
    MaxAsync = 3
    MaxBoots = 2
    QuietAt <- NoWindow
    PromptRelease = TRUE
    EventsInInit = TRUE
INVARIANTS
    TypeOK
    DriverSafe
PROPERTIES
    BusExclusive
    LinkSafe
CHECK_DEADLOCK FALSE
