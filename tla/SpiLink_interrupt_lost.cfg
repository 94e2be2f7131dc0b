SPECIFICATION Spec
CONSTANTS
    MaxCmds = 1
    MaxAsync = 3
    MaxBoots = 1
    QuietAt <- AllButHandler
    PromptRelease = TRUE
    EventsInInit = FALSE
INVARIANTS
    NoLostInterrupt
CHECK_DEADLOCK FALSE
