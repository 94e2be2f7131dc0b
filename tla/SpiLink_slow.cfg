SPECIFICATION Spec
CONSTANTS
    MaxCmds = 2
    MaxAsync = 3
    MaxBoots = 2
    QuietAt <- NoWindow
    PromptRelease = FALSE
    EventsInInit = TRUE
INVARIANTS
    LinkReleased
PROPERTIES
    RxHasBuffer
CHECK_DEADLOCK FALSE
