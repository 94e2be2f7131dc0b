SPECIFICATION FairSpec
CONSTANTS
    MaxCmds = 2
    MaxAsync = 3
    MaxBoots = 2
    QuietAt <- AllWindows
    PromptRelease = TRUE
    EventsInInit = FALSE
INVARIANTS
    DriverPrecise
PROPERTIES
    RxNotOverwritten
    ReplyNotDropped
    Responsive
    LinkFair
