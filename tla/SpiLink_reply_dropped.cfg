SPECIFICATION Spec
CONSTANTS
    MaxCmds = 1
    MaxAsync = 1
    MaxBoots = 1
    QuietAt <- AllButArm
    PromptRelease = TRUE
    EventsInInit = FALSE
PROPERTIES
    ReplyNotDropped
CHECK_DEADLOCK FALSE
