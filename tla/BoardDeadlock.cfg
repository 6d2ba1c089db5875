SPECIFICATION Spec
CONSTANTS
    MaxEvents = 2
    BootPath = "stale"
    EagerDequeue = FALSE
    SenderDies = FALSE
    SendFails = FALSE
INVARIANTS
    DoneScriptHasReader
CHECK_DEADLOCK FALSE
