SPECIFICATION Spec
CONSTANTS
    MaxEvents = 2
    BootPath = "stale"
    EagerDequeue = TRUE
    SenderDies = TRUE
    SendFails = TRUE
INVARIANTS
    FrontIsInHand
    NoPhantomMotion
PROPERTIES
    DeletedAfterTried
CHECK_DEADLOCK FALSE
