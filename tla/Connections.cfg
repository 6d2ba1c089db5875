SPECIFICATION FairSpec
CONSTANTS
    c1 = c1
    c2 = c2
    Clients = {c1, c2}
    Sends <- MCSends
    Leaving = {c1}
    Nobody = Nobody
    MaxSockets = 2
INVARIANTS
    InOrder
PROPERTIES
    BroadcastsReachAll
    ShutdownStopsAcceptor
    DisconnectEndsThreads
CHECK_DEADLOCK FALSE
