SPECIFICATION FairSpec
CONSTANTS
    v1 = v1
    v2 = v2
    Vehicles = {v1}
    HashOf <- DistinctHashes
    Objects = {o1, o2}
    Null = Null
    FixedPlate = v1
    Grace = 1
    PassDates = {}
    PassHours = {}
    Faults = {"sql", "image", "ocr", "cme", "crash"}
    MaxTime = 3
    MaxInbox = 2
INVARIANTS
    ActiveIsWatched
PROPERTIES
    EveryStayEnds
    TaggedGetsListed
    MessagesAreHandled
CHECK_DEADLOCK FALSE
