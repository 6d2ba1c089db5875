SPECIFICATION Spec
CONSTANTS
    v1 = v1
    v2 = v2
    Vehicles = {v1}
    HashOf <- DistinctHashes
    Objects = {o1, o2, o3}
    Null = Null
    FixedPlate = v1
    Grace = 1
    PassDates = {}
    PassHours = {}
    Faults = {}
    MaxTime = 3
    MaxInbox = 1
SYMMETRY ObjectSymmetry
PROPERTIES
    GraceRespected
CHECK_DEADLOCK FALSE
