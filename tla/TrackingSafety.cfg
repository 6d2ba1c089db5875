SPECIFICATION Spec
CONSTANTS
    v1 = v1
    v2 = v2
    Vehicles = {v1, v2}
    HashOf <- CollidingHashes
    Objects = {o1, o2, o3}
    Null = Null
    FixedPlate = Null
    Grace = 1
    PassDates = {2}
    PassHours = {1}
    Faults = {}
    MaxTime = 2
    MaxInbox = 1
SYMMETRY FullSymmetry
INVARIANTS
    OneActivePerVehicle
    ToggledView
PROPERTIES
    LeavingIsForgotten
    PassHonoured
    ImplementsLedger
CHECK_DEADLOCK FALSE
