SPECIFICATION ResolveSpec
CONSTANTS
    Entity = {1, 2, 3}
    Nickname = {}
    Unit = {}
    Edge = {}
    p1 = p1
    UnitOf <- MCUnitOf
    LabelOf <- MCUnitOf
    Person = {p1}
    Worker = worker
    None = None
    MaxRequests = 3
    MaxPasses = 2
    SurvivorKey <- MCSurvivorKey
CHECK_DEADLOCK FALSE
INVARIANTS
    ResolveIsSound
    FlatPassEndsAsPlanned
PROPERTIES
    DecisionsStand
