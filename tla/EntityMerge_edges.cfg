SPECIFICATION EdgesSpec
CONSTANTS
    Entity = {1, 2, 3}
    Nickname = {}
    Unit = {u1}
    Edge = {e1, e2}
    e1 = e1
    e2 = e2
    u1 = u1
    p1 = p1
    p2 = p2
    n1 = n1
    UnitOf <- MCUnitOf
    LabelOf <- MCLabelOf
    Person = {p1}
    Worker = worker
    None = None
    MaxRequests = 3
    RequestsWithWorker = 2
INVARIANTS
    UnitsFollowHeads
    KeptEdgesFollowHeads
    NoEdgeLost
    PeoplesLoopsFollowHeads
