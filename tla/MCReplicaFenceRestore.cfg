SPECIFICATION Spec
CONSTANTS
    p1 = p1
    p2 = p2
    Pods = {p1, p2}
    Xacts = {x1}
    Floor = 1
    Margin = 1
    Budget = 1
    Staleness = 2
    RingCapacity = 2
    CreatedAts = {0, 1}
    MaxClock = 4
    FaultPlans <- FailureAndRestore
    None = None
INVARIANTS NoHoles

CHECK_DEADLOCK FALSE
