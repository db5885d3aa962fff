SPECIFICATION Spec
CONSTANTS
    None = None
    Keep = Keep
    Unsaid = Unsaid
    Trucks = {k1, k2}
    Trips = {t1, t2}
    Drivers = {d1, d2}
    Managers = {m1, m2}
    Workers = {w1}
SYMMETRY Symmetry
INVARIANTS
    TypeOK
    AttachIsFree
    GoneHoldsNoTruck
    HolderKnows
    LeadersFollowTruck
    SwapEndsApart
    TruckFollowsTrip
CHECK_DEADLOCK FALSE
