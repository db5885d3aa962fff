SPECIFICATION Spec
CONSTANTS
    None = None
    NTrips = 2
    Drivers = {d1, d2}
    MaxPrompts = 2
    Requests = {r1}
    Crons = {k1}
INVARIANTS
    AssignedIsFresh
CHECK_DEADLOCK FALSE
