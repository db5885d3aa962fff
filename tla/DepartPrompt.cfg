SPECIFICATION Spec
CONSTANTS
    None = None
    NTrips = 2
    Drivers = {d1}
    MaxPrompts = 2
    Requests = {r1}
    Crons = {k1}
INVARIANTS
    TypeOK
    AskedOnce
PROPERTIES
    OverdueHandled
CHECK_DEADLOCK FALSE
