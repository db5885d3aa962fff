SPECIFICATION FullyFairSpec
CONSTANTS
    None = None
    NTrips = 2
    Drivers = {d1}
    MaxPrompts = 2
    Requests = {r1}
    Crons = {k1}
PROPERTIES
    AskedWhenUp
CHECK_DEADLOCK FALSE
