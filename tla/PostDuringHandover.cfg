SPECIFICATION Spec
CONSTANTS
    None = None
    Trips = {t1}
    Drivers = {d1, d2}
    Managers = {m1}
    Sessions = {s1, s2}
    Messages = {x1, x2, x3}
    Clients = {c1}
SYMMETRY Symmetry
INVARIANTS
    ReplacedStaysOut
CHECK_DEADLOCK FALSE
