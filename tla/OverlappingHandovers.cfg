SPECIFICATION OpenedSpec
CONSTANTS
    None = None
    Trips = {t1}
    Drivers = {d1, d2}
    Managers = {m1, m2}
    Sessions = {s1, s2, s3}
    Workers = {w1, w2}
SYMMETRY Symmetry
INVARIANTS
    AtMostOneActive
CHECK_DEADLOCK FALSE
