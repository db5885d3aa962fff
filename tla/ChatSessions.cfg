SPECIFICATION Spec
CONSTANTS
    None = None
    Trips = {t1, t2}
    Drivers = {d1, d2}
    Managers = {m1, m2}
    Sessions = {s1, s2, s3}
    Workers = {w1}
SYMMETRY Symmetry
INVARIANTS
    TypeOK
    AtMostOneActive
    ChatMatchesTrip
    NoHistoryLost
PROPERTIES
    EndedForGood
    ImplementsPairChat
CHECK_DEADLOCK FALSE
