SPECIFICATION Spec
CONSTANTS
    Users = {u1, u2}
    Creator = u1
    Leads = {}
    Requests = {1, 2}
    MaxRows = 2
    MaxSeats = 3
INVARIANTS
    OneSeatEach
CHECK_DEADLOCK FALSE
