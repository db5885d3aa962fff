SPECIFICATION Spec
CONSTANTS
    AlarmIds = {a1, a2}
    Runs = {1, 2}
    Day = 2
    MaxTime = 2
    MaxEvents = 1
    RungOnce = {a2}
    PushUsers = {u1, u2}
    Tokens = {t1, t2, t3}
    Malformed = {t3}
    Pushers = {1}
    ChunkSize = 1
    None = None
    Removable = {t1}
    Guests = {u2}
    FileIds = {f1, f2}
    Slots = 1
    Readers = {1, 2}
    Losable = {f1}
    Stickable = {f2}
    Owners = {o1, o2}
    Erasable = {o1, o2}
    Changers = {1, 2}
    Paths = {p1, p2, p3}
    Week = 3
    Spare = 2
    ChatUsers = {u1, u2, u3}
    Creator = u1
    Leads = {u3}
    Requests = {1, 2}
    MaxRows = 3
    MaxSeats = 3
INVARIANTS
    TypeOK
    DevicesStayRegistered
    FilesAgree
    PicturesHold
    ChatsHold
PROPERTIES
    AlarmsRing
    PutOffAfterRinging
CHECK_DEADLOCK FALSE
