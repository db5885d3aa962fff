SPECIFICATION Spec
CONSTANTS
    a1 = a1
    a2 = a2
    a3 = a3
    m1 = m1
    m2 = m2
    d1 = d1
    d2 = d2
    c1 = c1
    c2 = c2
    c3 = c3
    Workers = {w1, w2}
    Transfers = {1, 2, 3}
    Tokens = {1, 2}
    Links = {1, 2}
    Managers = {h1, h2}
    Codes = {1, 2, 3, 4}
    MaxAttempts = 1
    MaxPending = 2
    RoomUsers = {d1, d2, m1}
    RoomDrivers = {d1, d2}
    Sockets = {1, 2, 3}
    Trips = {t1}
    Chats = {1, 2}
    Messages = {1, 2, 3}
    None = None
    Keep = Keep
SYMMETRY Symmetry
INVARIANTS
    TypeOK
    ErasedStaysOut
    CompanyGoesTogether
    CapsHold
    EndedStaysEnded
    LinksAreSingleUse
    CodesCounted
    OneSignInPerRound
    RoomsMatchRights
    PresenceSettles
    QuotesStayInside
PROPERTIES
    AdminRemains
    MovesOnConsent
    SessionsLast
    TickedByRecipient
CHECK_DEADLOCK FALSE
