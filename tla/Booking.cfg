SPECIFICATION Spec
CONSTANTS
    Bookings = {b1, b2, b3}
    Users = {u1, u2}
    Blacklisted = {}
    Resources = {s1}
    Requests = {r1, r2}
    CapacityOfAll = 1
    Capacity <- MCCapacity
    Windows <- MCWindows
    Parties = {0}
    TicksPerDay = 3
    MinLeadTime = 2
    ChangeCutoff = 2
    MaxActivePerDay = 1
    MaxTime = 1
    None = None
SYMMETRY Symmetry
INVARIANTS
    TypeOK
    DailyCap
    NoDoubleBooking
    SlotCapacity
PROPERTY LegalMoves
