SPECIFICATION Spec
CONSTANTS
    Users = {u1}
    Tokens = {s1}
    Requests = {r1, r2}
    Rows = {d1, d2}
    Events = {e1}
    Inactivity = 1
    AbsoluteTTL = 2
    DeletionDelay = 1
    MaxTime = 3
    MaxFaults = 1
    None = None
INVARIANTS
    TypeOK
    AcceptedInTime
    DependentsGone
PROPERTIES
    EndedSessionsStayEnded
    DeletedOnRequest
    DeletionCompletes
