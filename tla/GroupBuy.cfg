SPECIFICATION FairSpec
CONSTANTS
    GroupBuys = {g1}
    Users = {u1, u2}
    Blacklisted = {}
    Requests = {r1, r2}
    Capacities = {3}
    Thresholds = {0, 2}
    Quantities = {0, 2}
    DefaultThreshold = 3
    MaxRetries = 2
    MaxFaults = 1
    None = None
INVARIANTS
    TypeOK
    NoOversell
    SeatsAccounted
    StatusHonest
    NoticesTruthful
PROPERTIES
    FailedIsFinal
    SweepSettles
CHECK_DEADLOCK FALSE
