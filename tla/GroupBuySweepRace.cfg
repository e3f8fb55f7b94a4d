SPECIFICATION Spec
CONSTANTS
    GroupBuys = {g1}
    Users = {u1, u2}
    Blacklisted = {}
    Requests = {r1, r2}
    Capacities = {3}
    Thresholds = {0, 1}
    Quantities = {0, 2}
    DefaultThreshold = 3
    MaxRetries = 2
    MaxFaults = 0
    None = None
INVARIANT ClosedHoldsNoSeats
CHECK_DEADLOCK FALSE
