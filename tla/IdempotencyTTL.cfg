SPECIFICATION Spec
CONSTANTS
    Slots = {k1}
    Requests = {r1}
    Bodies = {b1}
    Answers = {ok}
    MaxPanics = 0
    MaxFaults = 1
    None = None
INVARIANT TTLFreesTheKey
