SPECIFICATION Spec
CONSTANTS
    Slots = {k1}
    Requests = {r1, r2, r3}
    Bodies = {b1, b2}
    Answers = {ok, refused}
    MaxPanics = 2
    MaxFaults = 2
    None = None
INVARIANTS
    TypeOK
    AtMostOnce
    SameAnswer
    NoOrphan
PROPERTY AnswerKept
