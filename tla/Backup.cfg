SPECIFICATION Spec
CONSTANTS
    u = u
    c = c
    Tables <- MCTables
    Stamped = {"users"}
    Rows = {u, c}
    TableOf <- MCTableOf
    Jobs = {j1, j2}
    MaxTime = 5
    MaxBackups = 3
    MaxFaults = 1
    None = None
SYMMETRY Symmetry
INVARIANTS
    TypeOK
    RestoreComplete
