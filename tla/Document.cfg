SPECIFICATION Spec
CONSTANTS
    Keys = {k1, k2}
    Docs = {d1, d2, d3}
    Contents = {c1, c2}
    Generators = {g1, g2}
    Readers = {r1}
    MaxRevisions = 3
    MaxFaults = 1
    None = None
INVARIANTS
    TypeOK
    ReaderSeesChain
    OneDocumentPerKey
PROPERTY Implements
