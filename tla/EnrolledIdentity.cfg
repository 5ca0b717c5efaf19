SPECIFICATION Spec
CONSTANTS
    Zids = {z1, z2, z3, z4, z5}
    Keys = {r1}
    Calls = {c1, c2}
    None = None
    MaxFaults <- OneOfEach
SYMMETRY Symmetry
INVARIANTS
    LoneEnrollHeals
    DuplicateRowsNeedRace
    LoneDeleteIsComplete
    LoneDeleteForgets
CHECK_DEADLOCK FALSE
