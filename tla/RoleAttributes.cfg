SPECIFICATION PatchSpec
CONSTANTS
    a = a
    b = b
    Attributes = {a, b}
    Calls = {c1, c2}
    Requests <- SomeRequests
    MaxFaults <- OneOfEach
SYMMETRY Symmetry
INVARIANTS
    MergeMeetsReference
PROPERTIES
    LossNeedsOvertaking
CHECK_DEADLOCK FALSE
