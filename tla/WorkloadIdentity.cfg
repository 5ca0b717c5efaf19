SPECIFICATION FairSpec
CONSTANTS
    Zids = {z1, z2}
    Keys = {w1, w2}
    Calls = {c1, c2}
    None = None
    MaxFaults <- OneOfEach
INVARIANTS
    DeletedStaysGone
    HandedOutIsWhole
    RowsAreLive
PROPERTIES
    RetriedDeletionEnds
CHECK_DEADLOCK FALSE
