SPECIFICATION FairSpec
CONSTANTS
    Zids = {z1, z2, z3, z4}
    Keys = {r1}
    Calls = {c1}
    None = None
    MaxFaults <- OneOfEach
PROPERTIES
    RetriedEnrollSucceeds
CHECK_DEADLOCK FALSE
