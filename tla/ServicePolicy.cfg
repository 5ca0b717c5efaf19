SPECIFICATION FairSpec
CONSTANTS
    None = None
    Calls = {c1, c2}
    Pids = {p1, p2, p3}
    Roles = {dial, bind}
    MaxFaults <- OneOfEach
PROPERTIES
    LoneCreateTellsTruth
    RetriedCreateSucceeds
CHECK_DEADLOCK FALSE
