SPECIFICATION FairSpec
CONSTANTS
    Calls = {c1}
    Cids = {k1, k2, k3, k4, k5}
    Sids = {s1, s2}
    Values = {v1, v2}
    None = None
    Words = {"tcp"}
    Padded = {" tcp "}
    WordOf <- Trimmed
    Empty = ""
    Blank = " "
    maxPort = 2
    Requests <- AnyKinds
    MaxFaults <- OneOfEach
INVARIANTS
    LoneCreateConfigures
    AdoptionConverges
    FailedCreateTakesBack
    LoneUpdateConverges
PROPERTIES
    RetriedCreateSucceeds
CHECK_DEADLOCK FALSE
