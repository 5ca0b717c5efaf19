SPECIFICATION Spec
CONSTANTS
    Calls = {c1, c2}
    Cids = {k1, k2, k3, k4}
    Sids = {s1, s2}
    Values = {v1}
    None = None
    Words = {"tcp"}
    Padded = {" tcp "}
    WordOf <- Trimmed
    Empty = ""
    Blank = " "
    maxPort = 2
    Requests <- HostOnly
    MaxFaults <- NoFaults
SYMMETRY Symmetry
PROPERTIES
    LiveServiceKeepsConfigs
CHECK_DEADLOCK FALSE
