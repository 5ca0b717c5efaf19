SPECIFICATION FairSpec
CONSTANTS
    None = None
    Calls = {c1, c2}
    Zids = {z1, z2, z3}
    Users = {u1}
    Credentials = {t1}
    MaxFaults <- OneOfEach
INVARIANTS
    AnswersHold
PROPERTIES
    
    WantedIsHanded
CHECK_DEADLOCK FALSE
