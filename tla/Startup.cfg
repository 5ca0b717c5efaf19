SPECIFICATION FairStartup
CONSTANTS
    v1 = v1
    v2 = v2
    v3 = v3
    managed = managed
    service = service
    Replicas = {p1, p2}
    Tokens = {t1, t2}
    Missing = Missing
    Torn = Torn
    Versions <- ThreeVersions
    TableOf <- TwoTables
    MaxFaults <- OneOfEach
INVARIANTS
    StuckNeedsCut
    ServingCanReauthenticate
    AppliedOnce
    ServingSeesSchema
PROPERTIES
    ServesOrStuck
CHECK_DEADLOCK FALSE
