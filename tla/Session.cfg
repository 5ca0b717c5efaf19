SPECIFICATION FairSpec
CONSTANTS
    c1 = c1
    c2 = c2
    c3 = c3
    identity = identity
    service = service
    Calls = {c1, c2, c3}
    Kinds = {identity, service}
    KindOf <- Uses
    None = None
    MaxFaults <- OneOfEach
INVARIANTS
    RetryUsesNewSession
PROPERTIES
    ImplementsAtomicCall
    EveryCallEnds
CHECK_DEADLOCK FALSE
