SPECIFICATION FairSpec
CONSTANTS
    Ids = {i1}
    Calls = {c1, c2}
    Replicas = {p1, p2}
    TTL = 2
    None = None
    MaxFaults <- TwoRefused
INVARIANTS
    NotFoundIsDefinitive
    GrantedIsTracked
    PromptHolderKeepsIdentity
    OneRefusalLeavesNoOrphan
PROPERTIES
    RowOutlivesIdentity
    ImplementsRegistry
    UnwantedIsCollected
CHECK_DEADLOCK FALSE
