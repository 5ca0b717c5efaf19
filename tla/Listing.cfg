SPECIFICATION FairSpec
CONSTANTS
    Ids = {1, 2, 3, 4, 5}
    Matching = {1, 3, 4, 5}
    Sizes <- FewSizes
    defaultPageSize = 2
    maxPageSize = 2
    MaxChanges = 2
    MaxFailures = 1
INVARIANTS
    NothingListedTwice
    StayersAreListed
    DriftIsBounded
PROPERTIES
    ListingEnds
CHECK_DEADLOCK FALSE
