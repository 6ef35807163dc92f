SPECIFICATION FairSpec
CONSTANTS
    Clients = {c1, c2}
    Nobody = Nobody
    Scenarios <- UseScenarios
    MaxOpens = 1
    MaxDepth = 2
INVARIANTS
    TypeOK
    PendingIsExact
    RepliesAreTrue
PROPERTIES
    RequestsAreServed
CHECK_DEADLOCK FALSE
