SPECIFICATION FairSpec
CONSTANTS
    Clients = {c1}
    Nobody = Nobody
    Scenarios <- JoinScenarios
    MaxOpens = 0
    MaxDepth = 1
PROPERTIES
    JoinEnds
CHECK_DEADLOCK FALSE
