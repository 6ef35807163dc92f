SPECIFICATION FairSpec
CONSTANTS
    Ids = {1, 2}
    MaxRequests = 2
    MaxEnters = 4
    MaxDepth = 3
    MaxSolar = 2
INVARIANTS
    TypeOK
    JobsWake
    CallsAreRight
    SolarRestored
PROPERTIES
    WaitsEnd
