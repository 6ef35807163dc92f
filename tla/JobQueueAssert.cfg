SPECIFICATION Spec
CONSTANTS
    Ids = {1, 2}
    MaxRequests = 2
    MaxEnters = 4
    MaxDepth = 2
    MaxSolar = 1
INVARIANTS
    ConditionMeansJob
