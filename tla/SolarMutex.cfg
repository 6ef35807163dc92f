SPECIFICATION FairSpec
CONSTANTS
    Threads = {main, w1, w2}
    Main = main
    NoThread = none
    MaxOps = 4
    MaxDepth = 2
    MayShutDown = TRUE
    MaySignal = TRUE
INVARIANTS
    TypeOK
    OwnedIffHeld
    CountsAgree
    PriorityIsWanted
    DragKeepsLock
    HandlerNeverBlocks
PROPERTIES
    CallsReturn
