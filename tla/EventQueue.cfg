SPECIFICATION FairSpec
CONSTANTS
    f1 = f1
    f2 = f2
    NoFrame = NoFrame
    Width = 3
    Frames <- TwoFrames
    Scenarios <- UseScenarios
INVARIANTS
    TypeOK
    ItemsAreLive
    InputKeepsOrder
    NothingIsLost
PROPERTIES
    EventsLeave
    TerminationEnds
