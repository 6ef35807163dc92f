SPECIFICATION Spec
CONSTANTS
    desk = desk
    laptop = laptop
    colleague = colleague
    Offices <- MCOffices
    UserOf <- MCUserOf
    NoFile = NoFile
    Blank = Blank
    Configs <- MCConfigs
    MayFail = TRUE
    MaxOps = 4
SYMMETRY Interchangeable
INVARIANTS
    TypeOK
    Exclusive
    LeavesNothing
PROPERTIES
    StrangersKeepOut
CHECK_DEADLOCK FALSE
