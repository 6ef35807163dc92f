SPECIFICATION LiveSpec
CONSTANTS
    f = f
    u = u
    t1 = t1
    t2 = t2
    t3 = t3
    Docs = {f, u}
    NoDoc = NoDoc
    Untitled = {u}
    MaxVersion = 1
    Temps = {t1, t2, t3}
    NoTemp = NoTemp
    Scenarios <- UseScenarios
    MayKill = FALSE
INVARIANTS
    TypeOK
    EmergencySavesAll
PROPERTIES
    BackupsSurvive
    RecoveryBringsBack
    HandledInTime
