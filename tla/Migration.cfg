SPECIFICATION FairSpec
CONSTANTS
    Gateways = {"gw1", "gw2"}
    Core <- CoreColumns
    Keys <- IndexColumns
    Motor <- MotorOrder
    Files <- SomeFiles
    ReadMayFail = TRUE
    MaxCrashes = 2
INVARIANTS
    TypeOK
    StampMeansComplete
    OpenIsReady
    CrashesAreRepaired
PROPERTIES
    LaterVersionUntouched
    MigrationEnds
