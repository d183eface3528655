SPECIFICATION Spec
CONSTANTS
    Gateways = {"gw"}
    Core <- CoreColumns
    Keys <- IndexColumns
    Motor <- MotorOrder
    Files <- SomeFiles
    ReadMayFail = FALSE
    MaxCrashes = 0
INVARIANTS
    OpenIsTuned
