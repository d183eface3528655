SPECIFICATION Spec
CONSTANTS
    BatchSize = 2
    StatsEnabled = FALSE
    MaxMsgs = 3
    Faults = {"insert"}
INVARIANTS
    LiveIsPersisted
