SPECIFICATION ClockFairSpec
CONSTANTS
    Sensors <- SimSensors
    SeqSize = 2
    Faults = {"start", "connect", "memory"}
    Second = 2
    Period <- SimPeriod
    Horizon = 1
    Motors <- SimMotors
    Part = 2
    Moves = {3}
    CountSize = 2
INVARIANTS
    SnapshotIsWhole
    SeqNamesSnapshot
    CacheOutlivesThreads
    OnSchedule
    CountIsExact
PROPERTY ShutdownEnds
