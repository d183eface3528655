SPECIFICATION HistSpec
CONSTANTS
    BatchSize = 2
    StatsEnabled = FALSE
    MaxMsgs = 4
    Faults = {"unpack", "raw", "node", "begin", "insert", "autorollback", "commit", "stuck", "json"}
INVARIANTS
    TypeOK
    NoLostWakeup
    EveryMessageAccounted
    RawBuffersOwned
PROPERTIES
    WedgedForGood
    ImplementsSampleLog
