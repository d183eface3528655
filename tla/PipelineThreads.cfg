SPECIFICATION HistSpec
CONSTANTS
    BatchSize = 2
    StatsEnabled = TRUE
    MaxMsgs = 3
    Faults = {"begin", "insert", "commit", "stuck"}
INVARIANTS
    BatchIsSettled
    QuiescentWhenFreed
    ReportsAreSane
PROPERTIES
    QueuedIsDelivered
    StopReturns
