SPECIFICATION Spec
CONSTANTS
    MaxRows = 3
    MaxTime = 1
    MaxWire = 1
    BatchSize = 2
    Default = 1
    MaxLimit = 2
    Faults = {"clock", "query", "step"}
    MaxSamples = 1
    MaxAsk = 3
    Typed = {0, 7}
    MaxClosing = 1
    MaxRequests = 1
INVARIANTS
    AnswerIsLatest
    NoHole
    ViewIsTrue
    PanelIsNewest
