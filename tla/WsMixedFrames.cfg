SPECIFICATION Spec
CONSTANTS
    Compress <- Sha1Transform
    Small = 1
    Base = 4
    MaxPayload = 17
    HttpMax = 4
    Exchanges <- OneExchange
    Histories <- SomeHistories
    Online <- OnlineText
    Failed <- FailedText
    Sample <- SampleText
    MaxCasts = 1
    MaxCuts = 0
    Faults = {"hangup"}
INVARIANTS
    StreamIsWhole
