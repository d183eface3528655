SPECIFICATION FairSpec
CONSTANTS
    Compress <- Sha1Transform
    Small = 1
    Base = 4
    MaxPayload = 17
    HttpMax = 4
    Exchanges <- SomeExchanges
    Histories <- SomeHistories
    Online <- OnlineText
    Failed <- FailedText
    Sample <- SampleText
    MaxCasts = 1
    MaxCuts = 1
    Faults = {"stall", "silence", "hangup", "memory", "query"}
INVARIANTS
    RequestsAreUnderstood
    AcceptIsStandard
    BrokenOnlyByRace
PROPERTIES
    RequestIsAnswered
