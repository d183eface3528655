SPECIFICATION FairSpec
CONSTANTS
    MaxConns = 2
    MaxFrames = 2
    Fds = {3, 4}
    Faults = {"calloc", "thread", "handshake", "silence", "frame"}
INVARIANTS
    TypeOK
    ListIsLive
    NothingLeaks
    MisuseHasCause
PROPERTIES
    StopReturns
    BroadcastEnds
