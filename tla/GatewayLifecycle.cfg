SPECIFICATION FairSpec
CONSTANTS
    Clients = {c1, c2}
    StatsEnabled = TRUE
    Faults = {"call", "refused", "loss", "subscribe"}
INVARIANTS
    UsersFindParts
    StopUndoesStart
PROPERTY StableLinkIsSubscribed
