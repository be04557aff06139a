CONSTANTS
    Ids = {i1, i2, i3}
    NoId = NoId
    StartRetries = 2
    FinishRetries = 2
    Events = {"lost", "error", "authority", "window", "duplicate", "mismatch", "attached", "skipped", "disk", "crash"}
SPECIFICATION FairSpec
INVARIANT TypeOK ReportsAreKept RunsBelongToTheRound
PROPERTY OfflineRoundsSendNothing PendingIsSent
