CONSTANTS
    Validators = {v1}
    MinimumStartBlock = 2
    RoundLength = 3
    RoundsPerSeason = 2
    FetchPct = 67
    LatePct = 30
    MinBlocks = 1
    FirstBlock = 1
    LastBlock = 8
    Lag = 1
    Events = {"ChainFails", "Crash"}
SPECIFICATION FairSpec
PROPERTY FailuresAreRestarted
