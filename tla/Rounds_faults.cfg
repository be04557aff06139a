CONSTANTS
    Validators = {v1, v2}
    MinimumStartBlock = 2
    RoundLength = 3
    RoundsPerSeason = 2
    FetchPct = 67
    LatePct = 40
    MinBlocks = 1
    FirstBlock = 1
    LastBlock = 11
    Lag = 1
    Events = {"Unevaluated", "PublishFails", "ChainFails", "Crash"}
SPECIFICATION Spec
INVARIANT TypeOK OneNamePerRound VotesAreFromTheRound
PROPERTY EveryoneInTimeIsCounted StartsEachRoundOnce
