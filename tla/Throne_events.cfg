SPECIFICATION Spec
CONSTANTS
    Miners = {1, 2}
    Rewards = {0, 100, 104, 110}
    Pct = 5
    FirstRound = 1
    LastRound = 3
    Events = {"LeaderImproves", "Absence", "Ties", "ZeroRound", "NoConsensus", "Offline", "Skip", "Crash", "CrashMid", "Torn"}
INVARIANTS
    TypeOK
    CrownsAreEarned
    NoChallengerPassedOver
PROPERTIES
    WinnerKeptUntilBeaten
