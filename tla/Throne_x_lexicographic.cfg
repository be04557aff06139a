SPECIFICATION Spec
CONSTANTS
    Miners = {1, 2}
    Rewards = {0, 100, 104}
    Pct = 5
    FirstRound = 9
    LastRound = 10
    Events = {"LeaderImproves", "Crash"}
INVARIANTS
    RestartKeepsTheThrone
