SPECIFICATION Spec
CONSTANTS
    Miners = {1, 2, 3}
    Rewards = {100, 110, 120}
    Pct = 10
    FirstRound = 1
    LastRound = 3
    Events = {"Absence", "Crash"}
INVARIANTS
    LeaderHoldsTheBar
    RestartKeepsTheThrone
PROPERTIES
    ImplementsSeasonThrone
