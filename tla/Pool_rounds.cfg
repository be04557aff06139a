CONSTANTS
    a = a
    b = b
    c = c
    k = k
    l = l
    x = x
    y = y
    r = r
    s = s
    Miners = {a, b, c}
    Commits = {x, y}
    NoCommit = NoCommit
    Rewards = {0, 1}
    ColdkeyOf <- MCOwners
    RepoOf <- MCRepos
    MaxPerColdkey = 1
    MaxPerRepo = 1
    Cooldowns <- MCCooldowns
    LastRound = 3
    Events = {"late", "short", "nobody", "undeployable", "unregistered", "unsettled", "crash"}
SPECIFICATION Spec
INVARIANT TypeOK GateIsOpen CountsForItsRuns ExcludedZerosAreGone
PROPERTY CooldownIsKept
SYMMETRY MCSymmetry
