CONSTANTS
    a = a
    b = b
    c = c
    Validators = {a, b, c}
    Self = a
    Miners = {0, 1, 2}
    Rewards = {0, 1, 2}
    NoRun = NoRun
    Nothing = Nothing
    Payloads <- MCPayloads
    Others <- MCOthers
    Setups <- MCSetups
    MinStake = 1
    Faults = {"PublishFails", "ReadFails", "DownloadFails", "Raises"}
SPECIFICATION Spec
INVARIANT TypeOK RewardIsTheAverage BetweenTheVotes PositiveIfSomeoneSaysSo LeftOutHadNothing CountedWerePublished
PROPERTY Settles
