CONSTANTS
  Uids <- MCUids
  Burn = 5
  Whole = 10
  BurnShare = 8
  MinAllowed = 1
  None = None
  MaxSettlements = 2
  MaxReplacements = 1
  MaxFaults = 2
  MaxRestarts = 1
SPECIFICATION FairSpec
INVARIANTS TypeOK ReplacedIsZeroed
PROPERTY SettledIsPaid
