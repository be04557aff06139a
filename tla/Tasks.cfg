CONSTANTS
  Tasks <- MCTasks
  Calls = {c1, c2}
  Costs <- MCCosts
  MaxCost = 1
  CostLimit = 1
  Providers = {"chutes"}
  Refreshed = {"chutes"}
  Slots <- MCSlots
  MaxRetries = 1
  ForceJson = FALSE
  Agents = {"a", "b"}
  None = None
  Error = Error
  Total = 2
  BatchSizes = {1, 2}
  MaxHits = 1
  Timeout = 2
  CostNorm = 1
  Weights <- MCWeights
  Outcomes <- MCOutcomes
  Queues <- MCQueues
  Faults = {"allow", "usage"}
  MaxCrashes = 1
SPECIFICATION Spec
INVARIANTS TypeOK CostIsBounded PaysForItself StoppedForItsOwn OverCostIsCut OnlyCrashesLeaveContainers
PROPERTY NeverPaidLess
SYMMETRY Symmetry
