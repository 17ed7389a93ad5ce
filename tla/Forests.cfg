\* The shipped map and the real targets: 30, 20, 20, 10, 10, 10.
SPECIFICATION Spec
CONSTANTS
  bank = bank
  Bank = bank
  Kinds <- treeDefinitions
  Target <- MCTarget
  resourceNodeTargetCount = 100
  Candidates <- MCCandidates
  minForestTreeGapTiles = 3
  BankAt <- MCBankAt
  resourceStumpLifetime = 1
  Loaders = {l1}
  Grown <- MCGrown
  Ids <- MCIds
  MaxTime = 1
  MaxFells = 0
  MaxFaults = 1
INVARIANTS
  TargetsReached
