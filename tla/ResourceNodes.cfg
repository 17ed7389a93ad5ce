\* Two loads that overlap, one failing statement, one felled tree.
SPECIFICATION FairSpec
CONSTANTS
  bank = bank
  Bank = bank
  Kinds <- MCKinds
  Target <- MCTarget
  resourceNodeTargetCount = 2
  Candidates <- MCCandidates
  minForestTreeGapTiles = 2
  BankAt <- MCBankAt
  resourceStumpLifetime = 1
  Loaders = {l1, l2}
  Grown = {}
  Ids <- MCIds
  MaxTime = 2
  MaxFells = 1
  MaxFaults = 1
INVARIANTS TypeOK SpacedUnlessRaced NoSurplusUnlessRaced
PROPERTIES OnlyExpiredStumpsGo EventuallyRestored
