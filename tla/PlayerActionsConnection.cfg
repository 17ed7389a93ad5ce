SPECIFICATION FairSpec
CONSTANTS
  oak = oak  elm = elm  api = api  push = push  w1 = w1  w2 = w2
  NoUser = NoUser  NoEntity = NoEntity  NoWorker = NoWorker  NoAction = NoAction
  NoMovement = NoMovement
  Users = {alice}
  Entities = {oak, elm}
  ActionIds = {1, 2}
  Workers = {w1}
  Handlers = {api}
  Ops <- MCOpsAll
  Corridor = 1
  Island = 3
  Water = 9
  Beside <- MCBeside
  RequiredLevel <- MCLevels
  Duration <- MCShortDuration
  BaseInterval = 2
  MinInterval = 1
  Rolls = {TRUE, FALSE}
  SlotLimit = 3
  XPPerLevel = 2
  StumpLifetime = 1
  TargetTrees = 1
  MaxTime = 5
  MaxLag = 0
  MaxFaults = 1
INVARIANTS TypeOK PaidAsScheduled NeverMovingWhileHarvesting HarvestBesideTree
PROPERTIES HarvestsEnd
