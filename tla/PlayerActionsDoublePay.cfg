SPECIFICATION Spec
CONSTANTS
  oak = oak  elm = elm  api = api  push = push  w1 = w1  w2 = w2
  NoUser = NoUser  NoEntity = NoEntity  NoWorker = NoWorker  NoAction = NoAction
  NoMovement = NoMovement
  Users = {alice}
  Entities = {oak}
  ActionIds = {1, 2}
  Workers = {w1, w2}
  Handlers = {api, push}
  Ops <- MCOpsRequests
  Corridor = 0
  Island = 2
  Water = 9
  Beside <- MCBeside
  RequiredLevel <- MCNoLevel
  Duration <- MCShortDuration
  BaseInterval = 2
  MinInterval = 1
  Rolls = {TRUE}
  SlotLimit = 2
  XPPerLevel = 2
  StumpLifetime = 1
  TargetTrees = 1
  MaxTime = 4
  MaxLag = 0
  MaxFaults = 0
INVARIANTS RewardsMatchItems
