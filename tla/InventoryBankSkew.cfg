SPECIFICATION Spec
CONSTANTS
  Harvester = Harvester  NoOne = NoOne
  Depositors = {http}
  Quantities = {1, 3}
  RewardQuantity = 1
  Limit = 3
  MaxTicks = 2
  MaxInflow = 4
INVARIANTS XPMatchesItems
