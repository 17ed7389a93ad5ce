SPECIFICATION Spec
CONSTANTS
  Harvester = Harvester  NoOne = NoOne
  Depositors = {http, socket}
  Quantities = {1, 3}
  RewardQuantity = 1
  Limit = 3
  MaxTicks = 2
  MaxInflow = 4
INVARIANTS TypeOK Conserved
PROPERTIES ImplementsLedger
