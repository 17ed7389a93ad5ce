\* Two futures of one refresher, two sessions, one fault, one expiry.
SPECIFICATION Spec
CONSTANTS
  Slots = {r1, r2}
  Names = {n1, n2}
  NoName = NoName
  MaxSessions = 2
  MaxTokens = 4
  MaxUpgrades = 2
  MaxExpiries = 1
  MaxFaults = 1
SYMMETRY Symmetry
INVARIANTS TypeOK ExchangedOnce InStep
PROPERTIES NameKeepsUser
CHECK_DEADLOCK FALSE
