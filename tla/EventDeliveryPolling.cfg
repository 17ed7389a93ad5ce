SPECIFICATION Spec
CONSTANTS
  felled = felled  felledAgain = felledAgain  started = started
  alice = alice  bob = bob  d1 = d1  d2 = d2  NoEvent = NoEvent
  Events = {felled, felledAgain}
  Completed = {felled, felledAgain}
  Users = {alice}
  UserOf <- MCUserOf
  Dispatchers = {d1, d2}
  Limit = 1
  MaxTime = 0
  MaxInboxId = 2
  MaxFaults = 0
INVARIANTS PollingMissesNothing
