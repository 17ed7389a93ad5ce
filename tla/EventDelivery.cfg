SPECIFICATION FairSpec
CONSTANTS
  felled = felled  felledAgain = felledAgain  started = started
  alice = alice  bob = bob  d1 = d1  d2 = d2  NoEvent = NoEvent
  Events = {felled, felledAgain, started}
  Completed = {felled, felledAgain}
  Users = {alice, bob}
  UserOf <- MCUserOf
  Dispatchers = {d1, d2}
  Limit = 1
  MaxTime = 1
  MaxInboxId = 4
  MaxFaults = 2
INVARIANTS TypeOK DeliveredOnce
PROPERTIES ItemsAreKept ImplementsNotifications
