CONSTANTS
  Relays = {1}
  Clients = {1}
  MaxKeys = 2
  MaxAge = 4
  MaxDelay = 1
SPECIFICATION FairSpec
INVARIANTS
  IInv
  HeartbeatingIsActive
  RegisteredIsListed
  NoFresherThanSent
PROPERTIES
  LastHeartbeatMonotone
  HeartbeatsRelist
CHECK_DEADLOCK FALSE
