\* A relay that registers twice: once is enough to leave its first key behind.
CONSTANTS
  Relays = {1}
  Clients = {}
  MaxKeys = 2
  MaxAge = 4
  MaxDelay = 1
SPECIFICATION Spec
INVARIANTS
  ListedKeyIsCurrent
CHECK_DEADLOCK FALSE
