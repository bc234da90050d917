\* One heartbeat late by a moment is enough.
CONSTANTS
  Relays = {1, 2}
  Clients = {1}
  MinRelays = 1
  MinClients = 1
  ServerLoad = 1
  PathLength = 2
SPECIFICATION Spec
INVARIANTS
  EnoughRelays
CHECK_DEADLOCK FALSE
