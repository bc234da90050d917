\* With x = 2, shares of the load from 2/3 (no checkpoint onion, and the messages
\* are more than the load) over 4/3 (rounded down) to 4 (three checkpoint onions).
CONSTANTS
  Relays = {1, 2}
  Clients = {1, 2, 3}
  MinRelays = 1
  MinClients = 1
  ServerLoad = 2
  PathLength = 2
SPECIFICATION FairSpec
INVARIANTS
  IInv
  SignalsAgree
  LoadBound
  LeftBehindIfOvertaken
PROPERTIES
  ImplementsRunStart
  ReadyNodesGetSignals
CHECK_DEADLOCK FALSE
