CONSTANTS
  Relays = {1, 2}
  NumClients = 2
  Deployments <- MCDeployments
  Updates <- MCUpdates
  Draws = {1, 2, 3}
  Receiver <- MCReceiver
SPECIFICATION FairSpec
INVARIANTS
  IInv
  PathsFitSignal
  FallsExplained
  MessagesLookAlike
PROPERTIES
  SignalsGoOut
CHECK_DEADLOCK FALSE
