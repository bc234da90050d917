CONSTANTS
  Relays = {1, 2}
  NumClients = 2
  Deployments <- SameDeployment
  Updates <- MCUpdates
  Draws = {1}
  Receiver <- MCReceiver
SPECIFICATION Spec
INVARIANTS
  RelaysSurviveUpdate
CHECK_DEADLOCK FALSE
