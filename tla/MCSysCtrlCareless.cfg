CONSTANTS
  obsKey = obsKey
  obsAll = obsAll
  Obs <- MCObs
  Event <- MCEvent
  ObsEvent <- MCObsEvent
  Matches <- MCMatches
  Client = {client1}
  NoOne = NoOne
  QueueLen = 2
  Careful = FALSE
SPECIFICATION Spec
INVARIANT RegistrationHolds
