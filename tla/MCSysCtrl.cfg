CONSTANTS
  obsKey = obsKey
  obsAll = obsAll
  Obs <- MCObs
  Event <- MCEvent
  ObsEvent <- MCObsEvent
  Matches <- MCMatches
  Client = {client1}
  NoOne = NoOne
  QueueLen = 2
  Careful = TRUE
SPECIFICATION FairSpec
INVARIANTS TypeOK NoDangling RegistrationHolds AllNotified Rendezvous
PROPERTIES NotifiedOnce Returns
