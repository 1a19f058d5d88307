SPECIFICATION FairSpec
CONSTANTS
  NDocs = 1
  MaxTs = 1
  NRows = 2
  Clients = {c1}
  Poller = poller
  BatchLimit = 1
  MaxDbTries = 2
  MaxVecTries = 2
  MaxSync = 1
  MaxFaults = 1
  MaxCrashes = 1
PROPERTIES
  EveryRowSettles
  EveryRequestAnswered
