SPECIFICATION Spec
CONSTANTS
  NDocs = 1
  MaxTs = 2
  NRows = 2
  Clients = {c1}
  Poller = poller
  BatchLimit = 2
  MaxDbTries = 2
  MaxVecTries = 2
  MaxSync = 1
  MaxFaults = 1
  MaxCrashes = 1
INVARIANTS
  AckedIsKept
  SeenIsLive
  NoResurrection
  NoUpsertLost
PROPERTIES
  SettledStays
  DeleteHonoured
