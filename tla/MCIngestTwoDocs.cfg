SPECIFICATION Spec
CONSTANTS
  NDocs = 2
  MaxTs = 2
  NRows = 2
  Clients = {c1}
  Poller = poller
  BatchLimit = 2
  MaxDbTries = 2
  MaxVecTries = 2
  MaxSync = 1
  MaxFaults = 0
  MaxCrashes = 0
INVARIANTS
  WaitsUpward
PROPERTIES
  ImplementsLWW
