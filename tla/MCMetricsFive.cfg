SPECIFICATION FairSpec
CONSTANTS
  Recorder = {r1}
  Minute = 1
  Five = 5
  MaxAge = 20
  Capacity = 2
  MaxTime = 6
  MaxEvents = 2
  MaxFails = 0
PROPERTIES
  FiveMinutesComplete
