SPECIFICATION FairSpec
CONSTANTS
  Workers = {w1, w2}
  Clients = {c1}
  Scans = {s1}
  Tests = {}
  Keys = {}
  NoKey = NoKey
  NoJob = NoJob
  MaxAttempts = 3
  LeaseTime = 2
  BeatTime = 1
  Outcomes = {"completed"}
  MaxCrashes = 2
  MaxFaults = 0
PROPERTIES
  JobsEnd
  CancelledScansEnd
