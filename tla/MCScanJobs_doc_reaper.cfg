SPECIFICATION Spec
CONSTANTS
  Workers = {w1, w2}
  Clients = {c1}
  Scans = {s1}
  Tests = {}
  Keys = {}
  NoKey = NoKey
  NoJob = NoJob
  MaxAttempts = 2
  LeaseTime = 2
  BeatTime = 1
  Outcomes = {"completed", "failed"}
  MaxCrashes = 1
  MaxFaults = 0
INVARIANTS
  AttemptsWithinMax
