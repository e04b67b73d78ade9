SPECIFICATION Spec
CONSTANTS
  Workers = {w1}
  Clients = {c1}
  Scans = {s1, s2}
  Tests = {}
  Keys = {k1}
  NoKey = NoKey
  NoJob = NoJob
  MaxAttempts = 1
  LeaseTime = 2
  BeatTime = 1
  Outcomes = {"completed", "failed"}
  MaxCrashes = 0
  MaxFaults = 0
INVARIANTS
  KeyNamesOneScan
