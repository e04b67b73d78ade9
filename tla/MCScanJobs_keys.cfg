SPECIFICATION Spec
CONSTANTS
  Workers = {w1}
  Clients = {c1, c2}
  Scans = {s1, s2}
  Tests = {t1}
  Keys = {k1}
  NoKey = NoKey
  NoJob = NoJob
  MaxAttempts = 1
  LeaseTime = 2
  BeatTime = 1
  Outcomes = {"completed"}
  MaxCrashes = 0
  MaxFaults = 0
SYMMETRY RequestSymmetry
INVARIANTS
  KeyNamesOneOpenScan
