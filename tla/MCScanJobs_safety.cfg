SPECIFICATION Spec
CONSTANTS
  Workers = {w1, w2}
  Clients = {c1}
  Scans = {s1}
  Tests = {}
  Keys = {}
  NoKey = NoKey
  NoJob = NoJob
  MaxAttempts = 2
  LeaseTime = 2
  BeatTime = 1
  Outcomes = {"completed", "failed"}
  MaxCrashes = 2
  MaxFaults = 1
SYMMETRY WorkerSymmetry
INVARIANTS
  TypeOK
  SingleExecution
  CompletedJobMeansScanEnded
  AttemptsBounded
  NoRepeatWithoutFault
PROPERTIES
  FinalJobStays
  CancelledStaysUnexecuted
