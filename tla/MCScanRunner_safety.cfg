SPECIFICATION FairSpec
CONSTANTS
  t1 = t1
  t2 = t2
  Targets = {t1, t2}
  Lazy = {t1}
  Eager = {t2}
  Stride <- MCStride
  Assets = {a1}
  MaxConcurrent = 2
  Threads = 1
  MaxRetries = 1
  MaxPages = 2
  TargetDeadline = 1
  ScanDeadline = 2
INVARIANTS
  TypeOK
  EvaluatedFromComplete
  CompletedMissesNothing
  CallsBounded
  CancelQuietens
PROPERTIES
  RunEnds
