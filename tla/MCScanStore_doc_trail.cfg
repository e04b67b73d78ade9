SPECIFICATION Spec
CONSTANTS
  c1 = c1
  t1 = t1
  Controls = {c1}
  Targets = {t1, t2}
  TargetOf <- TargetOfControl
  Scans = {s1}
  People = {p1}
  Decisions = {"suppressed"}
  NoScan = NoScan
PROPERTY TransitionsAudited
