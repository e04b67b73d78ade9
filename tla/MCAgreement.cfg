SPECIFICATION Spec
CONSTANTS
  Things = {1, 2}
  Subjects <- MainSubjects
  Configs <- MCConfigs
  MaxChanges = 2
  Forms = {}
INVARIANTS
  TypeOK
  FailWarranted
  PassWarranted
  NothingMissed
  NothingOverlooked
  FailureHasCause
  KnownWasSo
CHECK_DEADLOCK FALSE
