SPECIFICATION Spec
CONSTANTS
  Things = {1, 2}
  Subjects <- LackingSubjects
  Configs <- MCConfigs
  MaxChanges = 1
  Forms = {"missing", "shapeless", "absent"}
INVARIANT MissingIsUnknown
CHECK_DEADLOCK FALSE
