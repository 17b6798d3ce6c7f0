SPECIFICATION Spec
CONSTANTS
  Bases = {a}
  MaxSuffix = 1
  Saves = {w1, w2}
  Readers = {r1}
  Old = Old
  None = None
  UploadMax = 1
  ImportMax = 2
  MaxDeletes = 1
  MaxCrashes = 1
INVARIANTS
  EverySaveIsWhole
CHECK_DEADLOCK FALSE
