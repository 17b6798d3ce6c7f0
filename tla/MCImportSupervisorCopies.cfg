SPECIFICATION Spec
CONSTANTS
  NoDir = NoDir
  Dirs = {d1}
  Overlap = {o1}
  FlagDir = NoDir
  Names = {n1, n2}
  Handlers = {h1}
  Timers = {t1}
  Initial = Initial
  MaxSaves = 0
  MaxVersion = 1
  MaxPlugs = 0
  MaxFaults = 0
INVARIANTS
  AutoCopyOnlyNew
CHECK_DEADLOCK FALSE
