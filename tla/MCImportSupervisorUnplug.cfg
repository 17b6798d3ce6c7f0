SPECIFICATION Spec
CONSTANTS
  NoDir = NoDir
  Dirs = {d1}
  Overlap = {o1}
  FlagDir = NoDir
  Names = {n1}
  Handlers = {h1}
  Timers = {t1}
  Initial = Initial
  MaxSaves = 1
  MaxVersion = 1
  MaxPlugs = 2
  MaxFaults = 0
PROPERTIES
  ReturnedFolderIsWatched
CHECK_DEADLOCK FALSE
