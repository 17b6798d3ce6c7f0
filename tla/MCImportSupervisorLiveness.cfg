SPECIFICATION Spec
CONSTANTS
  NoDir = NoDir
  Dirs = {d1}
  Overlap = {o1}
  FlagDir = NoDir
  Names = {n1}
  Handlers = {h1}
  Timers = {t1}
  Initial = Initial
  MaxSaves = 2
  MaxVersion = 2
  MaxPlugs = 2
  MaxFaults = 0
PROPERTIES
  SavedFolderIsWatched
  NewestVersionImported
  ShutdownQuiesces
CHECK_DEADLOCK FALSE
