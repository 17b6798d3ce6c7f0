SPECIFICATION Spec
CONSTANTS
  NoDir = NoDir
  Dirs = {d1, d2}
  Overlap = {o1}
  FlagDir = NoDir
  Names = {n1}
  Handlers = {h1, h2}
  Timers = {t1}
  Initial = Initial
  MaxSaves = 2
  MaxVersion = 1
  MaxPlugs = 1
  MaxFaults = 1
INVARIANTS
  TypeOK
  NoLostRestart
  NoLostAutoCopy
  LiveScansOfCurrentLoop
PROPERTIES
  OneLoopAtATime
  NoCopyBegunFromOldFolder
  NoCopyAfterSwitchOff
CHECK_DEADLOCK FALSE
