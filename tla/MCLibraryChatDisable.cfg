\* A guest posts while the administrator disables the library.
SPECIFICATION Spec
CONSTANTS
  g1 = g1
  g2 = g2
  Guests = {g1}
  Settings = {}
  Maintenance = loop
  Admins = {a1}
  Days = {1}
  DefaultDays = 1
  Failing = {}
  MaxFailing = 0
  MaxSwitches = 2
  MaxClock = 0
  MaxCrashes = 0
INVARIANT DisableRemovesAllChat
CHECK_DEADLOCK FALSE
