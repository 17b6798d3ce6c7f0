\* The switch: two guests post while an administrator switches the library on,
\* off and on again; one operation may fail and the process may crash. No day
\* passes, so that no message expires.
SPECIFICATION Spec
CONSTANTS
  g1 = g1
  g2 = g2
  Guests <- MCGuests
  Settings = {}
  Maintenance = loop
  Admins = {a1}
  Days = {1}
  DefaultDays = 1
  Failing = {"insert", "forget", "clear", "token", "prune"}
  MaxFailing = 1
  MaxSwitches = 3
  MaxClock = 0
  MaxCrashes = 1
INVARIANTS NoOrphanVoice ClearedChatIsGone OldCodesStayOut
SYMMETRY Symmetry
CHECK_DEADLOCK FALSE
