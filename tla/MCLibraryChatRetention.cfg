\* The retention: days pass, the administrator changes the setting and clears
\* the chat while messages expire. No symmetry: a liveness property is checked.
SPECIFICATION Spec
CONSTANTS
  g1 = g1
  g2 = g2
  Guests = {g1}
  Settings = {s1}
  Maintenance = loop
  Admins = {a1}
  Days = {1, 2}
  DefaultDays = 1
  Failing = {"days"}
  MaxFailing = 1
  MaxSwitches = 2
  MaxClock = 2
  MaxCrashes = 0
INVARIANTS TypeOK RowsHaveTheirVoice
PROPERTIES KeptForRetention ExpiredChatGoes
CHECK_DEADLOCK FALSE
