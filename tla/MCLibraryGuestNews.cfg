\* One file; four time stamps: two writes and two listings.
SPECIFICATION GuestSpec
CONSTANTS
  b1 = b1
  b2 = b2
  Tabs <- MCTabs
  Files = {"f"}
  MaxTime = 4
  Visits <- MCVisits
PROPERTIES
  ChangesAreHighlighted
SYMMETRY Symmetry
CHECK_DEADLOCK FALSE
