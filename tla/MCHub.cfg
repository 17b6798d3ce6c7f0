\* Two posts per window of three ticks, one tick of waiting for the mutex; two
\* passwords and two session tokens; the process is started twice.
SPECIFICATION HubSpec
CONSTANTS
  r1 = r1
  r2 = r2
  r3 = r3
  r4 = r4
  i1 = i1
  i2 = i2
  p1 = p1
  p2 = p2
  t1 = t1
  t2 = t2
  b1 = b1
  b2 = b2
  None = None
  Tabs <- MCTabs
  Files = {"f"}
  MaxTime = 3
  Visits <- MCVisits
  Keys = {"setup", "login"}
  Requests <- MCRequests
  Passwords <- MCPasswords
  Tokens <- MCTokens
  Runs <- MCRuns
  Pages = {"page"}
  Names <- MCNames
  Trim <- MCTrim
  Scenes <- MCScenes
  Steps <- MCSteps
  Casts <- MCCasts
  max = 2
  window = 3
  Lag = 1
  MaxClock = 5
  TTL = 1
  Drain = 2
  Grace = 1
  MaxStarts = 2
INVARIANTS
  HubTypeOK
  AtMostMaxInWindow
  SessionsKnowThePassword
  NoEntryAfterTheEnd
  PageShowsOneRun
  EachFileOnce
  HighlightsAreNews
  FormsAreAccepted
  RecordedMigrationsAreComplete
  RunningMeansListening
  HandlersGetTheirDrain
PROPERTIES
  RefusedOnlyWhenFull
  SetupOnlyOnce
  SessionsStayInForce
SYMMETRY Symmetry
CHECK_DEADLOCK FALSE
