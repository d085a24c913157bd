SPECIFICATION Spec
CONSTANTS
  None = None
  Invalid = Invalid
  Panic = Panic
  d1 = d1
  Addresses <- MCAddresses
  Loopback <- MCLoopback
  MaxHost = 3
  MaxRepository = 6
  MaxRepositorySegments = 2
  MaxUsername = 2
  MaxPassword = 2
  MaxTimeout = 3
  Limits <- MCLimits
  Default <- MCDefault
  Pids = {p1, p2}
  Destinations = {d1}
  Attempts = 2
  Launches <- MCLaunches
  MaxRuns = 3
INVARIANTS
  TypeOK
  SettingsAreSafe
  ChangesAreAskedFor
  NothingIsLeft
  ChildrenReadTheirOwn
  NamesRunOutByKillsOnly
PROPERTIES
  RunsKeepApart
  CommandsEndOrWaitForOras
CHECK_DEADLOCK FALSE
