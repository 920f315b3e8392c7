SPECIFICATION FairServiceSpec
CONSTANTS
  c1 = c1
  c2 = c2
  Clients = {c1, c2}
  CommandLines <- AllCommandLines
  NotANumber = NotANumber
  EphemeralPort = 32768
  RestartDelays = {1, 2}
  StartLimitInterval = 6
  StartLimitBurst = 5
  TimeWait = 7
  StopTimeout = 2
  MaxCommands = 2
  MaxFailures = 1
INVARIANTS
  ServiceTypeOK
  EndIsExplained
PROPERTIES
  SpacedRestartComesBack
  RestartedWithinLimit
CHECK_DEADLOCK FALSE
