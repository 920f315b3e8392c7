SPECIFICATION FairServiceSpec
CONSTANTS
  c1 = c1
  c2 = c2
  Clients = {c1, c2}
  CommandLines <- AsInstalled
  NotANumber = NotANumber
  EphemeralPort = 32768
  RestartDelays = {1}
  StartLimitInterval = 6
  StartLimitBurst = 5
  TimeWait = 8
  StopTimeout = 2
  MaxCommands = 2
  MaxFailures = 0
PROPERTIES
  RestartComesBack
CHECK_DEADLOCK FALSE
