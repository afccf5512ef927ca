\* An app that reads the server's time to the second, loses its connection and clocks out.
SPECIFICATION OfflineSpec
CONSTANTS
  NULL = NULL
  h1 = h1
  h2 = h2
  b1 = b1
  b2 = b2
  DayLength = 4
  MinuteLength = 3
  SecondLength = 2
  MaxLatency = 0
  MaxSubmissions = 1
  MaxFailures = 0
  JwtExpiration = 0
  MaxTime = 3
  ClientZones = {0}
  Schedules <- NoSchedule
  Notes = {}
  Ops <- BreakOps
  SerialClients = FALSE
  Faults = FALSE
  Handlers = {h1}
  BreakIds = {b1}
  Employees = {e1}
  User = e1
INVARIANTS BreakEndsByClockOut
