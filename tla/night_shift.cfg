\* A shift that began before midnight is submitted offline after it.
SPECIFICATION Spec
CONSTANTS
  NULL = NULL
  h1 = h1
  h2 = h2
  b1 = b1
  b2 = b2
  DayLength = 3
  MinuteLength = 2
  MaxTime = 3
  ClientZones = {0}
  Schedules <- NoSchedule
  Notes = {}
  Ops <- Changes
  SerialClients = TRUE
  Faults = FALSE
  Handlers = {h1}
  BreakIds <- TwoBreaks
  Employees = {e1}
SYMMETRY Symmetry
INVARIANTS OfflineFindsShift
