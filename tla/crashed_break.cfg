\* A start of a break dies between its two writes.
SPECIFICATION Spec
CONSTANTS
  NULL = NULL
  h1 = h1
  h2 = h2
  b1 = b1
  b2 = b2
  DayLength = 3
  MinuteLength = 2
  MaxTime = 3
  ClientZones = {0}
  Schedules <- NoSchedule
  Notes = {}
  Ops <- OnlineChanges
  SerialClients = TRUE
  Faults = TRUE
  Handlers = {h1}
  BreakIds <- TwoBreaks
  Employees = {e1}
SYMMETRY Symmetry
INVARIANTS NoOpenBreakAfterClockOut
