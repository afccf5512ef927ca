\* Two clock-outs of an employee at once.
SPECIFICATION Spec
CONSTANTS
  NULL = NULL
  h1 = h1
  h2 = h2
  b1 = b1
  b2 = b2
  DayLength = 3
  MinuteLength = 2
  MaxTime = 3
  ClientZones = {0}
  Schedules <- NoSchedule
  Notes = {}
  Ops <- ClockOutOps
  SerialClients = FALSE
  Faults = FALSE
  Handlers <- Slots
  BreakIds <- TwoBreaks
  Employees = {e1}
SYMMETRY Symmetry
PROPERTIES OneClockOut
