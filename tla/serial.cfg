\* Each employee's app waits for its answers and no statement fails.
SPECIFICATION Spec
CONSTANTS
  NULL = NULL
  h1 = h1
  h2 = h2
  b1 = b1
  b2 = b2
  DayLength = 3
  MinuteLength = 2
  MaxTime = 4
  ClientZones = {0, 1}
  Schedules = {1}
  Notes = {n1}
  Ops <- EveryOp
  SerialClients = TRUE
  Faults = FALSE
  Handlers = {h1}
  BreakIds <- TwoBreaks
  Employees = {e1}
SYMMETRY Symmetry
INVARIANTS BreakStatusAgree TotalsMatchTables PreviewIsEstimate TodayShowsBreak SuccessIsTrue BreaksFitShift
PROPERTIES ClockedOutIsFinal AbsentNotesLeaveNotes ImplementsDay
