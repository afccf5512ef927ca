\* Two requests of an employee at once, any of which may die; clock-outs are submissions from a zone west of the server.
SPECIFICATION Spec
CONSTANTS
  NULL = NULL
  h1 = h1
  h2 = h2
  b1 = b1
  b2 = b2
  DayLength = 2
  MinuteLength = 2
  MaxTime = 2
  ClientZones <- WestOfServer
  Schedules <- NoSchedule
  Notes = {}
  Ops <- OfflineChanges
  SerialClients = FALSE
  Faults = TRUE
  Handlers <- Slots
  BreakIds <- TwoBreaks
  Employees = {e1}
SYMMETRY Symmetry
INVARIANTS TypeOK NothingFromTheFuture WithinWorkDay
PROPERTIES EndedBreaksStay HistoryStays
