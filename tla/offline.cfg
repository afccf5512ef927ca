\* An app that goes offline, with retries, lost answers and dying handlers.
SPECIFICATION FairOfflineSpec
CONSTANTS
  NULL = NULL
  h1 = h1
  h2 = h2
  b1 = b1
  b2 = b2
  DayLength = 4
  MinuteLength = 3
  SecondLength = 2
  MaxLatency = 0
  MaxSubmissions = 1
  MaxFailures = 1
  JwtExpiration = 0
  MaxTime = 5
  ClientZones = {0}
  Schedules <- NoSchedule
  Notes = {}
  Ops <- AppOps
  SerialClients = FALSE
  Faults = TRUE
  Handlers <- Slots
  BreakIds <- TwoBreaks
  Employees = {e1}
  User = e1
INVARIANTS WorkedWithinShift AnswersAreTrue
PROPERTIES ClockedOutIsFinal SubmissionSettles
