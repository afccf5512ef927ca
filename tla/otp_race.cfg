\* Two verifications of a code at once.
SPECIFICATION Spec
CONSTANTS
  NULL = NULL
  h1 = h1
  h2 = h2
  c1 = c1
  c2 = c2
  Emails = {m1}
  Registered = {m1}
  Codes <- TwoCodes
  Handlers <- TwoSlots
  MaxIssues = 1
  MaxRetry = 1
  Concurrency = 1
  MaxRestarts = 0
  SerialClients = FALSE
  Faults = FALSE
SYMMETRY Symmetry
INVARIANTS OtpIsSingleUse
