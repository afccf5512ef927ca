\* Commands fail and the process dies; each app waits for its answers.
SPECIFICATION Spec
CONSTANTS
  NULL = NULL
  h1 = h1
  h2 = h2
  c1 = c1
  c2 = c2
  Emails = {m1, m2}
  Registered = {m1}
  Codes <- TwoCodes
  Handlers <- TwoSlots
  MaxIssues = 2
  MaxRetry = 1
  Concurrency = 1
  MaxRestarts = 1
  SerialClients = TRUE
  Faults = TRUE
SYMMETRY Symmetry
INVARIANTS TypeOK MailFollowsCode
PROPERTIES OwnCodeRemoved
