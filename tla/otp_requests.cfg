\* Requests and verifications of an address overlap; no command fails; the process is restarted.
SPECIFICATION FairSpec
CONSTANTS
  NULL = NULL
  h1 = h1
  h2 = h2
  c1 = c1
  c2 = c2
  Emails = {m1}
  Registered = {m1}
  Codes = {c1}
  Handlers <- TwoSlots
  MaxIssues = 2
  MaxRetry = 1
  Concurrency = 1
  MaxRestarts = 1
  SerialClients = FALSE
  Faults = FALSE
INVARIANTS StoredCodeIsMailed
PROPERTIES RequestSettles
