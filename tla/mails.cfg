\* Three retries, two tasks for one worker, a restart or a crash.
SPECIFICATION MailSpec
CONSTANTS
  Tasks = {t1, t2}
  MaxRetry = 3
  Concurrency = 1
  MaxRestarts = 1
INVARIANTS MailTypeOK CopiesBounded SettledHonestly
PROPERTIES TaskSettles
CHECK_DEADLOCK FALSE
