CONSTANTS
  ada = ada bo = bo
  Contacts = {ada, bo}
  Archivable = {}
  Provider = FALSE
  BatchSize = 2
  MaxAttempts = 2
  MaxEdits = 1
  MaxFailures = 2
  None = None
SPECIFICATION Spec
CHECK_DEADLOCK FALSE
INVARIANTS FailedAfterMaxAttempts
