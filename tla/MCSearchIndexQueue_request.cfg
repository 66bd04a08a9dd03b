CONSTANTS
  ada = ada bo = bo
  Contacts = {ada, bo}
  Archivable = {}
  Provider = TRUE
  BatchSize = 1
  MaxAttempts = 2
  MaxEdits = 0
  MaxFailures = 0
  None = None
SPECIFICATION LiveSpec
CHECK_DEADLOCK FALSE
PROPERTIES RequestsAreServed
