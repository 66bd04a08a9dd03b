CONSTANTS
  ada = ada bo = bo
  Contacts = {ada}
  Archivable = {ada}
  Provider = FALSE
  BatchSize = 2
  MaxAttempts = 2
  MaxEdits = 2
  MaxFailures = 0
  None = None
SPECIFICATION Spec
CHECK_DEADLOCK FALSE
INVARIANTS StaleIsQueued
