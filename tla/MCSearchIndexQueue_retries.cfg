CONSTANTS
  ada = ada bo = bo
  Contacts = {ada}
  Archivable = {}
  Provider = FALSE
  BatchSize = 2
  MaxAttempts = 2
  MaxEdits = 1
  MaxFailures = 1
  None = None
SPECIFICATION LiveSpec
CHECK_DEADLOCK FALSE
PROPERTIES RetriesHappen
