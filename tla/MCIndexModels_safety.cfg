CONSTANTS
  ada = ada bo = bo cy = cy
  Contacts = {ada, bo}
  Archivable = {}
  Provider = FALSE
  BatchSize = 2
  MaxAttempts = 2
  MaxEdits = 1
  MaxFailures = 1
  None = None
SPECIFICATION ModelsSpec
CHECK_DEADLOCK FALSE
SYMMETRY Symmetric
INVARIANTS StaleIsQueuedLocally QueuedIsDrainedLocally LivingAreIndexed
PROPERTIES OnlyCurrentVectors
