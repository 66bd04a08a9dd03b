CONSTANTS
  ada = ada bo = bo cy = cy
  Accounts = {ada, bo}
  Concurrency = 1
  Capacity = 2
  MaxConsecutiveInteractive = 2
  None = None
SPECIFICATION LiveSpec
CHECK_DEADLOCK FALSE
PROPERTIES NoneStarves
