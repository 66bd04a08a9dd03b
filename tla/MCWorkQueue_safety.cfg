CONSTANTS
  ada = ada bo = bo cy = cy
  q1 = q1 q2 = q2 q3 = q3
  Accounts = {ada, bo, cy}
  Questions = {q1, q2, q3}
  Concurrency = 2
  SearchConcurrency = 1
  Capacity = 3
  MaxConsecutiveInteractive = 2
  None = None
SPECIFICATION WorkSpec
CHECK_DEADLOCK FALSE
SYMMETRY Symmetric
INVARIANTS OrderIsRight NothingIdles TiersAreFair
PROPERTIES TurnsInOrder
