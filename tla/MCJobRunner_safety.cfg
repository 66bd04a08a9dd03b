CONSTANTS
  ann = ann bob = bob inst = inst
  a1 = a1 a2 = a2 a3 = a3 b1 = b1 backup = backup tick = tick sweep = sweep
  p1 = p1 p2 = p2 empty = empty
  Owners = {ann, inst}
  Instance = inst
  Keys = {a1, backup, tick, sweep}
  OwnerOf <- MCOwnerOf
  MaxTries <- MCTriesByKind
  Registered = {a1, backup, tick, sweep}
  Recurring = {backup, tick}
  Switchable = {backup}
  AtStart = {tick, sweep}
  StartNow = {tick}
  Payloads = {empty, p1}
  Empty = empty
  None = None
  Concurrency = 2
SPECIFICATION Spec
CHECK_DEADLOCK FALSE
INVARIANTS RunsAlone NoLostEnqueue TriesBounded RecurringAlive
PROPERTIES TurnsAreFair ImplementsKeyedWork
