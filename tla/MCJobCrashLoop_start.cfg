CONSTANTS
  ann = ann bob = bob inst = inst
  a1 = a1 a2 = a2 a3 = a3 b1 = b1 backup = backup tick = tick sweep = sweep
  p1 = p1 p2 = p2 empty = empty
  Owners = {inst}
  Instance = inst
  Keys = {sweep}
  OwnerOf <- MCOwnerOf
  MaxTries <- MCTwoTries
  Registered = {sweep}
  Recurring = {}
  Switchable = {}
  AtStart = {sweep}
  StartNow = {}
  Payloads = {empty}
  Empty = empty
  None = None
  Concurrency = 1
SPECIFICATION LoopSpec
CHECK_DEADLOCK FALSE
INVARIANTS JobCannotLoop
CONSTANT MaxKills = 4
