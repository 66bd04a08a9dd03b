CONSTANTS
  index = index check = check created = created interacted = interacted ann = ann bob = bob
  Subscribers = {index}
  Kinds = {created}
  Owners = {ann, bob}
  Rank <- MCRank
  Takes <- MCTakesAll
  Deletable = {ann}
  MaxFailures = 3
  MaxEvents = 2
  None = None
SPECIFICATION Spec
CHECK_DEADLOCK FALSE
INVARIANTS SkipsAfterMaxFailures
