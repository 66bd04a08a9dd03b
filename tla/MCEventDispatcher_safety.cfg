CONSTANTS
  index = index check = check created = created interacted = interacted ann = ann bob = bob
  Subscribers = {index, check}
  Kinds = {created, interacted}
  Owners = {ann}
  Rank <- MCRank
  Takes <- MCTakes
  Deletable = {ann}
  MaxFailures = 2
  MaxEvents = 2
  None = None
SPECIFICATION Spec
CHECK_DEADLOCK FALSE
INVARIANTS CursorSkipsNothing NothingStranded SkipsAfterMaxFailures
PROPERTIES DeliveredInOrder ImplementsDelivery
