SPECIFICATION Spec
CONSTANTS
  None = None
  MaxSpares = 2
  Create = {c1,c2}
  PoolSize = 1
  MaxImages = 2
  MaxFaults = 2
  MaxEvents = 3
  Faults = {"crash", "evict", "hang", "image", "idle", "error", "stop"}
INVARIANTS TypeOK OneCreatePerSpare ClaimsAWholeSpare PoolIsWhole NothingElseStranded
PROPERTIES FilesOfARowStay ClaimedIsLeftRunning
SYMMETRY Symmetric
CHECK_DEADLOCK FALSE
