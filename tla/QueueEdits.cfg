SPECIFICATION Spec
CONSTANTS
  Null = Null
  MaxEntries = 1
  Workspace = {r1,w1}
  Existing = {r1}
  Group = {g1,g2}
  StartTime = {}
  Launcher = {p1}
  Requester = {q1}
  Commands = {"queue", "edit", "stop", "delete", "restart"}
  FullAnswers = {FALSE, TRUE}
  MaxTime = 0
  MaxCrashes = 0
PROPERTIES NothingQueuedUnderHold MidLaunchIsFrozen
SYMMETRY Symmetric
CHECK_DEADLOCK FALSE
