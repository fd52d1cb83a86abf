SPECIFICATION HistorySpec
CONSTANTS
  Null = Null
  MaxEntries = 1
  Workspace = {r1,w1,w2}
  Existing = {r1}
  Group = {g1}
  StartTime = {}
  Launcher = {p1,p2}
  Requester = {q1}
  Commands = {"queue", "run", "stop", "die"}
  FullAnswers = {FALSE}
  MaxTime = 0
  MaxCrashes = 1
INVARIANTS LaunchHoldsClaim   ReleasedByItsParent
PROPERTIES  KeepsContract
SYMMETRY Symmetric
CHECK_DEADLOCK FALSE
