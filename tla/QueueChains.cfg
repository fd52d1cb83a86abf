SPECIFICATION Spec
CONSTANTS
  Null = Null
  MaxEntries = 2
  Workspace = {w1}
  Existing = {}
  Group = {g1}
  StartTime = {}
  Launcher = {p1,p2}
  Requester = {q1}
  Commands = {"queue", "edit", "run", "discard"}
  FullAnswers = {FALSE}
  MaxTime = 0
  MaxCrashes = 0
INVARIANTS TypeOK NoCycle OneParent
PROPERTIES NoChildLeftBehind
SYMMETRY Symmetric
CHECK_DEADLOCK FALSE
