SPECIFICATION Spec
CONSTANTS
  Null = Null
  MaxEntries = 2
  Workspace = {w1,w2,w3}
  Existing = {}
  Group = {g1}
  StartTime = {}
  Launcher = {p1,p2}
  Requester = {q1}
  Commands = {"queue"}
  FullAnswers = {FALSE}
  MaxTime = 0
  MaxCrashes = 0
PROPERTIES LaunchesOnlyWaiting
CHECK_DEADLOCK FALSE
