SPECIFICATION Spec
CONSTANTS
  Null = Null
  MaxEntries = 1
  Workspace = {w1}
  Existing = {}
  Group = {g1}
  StartTime = {1, 2}
  Launcher = {p1}
  Requester = {q1}
  Commands = {"queue", "edit"}
  FullAnswers = {TRUE}
  MaxTime = 2
  MaxCrashes = 0
INVARIANTS ScheduledNotEarly
CHECK_DEADLOCK FALSE
