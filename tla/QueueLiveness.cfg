SPECIFICATION FairSpec
CONSTANTS
  Null = Null
  MaxEntries = 1
  Workspace = {r1,w1,w2}
  Existing = {r1}
  Group = {g1}
  StartTime = {1}
  Launcher = {p1}
  Requester = {q1}
  Commands = {"queue", "stop", "die"}
  FullAnswers = {FALSE}
  MaxTime = 1
  MaxCrashes = 1
PROPERTIES WaitingIsLaunched StopLaunchesChildren 
CHECK_DEADLOCK FALSE
