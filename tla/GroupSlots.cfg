SPECIFICATION Spec
CONSTANTS
  None = None
  Workspace = {w1,w2}
  Group = {g1,g2}
  Limit = {1}
  Commands = {"create", "launch", "restart", "stop", "die", "limit", "crash"}
INVARIANTS TypeOK
PROPERTIES AdmittedWithinLimit LiveOnlyByASlot
SYMMETRY Symmetric
