SPECIFICATION Spec
CONSTANTS
  None = None
  Workspace = {w1,w2}
  Group = {g1}
  Limit = {1}
  Commands = {"create", "restart", "stop"}
INVARIANTS NeverOverLimit
SYMMETRY Symmetric
