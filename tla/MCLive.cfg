SPECIFICATION LiveSpec
CONSTANTS
  steer1 = steer1 pause1 = pause1 resume1 = resume1 cancel1 = cancel1
  Request = {steer1, pause1, resume1, cancel1}
  Kind <- RequestKind
  MaxRun = 1
  a1 = a1 a2 = a2 w1 = w1 r1 = r1 r2 = r2 r3 = r3
  None = None
  Account = {a1, a2}
  Workspace = {w1}
  Run = {r1, r2, r3}
  AccountOf <- MCAccountOf
  WorkspaceOf <- MCWorkspaceOf
  Limit = 1
INVARIANTS NoTwoWriters
PROPERTIES PromiseKept CancelEnds ControlSettles
CHECK_DEADLOCK FALSE
