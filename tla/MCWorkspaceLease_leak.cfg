SPECIFICATION LeaseFairSpec
CONSTANTS
  a1 = a1 a2 = a2 w1 = w1 r1 = r1 r2 = r2 r3 = r3
  None = None
  Account = {a1}
  Workspace = {w1}
  Run = {r1, r2}
  AccountOf <- OneAccountOf
  WorkspaceOf <- OneWorkspaceOf
  Limit = 1
PROPERTIES LeaseIsReturned
