SPECIFICATION OverlapSpec
CONSTANTS
  e1 = e1 e2 = e2 e3 = e3 r1 = r1 r2 = r2 w1 = w1
  h1 = h1 h2 = h2 x1 = x1 x2 = x2
  None = None
  Execution = {e1}
  Run = {r1}
  Handler = {h1}
  Writer = {x1, x2}
  RunOf <- OneRunOf
  Lasting = {e1}
  WorkspaceOf <- MCWorkspaceOf
  Slots = 2
  PerWorkspace = 2
  MaxFault = 2
  Stream = {"stdout"}
  MaxChar = 2
  MaxQueue = 2
  Lease = {l1, l2}
  Account = {a1}
  Person = {"owner", "guest"}
  Flaky = TRUE
  MaxEdit = 0
  MaxCrash = 0
  Nobody = Nobody
  l1 = l1 l2 = l2 a1 = a1
  Tool = {t1}
  Session = {s1, s2}
  MaxVersion = 4
  MaxHunt = 2
  MaxAgent = 2
  MaxTurn = 1
  Catalog = {k1, k2}
  Unknown = Unknown
CHECK_DEADLOCK FALSE
INVARIANT CredentialIsRefused
