SPECIFICATION Spec
CONSTANTS
  Request = {q1, q2}
  Client = {c1}
  MaxRun = 3
  MaxGen = 2
  Worktree = {w1}
  Path = {p1, p2}
  Content = {"base", "x"}
  Base = "base"
  Main = "main"
  MaxEdit = 2
  MaxRecord = 2
  Overlap = FALSE
  MaxItem = 9
  MaxCalls = 2
  MaxSay = 3
  MaxRequest = 1
  Folder = {"d1", "d2"}
  FirstFolder = "d1"
  Nowhere = "nowhere"
  MaxId = 2
  MaxRuns = 2
  MaxGrant = 2
  Ask = {q1, q2}
  MaxService = 2
  MaxPending = 1
CHECK_DEADLOCK FALSE
INVARIANT SafeBoundaryCompacts
