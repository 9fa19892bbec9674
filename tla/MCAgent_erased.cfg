SPECIFICATION Spec
CONSTANTS
  MaxStep = 5
  MaxTool = 4
  MaxRetry = 1
  MaxWidth = 3
  Protocol = {"chat", "ollama", "claude", "responses"}
  Letter = {"s", "t"}
  Secret <- SecretWord
  MaxText = 4
  MinPrefix = 2
  MaxTry = 2
  MaxTurn = 2
  File = {f1, f2}
  Content = {"a", "b"}
  First = "a"
  Link = "link"
  Test = {"t"}
  Script = {"s"}
  Unread = Unread
  Allowed = {f1}
  Setting <- Settings
  MaxCorrect = 1
  MaxWork = 3
  Managed = {e1}
  Target = {t1}
  Code = {"input"}
  Check = {k1}
  Status = {"passed", "failed"}
  Capped = TRUE
  StopAt = 2
  ReviewAt = 2
  MaxReview = 1
  MaxEntry = 1
  MaxCorrection = 1
  MaxRound = 4
  MaxCall = 3
  MaxSteer = 1
  MaxRun = 2
  MaxVersion = 1
INVARIANT UnknownStaysOpen
CHECK_DEADLOCK FALSE
