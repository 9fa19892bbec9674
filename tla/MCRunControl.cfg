SPECIFICATION Spec
CONSTANTS
  steer1 = steer1
  pause1 = pause1
  pause2 = pause2
  resume1 = resume1
  resume2 = resume2
  cancel1 = cancel1
  Request = {steer1, pause1, resume1, resume2, cancel1}
  Kind <- RequestKind
  MaxRun = 3
INVARIANTS
  NoSteerLost
  ResponseSawSteers
PROPERTIES
  NoLateEffect
  RefusalHolds
CONSTRAINT
  Bounded
CHECK_DEADLOCK FALSE
