SPECIFICATION Spec
CONSTANTS
  steer1 = steer1
  pause1 = pause1
  pause2 = pause2
  resume1 = resume1
  resume2 = resume2
  cancel1 = cancel1
  Request = {steer1}
  Kind <- RequestKind
  MaxRun = 1
PROPERTIES
  StaleResponseNeverActs
CHECK_DEADLOCK FALSE
