CONSTANTS
  QueueSize = 1
  Attempts = 2
  MaxPolls = 1
SPECIFICATION Spec
PROPERTY GivingUpEndsProcess
CHECK_DEADLOCK FALSE
