CONSTANTS
  QueueSize = 1
  Attempts = 2
  MaxPolls = 1
SPECIFICATION Spec
INVARIANT CloseReleases
CHECK_DEADLOCK FALSE
