CONSTANTS
  QueueSize = 2
  Attempts = 2
  MaxPolls = 3
SPECIFICATION Spec
INVARIANTS TypeOK SchedulerStartedOnce DrainedForGood
PROPERTIES ImplementsFeed BatchesReachHandler StopTerminates StopProgresses
CHECK_DEADLOCK FALSE
