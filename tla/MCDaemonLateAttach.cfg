\* An attach whose client timed out runs after the cleanup of the shutdown.
CONSTANTS
  Requests = {q1, q2}
  RunIds = {r1}
  NoRun = NoRun
  MaxGeneration = 1
  MaxHandlers = 2
  None = None
SPECIFICATION Spec
INVARIANT NothingAttachedAfterExit
CHECK_DEADLOCK FALSE
