\* Three events of two revisions in a store of four revisions, so that two closed
\* events compete; one failed operation, no crash.
CONSTANTS
  Events = {1, 2, 3}
  MaxRevisions = 2
  MaxEvents = 3
  MaxStore = 4
  MaxAge = 0
  QueueCapacity = 1
  Times = {0, 1}
  FreeSpace = {1}
  MaxFaults = 1
  MaxCrashes = 0
SPECIFICATION Spec
INVARIANTS UsageIsNotUnderstated
PROPERTIES RetentionTakesOldestClosed
