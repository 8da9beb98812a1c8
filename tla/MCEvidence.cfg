\* Two events of two revisions, a store of three revisions and two events, a
\* queue of two; one failed operation and one crash or power loss, any number
\* of clean restarts.
CONSTANTS
  Events = {1, 2}
  MaxRevisions = 2
  MaxEvents = 2
  MaxStore = 3
  MaxAge = 0
  QueueCapacity = 2
  Times = {0, 1}
  FreeSpace = {0, 1}
  MaxFaults = 1
  MaxCrashes = 1
SPECIFICATION FairSpec
INVARIANTS StoredIsDurable EvidenceIsContiguous NothingIsLostSilently
PROPERTIES EvidenceIsKept AcceptedIsAlerted StopEnds
