\* Three revisions per event, two retained transitions, two events, a wall
\* clock that may step back once per event.
CONSTANTS
  MaxRevisions = 3
  Capacity = 2
  MaxEvents = 2
  Times = {0, 1}
SPECIFICATION Spec
INVARIANTS TimelineIsContiguous EndedEventsAreClosed IncidentFollowsDetection AnomalyIsRecorded
