\* Half seconds as units: ticks after 1 or 1.5 seconds, a ring of three samples,
\* windows of 1 and 2 seconds, scans every 2 seconds, all faults.
SPECIFICATION Spec
CONSTANTS
  Windows <- MCWindows
  HistoryCapacity = 3
  StaleAfter = 6
  Second = 2
  BaselineCapacity = 1
  MinimumSamples = 1
  NoiseFloor = 1
  AssertTicks = 2
  ClearTicks = 2
  CooldownTicks = 3
  Gaps = {2, 3}
  Loads = {0, 9}
  AdaptiveFloor = 3
  AbsoluteFloor = 6
  AnalysisPeriod = 4
  ScanWindow = 4
  ScanFreshness = 6
  MaxIdle = 2
  Scans = {"plain", "returning"}
  Faults = {"integrity", "transient", "torn", "scan", "step", "pause"}
INVARIANTS
  RingLosesNothing
  EvidenceNeverContradicts

  
VIEW MCView
