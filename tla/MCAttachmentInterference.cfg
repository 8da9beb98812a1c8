\* Somebody else administers the interface between any two calls of the agent.
CONSTANTS
  RunIds = {r1}
  NoRun = NoRun
  MaxGeneration = 1
  MaxFaults = 1
  MaxCrashes = 0
  Interference = TRUE
SPECIFICATION FairSpec
PROPERTIES KeepsWhatItDoesNotOwn TransactionEnds
