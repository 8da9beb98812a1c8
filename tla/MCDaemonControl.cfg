\* Requests and the sampler contend for the control mutex while the daemon
\* shuts down.
CONSTANTS
  Requests = {q1, q2}
  RunIds = {r1, r2}
  NoRun = NoRun
  MaxGeneration = 2
  MaxHandlers = 2
  None = None
SPECIFICATION FairSpec
INVARIANTS  ActiveIsJournalled 
PROPERTIES ShutdownCompletes
CHECK_DEADLOCK FALSE
