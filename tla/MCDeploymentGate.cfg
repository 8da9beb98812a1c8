\* Three transactions of two artifacts, seven roles, every step of the installer
\* between any two of a check; the service starts and the link is replaced once.
\* The documents of the other artifact have expired.
CONSTANTS
  Roles = 7
  Directories = 2
  Retention = {2}
  Standard = {}
  TransactionsRoot = 2
  Parent <- MCParent
  Transactions = {t1, t2, t3}
  None = None
  Foreign = Foreign
  MaxStops = 0
  MaxForeign = 0
  MaxLifetime = 2
  FrameSizes <- MCFrameSizes
  FramesPerSize = 10
  Second = 1000
  MaxRss = 8
  MaxGrowth = 1
  UnitDirectives <- MCUnitDirectives
  ServiceDirectives <- MCServiceDirectives
  RequiredMemlock = 1
  ReservedHandle <- MCReservedHandle
  MaxQueues = 1
  Artifact <- MCArtifact
  AuthorizationId <- MCAuthorizationId
  AuthorizationOf <- MCAuthorizationOf
  EvidenceOf <- MCEvidenceOf
  Expected = "a"
  Unchecked = {2}
  Exact = {1}
  Payloads <- MCPayloads
  Stable = {6}
  Bound = {6}
  Manifest = 4
  Sums = 5
  Service = 6
  Authorization = 7
  Performance = 7
  LinkOf <- MCLinkOf
  Host = "host"
  HookReadings <- MCHookReadings
  HostReadings <- MCHostReadings
  RowReadings = {{}, {"address"}}
  Capabilities <- MCCapabilities
  Units <- MCUnits
  Trees <- MCTrees
  Times = {3}
  MaxLinks = 2
  MaxServices = 1
  MaxChecks = 1
SPECIFICATION GateSpec
SYMMETRY MCSymmetry
INVARIANTS VerifiedIsWhole 
