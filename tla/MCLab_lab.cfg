SPECIFICATION MCSpec
CONSTANTS
  v1 = v1
  v2 = v2
  None = None
  Torn = Torn
  Off = Off
  r1 = r1
  nova = nova
  api = api
  Ardana = Ardana
  dotted = dotted
  VM = {v1, v2}
  Deployer = v1
  Plans <- MCPlans
  MaxRetry = 2
  Node = {v1, v2}
  Candidates <- MCCandidates
  Distro = {"sles", "rhel"}
  Default = "rhel"
  Place <- MCPlace
  Role <- MCRole
  Kills = 2
  Box = {v1, v2}
  Option = {"HostName", "User"}
  Needed = {"HostName"}
  MaxLines = 5
  Version = {r1, r2}
  Retries = 2
  MaxFaults = 2
  Package <- MCPackage
  Timestamp = {1, 2}
  Dotted = {dotted}
  Known <- MCKnown
  Release <- MCRelease
  Patch = {0, 2, 10}
INVARIANTS
  TypesOK
  ClientIsCurrent
  SuccessIsUpToDate
  RecordedIsChosen
  AnswersFromItsBlock
  BootsAsAsked
  CachedIsCurrent
  LaterIsNewer
PROPERTIES
  PlanEnds
CHECK_DEADLOCK FALSE
