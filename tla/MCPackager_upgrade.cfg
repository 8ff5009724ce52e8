SPECIFICATION FairSpec
CONSTANTS
  None = None
  Latest = Latest
  Torn = Torn
  p1 = p1
  s1 = s1
  s2 = s2
  x1 = x1
  x2 = x2
  Package = {p1}
  Suffix = {x1, x2}
  Version = {1, 2, 3, 4}
  Service = {s1, s2}
  Stamp <- Stamped
  Guess <- MCGuess
  PackageOf <- MCPackageOf
  Requests <- SharedRequests
  Published <- OneTarball
  Faults = {}
  MaxFaults = 0
INVARIANTS
  Intact
  LinkedRuns
  NoOrphanPackage
PROPERTIES
  ImplementsStore
  UpgradeEnds
