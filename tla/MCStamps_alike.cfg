SPECIFICATION Spec
CONSTANTS
  None = None
  Latest = Latest
  Torn = Torn
  p1 = p1
  s1 = s1
  s2 = s2
  x1 = x1
  x2 = x2
  x3 = x3
  Package = {p1}
  Suffix = {x1, x2, x3}
  Version = {1, 2, 3, 4}
  Service = {s1}
  Stamp <- Alike
  Guess <- AlikeGuess
  PackageOf <- MCPackageOf
  Requests <- AlikeRequests
  Published <- OneTarball
  Faults = {}
  MaxFaults = 0
INVARIANTS
  ReportIsTrue
PROPERTIES
  RemovalSparesActive
