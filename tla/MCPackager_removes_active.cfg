SPECIFICATION Spec
CONSTANTS
  None = None
  Latest = Latest
  Torn = Torn
  p1 = p1
  s1 = s1
  s2 = s2
  x1 = x1
  x2 = x2
  Package = {p1}
  Suffix = {x1, x2}
  Version = {1, 2, 3, 4}
  Service = {s1}
  Stamp <- Stamped
  Guess <- MCGuess
  PackageOf <- MCPackageOf
  Requests <- FullRequests
  Published <- AllTarballs
  Faults = {"kill"}
  MaxFaults = 1
PROPERTIES
  RemovalSparesActive
