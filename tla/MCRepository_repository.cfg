SPECIFICATION MCSpec
CONSTANTS
  None = None
  Torn = Torn
  Cut = Cut
  Unstamped = Unstamped
  x1 = x1
  x2 = x2
  x3 = x3
  n1 = n1
  n2 = n2
  Package = {p1}
  Suffix = {x1, x2, x3}
  Version = {1, 2, 3}
  Stamp <- Builds
  Guess <- MCGuess
  Kills = 1
  Name = {n1, n2}
  Built <- MCBuilt
  Number = {4}
  EditRequests <- MCEditRequests
  Runs = 3
  EditFaults = 1
INVARIANTS
  TypesOK
  IndexesTheDirectory
  EditOfNewestIsNewest
  ScratchIsRemoved
  InstalledIsWhole
PROPERTIES
  ImplementsAtomicIndex
CHECK_DEADLOCK FALSE
